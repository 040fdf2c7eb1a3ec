--------------------------- MODULE WatcherProofs ---------------------------
(***************************************************************************)
(* What TLAPS proves of Watcher, for every set of keys, values and bounds. *)
(***************************************************************************)
EXTENDS Watcher, TLAPS

(* The event on its way to the loop is one of the log. *)
TypeInv == TypeOK /\ held <= Rev

LEMMA InitType == Init => TypeInv
<1>. SUFFICES ASSUME Init PROVE TypeInv
  OBVIOUS
<1>1. [k \in Leaves |-> Absent] \in Contents
  BY DEF Contents
<1>2. [k \in Leaves |-> Absent] \in Cached
  BY DEF Cached
<1>3. log \in Seq(Event) /\ Len(log) = 0
  BY DEF Init
<1>4. bar \in BOOLEAN
  BY DEF Init
<1>5. kv \in Contents /\ cache \in Cached /\ told \in Cached
  BY <1>1, <1>2 DEF Init
<1>. QED  BY <1>3, <1>4, <1>5 DEF Init, TypeInv, TypeOK, Rev

(* Modifications of the store keep the types of the store. *)
LEMMA ClientsType ==
  ASSUME TypeInv, Clients
  PROVE  TypeInv'
<1>. USE EtcdAssumption DEF TypeInv, TypeOK, Rev
<1>1. /\ kv' \in Contents
      /\ log' \in Seq(Event)
      /\ Len(log') = Len(log) + 1
  <2>1. CASE \E k \in Leaves, v \in Vals : EtcdSet(k, v)
    BY <2>1 DEF EtcdSet, Contents, Event
  <2>2. CASE \E p \in Paths : EtcdDelete(p)
    BY <2>2 DEF EtcdDelete, Contents, Event
  <2>3. CASE EtcdOther
    BY <2>3 DEF EtcdOther, Event
  <2>. QED  BY <2>1, <2>2, <2>3 DEF Clients
<1>2. UNCHANGED <<streamVars, loopVars, cache, histVars>>
  BY DEF Clients
<1>. QED  BY <1>1, <1>2 DEF streamVars, loopVars, histVars

(* So do the steps of the stream. *)
LEMMA StreamType ==
  ASSUME TypeInv, Register \/ Transport \/ Trouble
  PROVE  TypeInv'
<1>. USE DEF TypeInv, TypeOK, Rev, storeVars, loopVars, histVars
<1>1. CASE Register
  BY <1>1 DEF Register, PollFromNow
<1>2. CASE Stream(PollFromIndex)
  BY <1>2 DEF Stream, PollFromIndex
<1>3. CASE Stream(PollOutdated)
  BY <1>3 DEF Stream, PollOutdated
<1>4. CASE Stream(Fetch)
  BY <1>4 DEF Stream, Fetch
<1>5. CASE Stream(PollMoves)
  BY <1>5 DEF Stream, PollMoves
<1>6. CASE Stream(PollFails)
  BY <1>6 DEF Stream, PollFails
<1>. QED  BY <1>1, <1>2, <1>3, <1>4, <1>5, <1>6 DEF Transport, Trouble

LEMMA DecodeType ==
  ASSUME TypeOK
  PROVE  [k \in Leaves |-> Decode(kv[k])] \in Cached
BY DEF TypeOK, Contents, Cached, Decode

LEMMA LoopType ==
  ASSUME TypeInv, Loop
  PROVE  TypeInv'
<1>. USE DEF TypeInv, TypeOK, Rev, storeVars, streamVars, loopVars, histVars
<1>0. Receiving => log[held] \in Event
  BY DEF Receiving
<1>1. CASE RefreshFirst
  BY <1>1, DecodeType DEF RefreshFirst, Reset
<1>2. CASE RefreshAgain
  BY <1>2, DecodeType DEF RefreshAgain, Reset, KeysOf
<1>3. CASE OpenWatch
  BY <1>3 DEF OpenWatch, OpenStream
<1>4. CASE HandleSet
  <2>1. /\ log[held].key \in Leaves
        /\ log[held].val \in Vals \ {Bad}
    BY <1>0, <1>4 DEF HandleSet, Receive, Event
  <2>2. cache' \in Cached
    BY <1>4, <2>1 DEF HandleSet, Cached
  <2>. QED  BY <1>4, <2>1, <2>2 DEF HandleSet, Receive
<1>5. CASE HandleUnreadable
  BY <1>5 DEF HandleUnreadable, Receive
<1>6. CASE HandleSkipped
  BY <1>6 DEF HandleSkipped, Receive
<1>7. CASE HandleDelete
  <2>1. cache' \in Cached
    BY <1>7 DEF HandleDelete, Cached
  <2>. QED  BY <1>7, <2>1 DEF HandleDelete, Receive, Concerned, KeysOf
<1>8. CASE HandleClosed
  BY <1>8 DEF HandleClosed
<1>9. CASE Broadcast
  <2>1. told' \in Cached
    BY <1>9 DEF Broadcast, Cached
  <2>. QED  BY <1>9, <2>1 DEF Broadcast
<1>. QED
  BY <1>1, <1>2, <1>3, <1>4, <1>5, <1>6, <1>7, <1>8, <1>9 DEF Loop

(* Every state of every behaviour of the watcher is well typed, and the    *)
(* event being delivered exists: the cache never holds a value that        *)
(* convert refused, and names in an announcement are keys (watcher.go      *)
(* 81-173, etcd.go 172-205).                                               *)
THEOREM TypeCorrect == Spec => []TypeOK
<1>1. Init => TypeInv
  BY InitType
<1>2. TypeInv /\ [Next]_vars => TypeInv'
  <2>. SUFFICES ASSUME TypeInv, [Next]_vars PROVE TypeInv'
    OBVIOUS
  <2>1. CASE Clients
    BY <2>1, ClientsType
  <2>2. CASE Register \/ Transport \/ Trouble
    BY <2>2, StreamType
  <2>3. CASE Loop
    BY <2>3, LoopType
  <2>4. CASE RefreshFails \/ UNCHANGED vars
    BY <2>4 DEF RefreshFails, vars, storeVars, streamVars, loopVars,
                histVars, TypeInv, TypeOK, Rev
  <2>. QED  BY <2>1, <2>2, <2>3, <2>4 DEF Next
<1>3. TypeInv => TypeOK
  BY DEF TypeInv
<1>. QED  BY <1>1, <1>2, <1>3, PTL DEF Spec
-----------------------------------------------------------------------------
(* The inductive invariant, one kind of step at a time. *)

LEMMA InitInv == Init => IInv
<1>. SUFFICES ASSUME Init PROVE IInv
  OBVIOUS
<1>1. TypeOK
  BY InitType DEF TypeInv
<1>2. Rev = 0 /\ 1..Rev = {}
  BY DEF Init, Rev
<1>3. LoopInv /\ StreamInv /\ StoreInv /\ ToldInv /\ NothingSkipped
  BY <1>2 DEF Init, LoopInv, JustRead, StreamInv, StoreInv, ToldInv,
              NothingSkipped
<1>4. \A k \in Leaves : cache[k] = Decode(kv[k])
  BY DEF Init, Decode
<1>. QED  BY <1>1, <1>3, <1>4 DEF IInv, ReadInv, Coherent

(* What a client's modification does: one more event, which says what the  *)
(* leaves it touches now hold.                                             *)
LEMMA ClientsAppend ==
  ASSUME TypeOK, Clients
  PROVE  \E e \in Event :
           /\ Rev' = Rev + 1
           /\ \A j \in 1..Rev : log'[j] = log[j]
           /\ log'[Rev + 1] = e
           /\ \A k \in Leaves : kv'[k] = IF Touches(e, k) THEN e.val ELSE kv[k]
<1>. USE EtcdAssumption DEF TypeOK, Rev, Touches, Contents, Event, Paths
<1>1. CASE \E k \in Leaves, v \in Vals : EtcdSet(k, v)
  <2>. PICK k \in Leaves, v \in Vals : EtcdSet(k, v)
    BY <1>1
  <2>. DEFINE e == [act |-> "set", key |-> k, val |-> v]
  <2>1. e \in Event /\ log' = Append(log, e)
    BY DEF EtcdSet
  <2>2. \A l \in Leaves : kv'[l] = IF Touches(e, l) THEN e.val ELSE kv[l]
    BY DEF EtcdSet
  <2>. QED  BY <2>1, <2>2
<1>2. CASE \E p \in Paths : EtcdDelete(p)
  <2>. PICK p \in Paths : EtcdDelete(p)
    BY <1>2
  <2>. DEFINE e == [act |-> "delete", key |-> p, val |-> Absent]
  <2>1. e \in Event /\ log' = Append(log, e)
    BY DEF EtcdDelete
  <2>2. \A l \in Leaves : kv'[l] = IF Touches(e, l) THEN e.val ELSE kv[l]
    BY DEF EtcdDelete
  <2>. QED  BY <2>1, <2>2
<1>3. CASE EtcdOther
  <2>. DEFINE e == [act |-> "other", key |-> Absent, val |-> Absent]
  <2>1. e \in Event /\ log' = Append(log, e)
    BY <1>3 DEF EtcdOther
  <2>2. \A l \in Leaves : kv'[l] = IF Touches(e, l) THEN e.val ELSE kv[l]
    BY <1>3 DEF EtcdOther
  <2>. QED  BY <2>1, <2>2
<1>. QED  BY <1>1, <1>2, <1>3 DEF Clients

LEMMA ClientsInv ==
  ASSUME IInv, Clients
  PROVE  IInv'
<1>0. TypeInv
  BY DEF IInv, TypeInv, NothingSkipped, StreamInv, TypeOK, Rev
<1>1. TypeOK'
  BY <1>0, ClientsType DEF TypeInv
<1>2. PICK e \in Event :
        /\ Rev' = Rev + 1
        /\ \A j \in 1..Rev : log'[j] = log[j]
        /\ log'[Rev + 1] = e
        /\ \A k \in Leaves : kv'[k] = IF Touches(e, k) THEN e.val ELSE kv[k]
  BY ClientsAppend DEF IInv
<1>3. /\ UNCHANGED <<st, waitIdx, reg, held, pc, bar, lastIndex, changed>>
      /\ UNCHANGED <<cache, readAt, base, pos, told>>
  BY DEF Clients, streamVars, loopVars, histVars
<1>4. /\ Rev \in Nat /\ pos \in Nat /\ base \in Nat /\ readAt \in Nat
      /\ held \in Nat /\ lastIndex \in Nat /\ reg \in Nat /\ waitIdx \in Nat
  BY DEF IInv, TypeOK, Rev
<1>5. LoopInv' /\ ToldInv'
  BY <1>3 DEF IInv, LoopInv, JustRead, ToldInv
<1>6. held <= Rev /\ pos <= Rev /\ base <= pos
  BY <1>4 DEF IInv, StreamInv, NothingSkipped
<1>7. StreamInv'
  BY <1>2, <1>3, <1>4, <1>6 DEF IInv, StreamInv
<1>8. NothingSkipped'
  <2>1. held > 0 => pos < held
          /\ \A j \in 1..Rev : pos < j /\ j < held => log[j].act = "other"
    BY DEF IInv, NothingSkipped
  <2>2. reg > 0 => reg = pos + 1
    BY DEF IInv, StreamInv
  <2>. QED  BY <1>2, <1>3, <1>4, <1>6, <2>1, <2>2 DEF NothingSkipped
<1>9. ASSUME NEW k \in Leaves, NEW i \in Nat, i <= Rev,
             \A j \in (1..Rev)' : j > i => ~Touches(log'[j], k)
      PROVE  /\ kv'[k] = kv[k]
             /\ \A j \in 1..Rev : j > i => ~Touches(log[j], k)
  BY <1>2, <1>4, <1>9
<1>10. StoreInv'
  <2>. SUFFICES ASSUME NEW k \in Leaves, NEW i \in (1..Rev)',
                       Touches(log'[i], k),
                       \A j \in (1..Rev)' : j > i => ~Touches(log'[j], k)
                PROVE  kv'[k] = log'[i].val
    BY DEF StoreInv
  <2>1. CASE i = Rev + 1
    BY <2>1, <1>2
  <2>2. CASE i \in 1..Rev
    BY <2>2, <1>2, <1>4, <1>9 DEF IInv, StoreInv
  <2>. QED  BY <2>1, <2>2, <1>2, <1>4
<1>11. ReadInv'
  <2>. SUFFICES ASSUME base = pos, NEW k \in Leaves,
                       \A j \in (1..Rev)' : j > readAt => ~Touches(log'[j], k)
                PROVE  cache[k] = Decode(kv'[k])
    BY <1>3 DEF ReadInv
  <2>1. readAt <= Rev
    BY DEF IInv, StreamInv
  <2>. QED  BY <2>1, <1>4, <1>9 DEF IInv, ReadInv
<1>12. Coherent'
  <2>. SUFFICES ASSUME NEW k \in Leaves,
                       LastChangeBy(pos, k)' \/ Untouched(k)'
                PROVE  cache'[k] = Decode(kv'[k])
    BY DEF Coherent
  <2>1. ASSUME NEW i \in Nat, i <= Rev, QuietAfter(i, k)'
        PROVE  QuietAfter(i, k) /\ kv'[k] = kv[k]
    BY <2>1, <1>2, <1>4, <1>9 DEF QuietAfter
  <2>2. CASE LastChangeBy(pos, k)'
    <3>1. PICK i \in (1..Rev)' : /\ base < i /\ i <= pos
                                 /\ Touches(log'[i], k) /\ Affects(log'[i], k)
                                 /\ QuietAfter(i, k)'
      BY <2>2, <1>3 DEF LastChangeBy
    <3>2. i \in 1..Rev
      BY <3>1, <1>2, <1>4, <1>6
    <3>. QED  BY <3>1, <3>2, <2>1, <1>2, <1>3 DEF IInv, Coherent, LastChangeBy
  <2>3. CASE Untouched(k)'
    <3>1. Gapless(k)
      BY <2>3, <1>2, <1>3, <1>4 DEF Untouched, Gapless
    <3>2. QuietAfter(base, k) /\ kv'[k] = kv[k]
      BY <2>3, <2>1, <1>3, <1>4, <1>6 DEF Untouched
    <3>. QED  BY <3>1, <3>2, <1>3 DEF IInv, Coherent, Untouched
  <2>. QED  BY <2>2, <2>3
<1>. QED  BY <1>1, <1>5, <1>7, <1>8, <1>10, <1>11, <1>12 DEF IInv

(* Steps that leave alone what these conjuncts are about. *)
LEMMA UnchangedInv ==
  ASSUME IInv, UNCHANGED <<kv, log, cache, readAt, base, pos>>
  PROVE  StoreInv' /\ ReadInv' /\ Coherent'
<1>1. Rev' = Rev /\ log' = log
  BY DEF Rev
<1>2. StoreInv' /\ ReadInv'
  BY <1>1 DEF IInv, StoreInv, ReadInv
<1>3. \A i, k : QuietAfter(i, k)' <=> QuietAfter(i, k)
  BY <1>1 DEF QuietAfter
<1>4. \A k : Untouched(k)' <=> Untouched(k)
  BY <1>1, <1>3 DEF Untouched, Gapless
<1>5. \A k : LastChangeBy(pos, k)' <=> LastChangeBy(pos, k)
  BY <1>1, <1>3 DEF LastChangeBy
<1>. QED  BY <1>2, <1>4, <1>5 DEF IInv, Coherent

LEMMA TypesOfIInv ==
  ASSUME IInv
  PROVE  /\ TypeInv /\ Rev \in Nat
         /\ st \in {"none", "open", "failed"}
         /\ pos \in Nat /\ base \in Nat /\ readAt \in Nat /\ held \in Nat
         /\ lastIndex \in Nat /\ reg \in Nat /\ waitIdx \in Nat
         /\ lastIndex <= pos /\ base <= pos /\ pos <= Rev /\ readAt <= Rev
BY DEF IInv, TypeOK, TypeInv, NothingSkipped, StreamInv, Rev

LEMMA TransportInv ==
  ASSUME IInv, Transport \/ Trouble
  PROVE  IInv'
<1>. USE TypesOfIInv
<1>1. /\ UNCHANGED <<kv, log, pc, bar, lastIndex, changed, cache>>
      /\ UNCHANGED <<readAt, base, pos, told>>
  BY DEF Transport, Trouble, Stream, storeVars, loopVars, histVars
<1>2. TypeOK'
  BY StreamType DEF TypeInv
<1>3. StoreInv' /\ ReadInv' /\ Coherent' /\ ToldInv'
  BY <1>1, UnchangedInv DEF IInv, ToldInv
<1>4. st = "open" /\ st' \in {"open", "failed"}
  BY DEF Transport, Trouble, Stream, PollFromIndex, PollOutdated, Fetch,
         PollMoves, PollFails, Polling
<1>5. LoopInv'
  BY <1>1, <1>4 DEF IInv, LoopInv, JustRead
<1>6. StreamInv' /\ NothingSkipped'
  <2>. USE <1>1 DEF IInv, StreamInv, NothingSkipped, Rev, Polling, Stream
  <2>1. CASE Stream(PollFromIndex)
    BY <2>1 DEF PollFromIndex
  <2>2. CASE Stream(PollOutdated)
    BY <2>2 DEF PollOutdated
  <2>3. CASE Stream(Fetch)
    BY <2>3 DEF Fetch
  <2>4. CASE Stream(PollMoves)
    BY <2>4 DEF PollMoves
  <2>5. CASE Stream(PollFails)
    BY <2>5 DEF PollFails
  <2>. QED  BY <2>1, <2>2, <2>3, <2>4, <2>5 DEF Transport, Trouble
<1>. QED  BY <1>2, <1>3, <1>5, <1>6 DEF IInv

(* Nothing was delivered yet and nothing touched k since the tree was      *)
(* read: what "untouched" comes to while base = pos.                       *)
LEMMA FreshWhenUntouched ==
  ASSUME IInv, base = pos, NEW k \in Leaves,
         \A j \in 1..Rev : j > readAt => ~Touches(log[j], k)
  PROVE  cache[k] = Decode(kv[k])
BY DEF IInv, ReadInv

LEMMA RegisterInv ==
  ASSUME IInv, Register
  PROVE  IInv'
<1>. USE TypesOfIInv
<1>1. /\ UNCHANGED <<kv, log, pc, bar, lastIndex, changed, cache>>
      /\ UNCHANGED <<readAt, told, st, waitIdx, held>>
      /\ st = "open" /\ waitIdx = 0 /\ held = 0 /\ reg' = Rev + 1
      /\ base' = Rev /\ pos' = Rev /\ Rev' = Rev
  BY DEF Register, PollFromNow, Polling, storeVars, loopVars, Rev
<1>2. TypeOK'
  BY StreamType DEF TypeInv
<1>3. base = pos
  BY <1>1 DEF IInv, StreamInv
<1>4. LoopInv' /\ ToldInv' /\ StoreInv'
  BY <1>1 DEF IInv, LoopInv, JustRead, ToldInv, StoreInv
<1>5. StreamInv' /\ NothingSkipped'
  BY <1>1 DEF IInv, StreamInv, NothingSkipped
<1>6. ReadInv'
  BY <1>1, <1>3 DEF IInv, ReadInv
<1>7. Coherent'
  <2>. SUFFICES ASSUME NEW k \in Leaves,
                       LastChangeBy(pos, k)' \/ Untouched(k)'
                PROVE  cache[k] = Decode(kv[k])
    BY <1>1 DEF Coherent
  <2>1. ~LastChangeBy(pos, k)'
    BY <1>1 DEF LastChangeBy
  <2>2. \A j \in 1..Rev : j > readAt => ~Touches(log[j], k)
    BY <1>1, <2>1 DEF Untouched, Gapless
  <2>. QED  BY <1>3, <2>2, FreshWhenUntouched
<1>. QED  BY <1>2, <1>4, <1>5, <1>6, <1>7 DEF IInv

(* A read of the tree makes the whole cache equal to the store. *)
LEMMA ResetInv ==
  ASSUME IInv, Reset, st = "none", UNCHANGED <<storeVars, streamVars, lastIndex>>
  PROVE  /\ StreamInv' /\ StoreInv' /\ ReadInv' /\ NothingSkipped' /\ Coherent'
         /\ base' = pos'
<1>. USE TypesOfIInv
<1>1. /\ UNCHANGED <<kv, log, st, waitIdx, reg, held, lastIndex>>
      /\ readAt' = Rev /\ base' = Rev /\ pos' = Rev /\ Rev' = Rev
      /\ held = 0 /\ reg = 0
  BY DEF Reset, storeVars, streamVars, Rev, IInv, StreamInv
<1>2. \A k \in Leaves : cache'[k] = Decode(kv'[k])
  BY <1>1 DEF Reset
<1>3. StreamInv' /\ NothingSkipped'
  BY <1>1 DEF StreamInv, NothingSkipped
<1>4. StoreInv'
  BY <1>1 DEF IInv, StoreInv
<1>. QED  BY <1>1, <1>2, <1>3, <1>4 DEF ReadInv, Coherent

LEMMA OpenWatchInv ==
  ASSUME IInv, OpenWatch
  PROVE  IInv'
<1>. USE TypesOfIInv
<1>1. /\ UNCHANGED <<kv, log, bar, lastIndex, changed, cache, readAt, told>>
      /\ pc = "open" /\ pc' = "select" /\ st' = "open" /\ held' = 0 /\ reg' = 0
      /\ waitIdx' = IF lastIndex = 0 THEN 0 ELSE lastIndex + 1
      /\ base' = lastIndex /\ pos' = lastIndex /\ Rev' = Rev
  BY DEF OpenWatch, OpenStream, storeVars, Rev
<1>2. TypeOK'
  BY LoopType DEF TypeInv, Loop
<1>3. base = pos /\ changed = {}
  BY <1>1 DEF IInv, LoopInv, JustRead
<1>4. StreamInv' /\ NothingSkipped' /\ LoopInv'
  BY <1>1 DEF IInv, StreamInv, NothingSkipped, LoopInv, JustRead
<1>5. ToldInv' /\ StoreInv'
  BY <1>1 DEF IInv, ToldInv, StoreInv
<1>6. ReadInv'
  BY <1>1, <1>3 DEF IInv, ReadInv
<1>7. Coherent'
  <2>. SUFFICES ASSUME NEW k \in Leaves,
                       LastChangeBy(pos, k)' \/ Untouched(k)'
                PROVE  cache[k] = Decode(kv[k])
    BY <1>1 DEF Coherent
  <2>1. ~LastChangeBy(pos, k)'
    BY <1>1 DEF LastChangeBy
  <2>2. \A j \in 1..Rev : j > readAt => ~Touches(log[j], k)
    BY <1>1, <2>1 DEF Untouched, Gapless, QuietAfter
  <2>. QED  BY <1>3, <2>2, FreshWhenUntouched
<1>. QED  BY <1>2, <1>4, <1>5, <1>6, <1>7 DEF IInv

(* Taking event number held, whatever the loop then does to the cache as   *)
(* long as it is what the event says and nothing else.                     *)
LEMMA ReceiveInv ==
  ASSUME IInv, Receive,
         lastIndex' \in {lastIndex, held},
         \A k \in Leaves :
           cache'[k] = IF Affects(log[held], k) THEN log[held].val ELSE cache[k]
  PROVE  /\ StreamInv' /\ StoreInv' /\ ReadInv' /\ NothingSkipped'
         /\ Coherent'
<1>. USE TypesOfIInv
<1>1. /\ UNCHANGED <<kv, log, st, waitIdx, reg, bar, readAt, base, told>>
      /\ held > 0 /\ held' = 0 /\ pos' = held /\ pc = "select" /\ Rev' = Rev
  BY DEF Receive, Receiving, storeVars, Rev
<1>2. /\ pos < held /\ held <= Rev /\ waitIdx = held + 1 /\ reg = 0
      /\ \A j \in 1..Rev : pos < j /\ j < held => log[j].act = "other"
      /\ st = "open"
  BY <1>1 DEF IInv, NothingSkipped, StreamInv
<1>3. StreamInv' /\ NothingSkipped'
  BY <1>1, <1>2 DEF StreamInv, NothingSkipped
<1>4. StoreInv'
  BY <1>1 DEF IInv, StoreInv
<1>5. ReadInv'
  BY <1>1, <1>2 DEF ReadInv
<1>6. \A i, k : QuietAfter(i, k)' <=> QuietAfter(i, k)
  BY <1>1 DEF QuietAfter
<1>7. Coherent'
  <2>. SUFFICES ASSUME NEW k \in Leaves,
                       LastChangeBy(pos, k)' \/ Untouched(k)'
                PROVE  cache'[k] = Decode(kv[k])
    BY <1>1 DEF Coherent
  <2>1. CASE Untouched(k)'
    <3>1. Untouched(k)
      BY <2>1, <1>1, <1>6 DEF Untouched, Gapless
    <3>2. ~Affects(log[held], k)
      BY <3>1, <1>1, <1>2 DEF Untouched, QuietAfter
    <3>. QED  BY <3>1, <3>2 DEF IInv, Coherent
  <2>2. CASE LastChangeBy(pos, k)'
    <3>1. PICK i \in 1..Rev : /\ base < i /\ i <= held
                              /\ Touches(log[i], k) /\ Affects(log[i], k)
                              /\ QuietAfter(i, k)
      BY <2>2, <1>1, <1>6 DEF LastChangeBy
    <3>2. CASE i <= pos
      <4>1. LastChangeBy(pos, k)
        BY <3>1, <3>2 DEF LastChangeBy
      <4>2. ~Affects(log[held], k)
        BY <3>1, <3>2, <1>2, <1>1 DEF QuietAfter
      <4>. QED  BY <4>1, <4>2 DEF IInv, Coherent
    <3>3. CASE pos < i /\ i < held
      BY <3>1, <3>3, <1>2 DEF Touches
    <3>4. CASE i = held
      <4>1. kv[k] = log[held].val
        BY <3>1, <3>4 DEF IInv, StoreInv, QuietAfter
      <4>2. log[held].val # Bad
        <5>1. log[held] \in Event
          BY <1>1, <1>2 DEF TypeInv, TypeOK, Rev
        <5>. QED  BY <5>1, <3>1, <3>4, WatcherAssumption DEF Affects, Event
      <4>. QED  BY <4>1, <4>2, <3>1, <3>4 DEF Decode
    <3>. QED  BY <3>1, <3>2, <3>3, <3>4
  <2>. QED  BY <2>1, <2>2
<1>. QED  BY <1>3, <1>4, <1>5, <1>7

LEMMA HandleInv ==
  ASSUME IInv, HandleSet \/ HandleUnreadable \/ HandleSkipped \/ HandleDelete
  PROVE  IInv'
<1>. USE TypesOfIInv
<1>1. TypeOK'
  BY LoopType DEF TypeInv, Loop
<1>2. /\ UNCHANGED <<kv, log, st, waitIdx, reg, bar, readAt, base, told>>
      /\ held > 0 /\ held' = 0 /\ pos' = held /\ pc = "select"
      /\ pc' \in {"select", "broadcast"} /\ Receive
      /\ lastIndex' \in {lastIndex, held}
  BY DEF HandleSet, HandleUnreadable, HandleSkipped, HandleDelete, Receive,
         Receiving, storeVars, loopVars
<1>3. log[held] \in Event
  BY <1>2 DEF TypeInv, TypeOK, Rev
<1>4. changed = {} /\ ~bar
  BY <1>2 DEF IInv, LoopInv
<1>5. /\ \A k \in Leaves :
           cache'[k] = IF Affects(log[held], k) THEN log[held].val ELSE cache[k]
      /\ \A k \in Leaves : k \notin changed' => cache'[k] \in {cache[k], Absent}
      /\ pc' = "select" => changed' = {}
  <2>. USE <1>3 DEF Affects, Event
  <2>1. CASE HandleSet
    BY <2>1, <1>1 DEF HandleSet, TypeOK, TypeInv, Cached
  <2>2. CASE HandleUnreadable
    BY <2>2, <1>4 DEF HandleUnreadable, loopVars
  <2>3. CASE HandleSkipped
    BY <2>3 DEF HandleSkipped
  <2>4. CASE HandleDelete
    <3>1. log[held].key \in Paths /\ log[held].val = Absent
      BY <2>4 DEF HandleDelete
    <3>2. ASSUME NEW k \in Leaves
          PROVE  (\E c \in Concerned(log[held].key) : k \in Matches[c])
                   => k \in Matches[log[held].key]
      BY <3>1, WatcherAssumption DEF Concerned
    <3>3. ASSUME NEW k \in Leaves, k \in Matches[log[held].key],
                 cache[k] # Absent
          PROVE  k \in Concerned(log[held].key) /\ k \in Matches[k]
      BY <3>3, EtcdAssumption, WatcherAssumption DEF Concerned, KeysOf, Paths
    <3>. QED  BY <2>4, <3>1, <3>2, <3>3 DEF HandleDelete
  <2>. QED  BY <2>1, <2>2, <2>3, <2>4
<1>6. /\ StreamInv' /\ StoreInv' /\ ReadInv' /\ NothingSkipped' /\ Coherent'
  BY <1>2, <1>5, ReceiveInv
<1>7. LoopInv' /\ ToldInv'
  BY <1>2, <1>4, <1>5 DEF IInv, LoopInv, JustRead, ToldInv
<1>. QED  BY <1>1, <1>6, <1>7 DEF IInv

LEMMA LoopStepInv ==
  ASSUME IInv, Loop
  PROVE  IInv'
<1>. USE TypesOfIInv
<1>1. TypeOK'
  BY LoopType DEF TypeInv
<1>2. CASE RefreshFirst \/ RefreshAgain
  <2>1. /\ Reset /\ UNCHANGED <<storeVars, streamVars, lastIndex, bar>>
        /\ pc = "refresh"
    BY <1>2 DEF RefreshFirst, RefreshAgain
  <2>2. st = "none" /\ changed = {}
    BY <2>1 DEF IInv, LoopInv
  <2>3. /\ StreamInv' /\ StoreInv' /\ ReadInv' /\ NothingSkipped' /\ Coherent'
        /\ base' = pos' /\ st' = "none"
    BY <2>1, <2>2, ResetInv DEF streamVars
  <2>4. LoopInv'
    BY <1>2, <2>2, <2>3 DEF IInv, LoopInv, JustRead, RefreshFirst, RefreshAgain
  <2>5. ToldInv'
    BY <1>2 DEF ToldInv, RefreshFirst, RefreshAgain, KeysOf
  <2>. QED  BY <1>1, <2>3, <2>4, <2>5 DEF IInv
<1>3. CASE OpenWatch
  BY <1>3, OpenWatchInv
<1>4. CASE HandleSet \/ HandleUnreadable \/ HandleSkipped \/ HandleDelete
  BY <1>4, HandleInv
<1>5. CASE HandleClosed
  <2>. USE <1>5 DEF HandleClosed, storeVars, histVars
  <2>1. StoreInv' /\ ReadInv' /\ Coherent'
    BY UnchangedInv
  <2>2. LoopInv' /\ StreamInv' /\ ToldInv' /\ NothingSkipped'
    BY DEF IInv, LoopInv, JustRead, StreamInv, ToldInv, NothingSkipped, Rev
  <2>. QED  BY <1>1, <2>1, <2>2 DEF IInv
<1>6. CASE Broadcast
  <2>. USE <1>6 DEF Broadcast, storeVars, streamVars
  <2>1. StoreInv' /\ ReadInv' /\ Coherent'
    BY UnchangedInv
  <2>2. LoopInv' /\ StreamInv' /\ NothingSkipped'
    BY DEF IInv, LoopInv, JustRead, StreamInv, NothingSkipped, Rev
  <2>3. ToldInv'
    BY DEF IInv, ToldInv
  <2>. QED  BY <1>1, <2>1, <2>2, <2>3 DEF IInv
<1>. QED  BY <1>2, <1>3, <1>4, <1>5, <1>6 DEF Loop

LEMMA StutterInv ==
  ASSUME IInv, UNCHANGED vars
  PROVE  IInv'
<1>. USE DEF vars, storeVars, streamVars, loopVars, histVars
<1>1. StoreInv' /\ ReadInv' /\ Coherent'
  BY UnchangedInv
<1>2. LoopInv' /\ StreamInv' /\ ToldInv' /\ NothingSkipped' /\ TypeOK'
  BY DEF IInv, LoopInv, JustRead, StreamInv, ToldInv, NothingSkipped, Rev,
         TypeOK
<1>. QED  BY <1>1, <1>2 DEF IInv

THEOREM Invariant == Spec => []IInv
<1>1. Init => IInv
  BY InitInv
<1>2. IInv /\ [Next]_vars => IInv'
  BY ClientsInv, RegisterInv, TransportInv, LoopStepInv, StutterInv
     DEF Next, RefreshFails
<1>. QED  BY <1>1, <1>2, PTL DEF Spec

(* The theorems a reader wants: what the cache holds (watcher.go 89-173),  *)
THEOREM CacheCoherent == Spec => []Coherent
BY Invariant, PTL DEF IInv

(* that a session delivers every event under the root (etcd.go 172-205),   *)
THEOREM StreamComplete == Spec => []NothingSkipped
BY Invariant, PTL DEF IInv

(* what the receivers of broadcasts know (watcher.go 111-115, 142-168),    *)
THEOREM ReceiversTold == Spec => []ToldOrGone
<1>1. IInv => ToldOrGone
  BY DEF IInv, ToldInv, LoopInv, ToldOrGone
<1>. QED  BY <1>1, Invariant, PTL

(* and that the index of the next session never goes back (123-168).       *)
THEOREM ResumeForward == Spec => LastIndexMonotone
<1>1. IInv /\ [Next]_vars => [lastIndex' >= lastIndex]_vars
  <2>. SUFFICES ASSUME IInv, Next PROVE lastIndex' >= lastIndex
    OBVIOUS
  <2>. USE TypesOfIInv
  <2>1. CASE HandleSet \/ HandleSkipped \/ HandleDelete
    <3>1. lastIndex' = held /\ held > 0
      BY <2>1 DEF HandleSet, HandleSkipped, HandleDelete, Receive, Receiving
    <3>. QED  BY <3>1 DEF IInv, NothingSkipped
  <2>2. CASE ~(HandleSet \/ HandleSkipped \/ HandleDelete)
    <3>1. lastIndex' = lastIndex
      BY <2>2 DEF Next, Clients, Register, Transport, Trouble, RefreshFails,
           Stream, Loop, RefreshFirst, RefreshAgain, OpenWatch, HandleUnreadable,
           HandleClosed, Broadcast, loopVars, vars
    <3>. QED  BY <3>1
  <2>. QED  BY <2>1, <2>2
<1>. QED  BY <1>1, Invariant, PTL DEF LastIndexMonotone, Spec
-----------------------------------------------------------------------------
(* The watcher is a Source. *)

LEMMA CacheIsSourceCache ==
  ASSUME TypeOK, TypeOK'
  PROVE  cache \in Src!Caches /\ cache' \in Src!Caches
BY DEF TypeOK, Cached, Src!Caches

LEMMA LoopStepIsSourceStep ==
  ASSUME IInv, TypeOK', Loop
  PROVE  [Src!SourceNext]_(Src!sourceVars)
<1>. USE DEF Src!sourceVars
<1>0. cache' \in Src!Caches
  BY CacheIsSourceCache DEF IInv
<1>1. CASE RefreshFirst
  <2>1. Src!Load(cache')
    BY <1>1 DEF RefreshFirst, Src!Load, ModeOf
  <2>. QED  BY <2>1, <1>0 DEF Src!SourceNext
<1>2. CASE RefreshAgain
  <2>1. Src!Replace(cache')
    BY <1>2 DEF RefreshAgain, Src!Replace, Src!Present, KeysOf, ModeOf
  <2>. QED  BY <2>1, <1>0 DEF Src!SourceNext
<1>3. CASE OpenWatch \/ HandleUnreadable \/ HandleClosed
  <2>1. changed' = changed /\ cache' = cache
    BY <1>3 DEF OpenWatch, HandleUnreadable, HandleClosed, loopVars
  <2>2. ModeOf' = "idle" /\ ModeOf = "idle"
    BY <1>3 DEF OpenWatch, HandleUnreadable, HandleClosed, ModeOf, loopVars,
                Receive, Receiving
  <2>. QED  BY <2>1, <2>2
<1>4. CASE HandleSet \/ HandleSkipped \/ HandleDelete
  <2>1. pc = "select" /\ pc' = "broadcast"
    BY <1>4 DEF HandleSet, HandleSkipped, HandleDelete, Receive, Receiving
  <2>2. \A k \in Leaves : cache'[k] # cache[k] => k \in changed'
    <3>1. CASE HandleSet
      BY <3>1 DEF HandleSet, IInv, TypeOK, Cached
    <3>2. CASE HandleSkipped
      BY <3>2 DEF HandleSkipped
    <3>3. CASE HandleDelete
      <4>1. log[held] \in Event
        BY <3>3, TypesOfIInv DEF HandleDelete, Receive, Receiving, TypeInv,
                                 TypeOK, Rev
      <4>2. log[held].key \in Paths
        BY <3>3, <4>1 DEF HandleDelete, Event
      <4>. QED  BY <3>3, <4>2, WatcherAssumption
               DEF HandleDelete, Concerned, KeysOf
    <3>. QED  BY <1>4, <3>1, <3>2, <3>3
  <2>3. changed' \in SUBSET Leaves
    BY DEF TypeOK
  <2>4. changed = {}
    BY <2>1 DEF IInv, LoopInv
  <2>5. Src!Change(cache', changed')
    BY <2>1, <2>2, <2>4 DEF Src!Change, ModeOf
  <2>. QED  BY <2>3, <2>5, <1>0 DEF Src!SourceNext
<1>5. CASE Broadcast
  <2>1. Src!Announce
    BY <1>5 DEF Broadcast, Src!Announce, ModeOf
  <2>. QED  BY <2>1 DEF Src!SourceNext
<1>. QED  BY <1>1, <1>2, <1>3, <1>4, <1>5 DEF Loop

(* Whatever etcd, the transport and the clients do, the cache and the      *)
(* announcements of the watcher are those of a Source: the specification   *)
(* that the Sender is checked against (watchStore 89-173).                 *)
THEOREM WatcherImplementsSource == Spec => ImplementsSource
<1>1. Init => Src!SourceInit
  BY DEF Init, Src!SourceInit, ModeOf
<1>2. IInv /\ TypeOK' /\ [Next]_vars => [Src!SourceNext]_(Src!sourceVars)
  <2>. SUFFICES ASSUME IInv, TypeOK', [Next]_vars
                PROVE  [Src!SourceNext]_(Src!sourceVars)
    OBVIOUS
  <2>1. CASE Loop
    BY <2>1, LoopStepIsSourceStep
  <2>2. CASE ~Loop
    <3>1. UNCHANGED <<cache, changed, pc, bar>>
      BY <2>2 DEF Next, Clients, Register, Transport, Trouble, Stream,
                  RefreshFails, vars, loopVars
    <3>. QED  BY <3>1 DEF Src!sourceVars, ModeOf
  <2>. QED  BY <2>1, <2>2
<1>3. IInv => TypeOK
  BY DEF IInv
<1>. QED  BY <1>1, <1>2, <1>3, Invariant, PTL
          DEF Spec, ImplementsSource, Src!SourceSpec
=============================================================================
