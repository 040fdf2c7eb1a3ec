----------------------------- MODULE RpcProofs -----------------------------
(***************************************************************************)
(* What TLAPS proves of Rpc: for any number of calls, any values and any   *)
(* endpoint, streams never go back and, unless they missed an event or     *)
(* were overwritten, come to rest at the current data.                     *)
(***************************************************************************)
EXTENDS Rpc, TLAPS

(* The steps of a handler, whichever endpoint it belongs to. *)
Step(c) ==
  \/ Read(c) \/ Refuse(c)
  \/ SameFirst(c) \/ (SameAgain(c) /\ "Containers" \notin alike)
  \/ Differs(c) \/ Store(c)
  \/ (Forgets(c) /\ "Containers" \in alike)
  \/ Panics(c) \/ Answer(c)
  \/ (\E u : Send(c, u)) \/ (\E u : SendFails(c, u))
  \/ Watch(c) \/ TakeEvent(c) \/ End(c)

(* What an endpoint does is one of them. *)
LEMMA ServeSteps ==
  ASSUME alike \in Endpoints, NEW c \in Calls, Serve(c)
  PROVE  Step(c)
<1>1. CASE "Containers" \in alike
  <2>1. alike = {"Containers"}
    BY <1>1 DEF Endpoints
  <2>2. ContainersEndpoint(c)
    BY <2>1 DEF Serve, AppsEndpoint, BackupctlEndpoint, ConfigEndpoint,
         CoreinfoEndpoint, DependsEndpoint, NodesEndpoint, PodgroupEndpoint,
         ProxyEndpoint, RebellionLocalprocsEndpoint, StreamrouterPortsEndpoint,
         StreamrouterStreamprocsEndpoint, WebrouterWebprocsEndpoint,
         LocalspecEndpoint
  <2>. QED  BY <1>1, <2>2 DEF ContainersEndpoint, Handler, Step
<1>2. CASE "Containers" \notin alike
  <2>1. CASE AppsEndpoint(c) \/ BackupctlEndpoint(c) \/ ConfigEndpoint(c)
             \/ CoreinfoEndpoint(c) \/ DependsEndpoint(c) \/ NodesEndpoint(c)
    BY <1>2, <2>1 DEF AppsEndpoint, BackupctlEndpoint, ConfigEndpoint,
         CoreinfoEndpoint, DependsEndpoint, NodesEndpoint, Handler, Remembers,
         Step
  <2>2. CASE PodgroupEndpoint(c) \/ ProxyEndpoint(c)
             \/ RebellionLocalprocsEndpoint(c) \/ StreamrouterPortsEndpoint(c)
    BY <1>2, <2>2 DEF PodgroupEndpoint, ProxyEndpoint, Handler, Remembers, Step,
         RebellionLocalprocsEndpoint, StreamrouterPortsEndpoint
  <2>3. CASE StreamrouterStreamprocsEndpoint(c) \/ LocalspecEndpoint(c)
    BY <1>2, <2>3 DEF StreamrouterStreamprocsEndpoint, LocalspecEndpoint,
         Remembers, Step
  <2>4. CASE WebrouterWebprocsEndpoint(c)
    BY <1>2, <2>4 DEF WebrouterWebprocsEndpoint, Handler, Remembers, Step
  <2>5. ~ContainersEndpoint(c)
    BY <1>2 DEF ContainersEndpoint
  <2>. QED  BY <2>1, <2>2, <2>3, <2>4, <2>5 DEF Serve
<1>. QED  BY <1>1, <1>2

-----------------------------------------------------------------------------
(* The types, and the calls whose handlers stand still. *)

LEMMA InitInv == Init => IInv
<1>. SUFFICES ASSUME Init PROVE IInv
  OBVIOUS
<1>. USE DEF Init
<1>. PICK v \in Values : past = <<v>>
  OBVIOUS
<1>1. past \in Seq(Values) /\ Now = 1
  BY DEF Now
<1>2. TypeOK
  BY <1>1 DEF TypeOK, Handling
<1>. QED
  BY <1>1, <1>2 DEF IInv, ChannelInv, OrderInv, RememberInv, NewestInv, Handling

(* Handlers leave the data, the broadcast and the clients alone. *)
LEMMA StepFeed ==
  ASSUME NEW c \in Calls, Step(c)
  PROVE  /\ UNCHANGED <<alike, past, pending, gone>>
         /\ Now' = Now
BY DEF Step, feedVars, Now, Read, Refuse, SameFirst, SameAgain, Differs, Store,
       Forgets, Panics, Answer, Send, SendFails, Watch, TakeEvent, End

LEMMA StepType ==
  ASSUME TypeOK, OrderInv, NEW c \in Calls, Step(c)
  PROVE  TypeOK'
<1>. USE DEF TypeOK, Goto, Drop, Handling
<1>1. UNCHANGED <<alike, past, pending>> /\ Now' = Now /\ Now \in Nat
  BY StepFeed DEF Now
<1>2. CASE Read(c)
  BY <1>1, <1>2 DEF Read
<1>3. CASE Refuse(c)
  BY <1>1, <1>3 DEF Refuse
<1>4. CASE SameFirst(c)
  BY <1>1, <1>4 DEF SameFirst
<1>5. CASE SameAgain(c)
  BY <1>1, <1>5 DEF SameAgain
<1>6. CASE Differs(c)
  BY <1>1, <1>6 DEF Differs
<1>7. CASE Store(c)
  BY <1>1, <1>7 DEF Store, Value, Now, OrderInv
<1>8. CASE Forgets(c)
  BY <1>1, <1>8 DEF Forgets
<1>9. CASE Panics(c)
  BY <1>1, <1>9 DEF Panics
<1>10. CASE Answer(c)
  BY <1>1, <1>10 DEF Answer
<1>11. CASE Watch(c)
  BY <1>1, <1>11 DEF Watch
<1>12. CASE TakeEvent(c)
  BY <1>1, <1>12 DEF TakeEvent
<1>13. CASE End(c)
  BY <1>1, <1>13 DEF End
<1>14. CASE \E u : Send(c, u)
  BY <1>1, <1>14 DEF Send
<1>15. CASE \E u : SendFails(c, u)
  BY <1>1, <1>15 DEF SendFails
<1>. QED
  BY <1>2, <1>3, <1>4, <1>5, <1>6, <1>7, <1>8, <1>9, <1>10, <1>11, <1>12, <1>13, <1>14, <1>15 DEF Step

(* Channels: registering opens one, and taking an event needs one. *)
LEMMA StepChannel ==
  ASSUME TypeOK, ChannelInv, OrderInv, NEW c \in Calls, Step(c)
  PROVE  ChannelInv'
<1>. USE DEF TypeOK, Goto, Drop, Handling, ChannelInv, OrderInv, Value
<1>1. UNCHANGED <<alike, past, pending, gone>> /\ Now' = Now /\ Now \in Nat
  BY StepFeed DEF Now
<1>2. CASE Read(c) \/ Refuse(c) \/ SameFirst(c)
  BY <1>1, <1>2 DEF Read, Refuse, SameFirst
<1>3. CASE SameAgain(c) \/ Differs(c) \/ Store(c)
  BY <1>1, <1>3 DEF SameAgain, Differs, Store
<1>4. CASE Forgets(c) \/ Panics(c) \/ Answer(c)
  BY <1>1, <1>4 DEF Forgets, Panics, Answer
<1>5. CASE \E u : Send(c, u)
  BY <1>1, <1>5 DEF Send
<1>6. CASE \E u : SendFails(c, u)
  BY <1>1, <1>6 DEF SendFails
<1>7. CASE Watch(c) \/ TakeEvent(c) \/ End(c)
  BY <1>1, <1>7 DEF Watch, TakeEvent, End
<1>. QED
  BY <1>2, <1>3, <1>4, <1>5, <1>6, <1>7 DEF Step

(* A handler takes up what is newer than all its client was shown. *)
LEMMA StepOrder ==
  ASSUME TypeOK, ChannelInv, OrderInv, NEW c \in Calls, Step(c)
  PROVE  OrderInv'
<1>. USE DEF TypeOK, Goto, Drop, Handling, ChannelInv, OrderInv, Value
<1>1. UNCHANGED <<alike, past, pending, gone>> /\ Now' = Now /\ Now \in Nat
  BY StepFeed DEF Now
<1>2. CASE Read(c)
  BY <1>1, <1>2 DEF Read
<1>3. CASE Refuse(c)
  BY <1>1, <1>3 DEF Refuse
<1>4. CASE SameFirst(c) \/ Differs(c) \/ Store(c)
  BY <1>1, <1>4 DEF SameFirst, Differs, Store
<1>13. CASE SameAgain(c)
  BY <1>1, <1>13 DEF SameAgain
<1>5. CASE Forgets(c)
  BY <1>1, <1>5 DEF Forgets
<1>6. CASE Panics(c)
  BY <1>1, <1>6 DEF Panics
<1>7. CASE Answer(c)
  BY <1>1, <1>7 DEF Answer
<1>8. CASE \E u : Send(c, u)
  BY <1>1, <1>8 DEF Send
<1>9. CASE \E u : SendFails(c, u)
  BY <1>1, <1>9 DEF SendFails
<1>10. CASE Watch(c)
  BY <1>1, <1>10 DEF Watch
<1>11. CASE TakeEvent(c)
  BY <1>1, <1>11 DEF TakeEvent
<1>12. CASE End(c)
  BY <1>1, <1>12 DEF End
<1>. QED
  BY <1>2, <1>3, <1>4, <1>5, <1>6, <1>7, <1>8, <1>9, <1>10, <1>11, <1>12, <1>13 DEF Step

(* Whoever stores a reply becomes the rival of all the others. *)
LEMMA StepRemember ==
  ASSUME TypeOK, ChannelInv, OrderInv, RememberInv, NEW c \in Calls, Step(c)
  PROVE  RememberInv'
<1>. USE DEF TypeOK, Goto, Drop, Handling, ChannelInv, OrderInv, RememberInv, Value
<1>1. UNCHANGED <<alike, past, pending, gone>> /\ Now' = Now /\ Now \in Nat
  BY StepFeed DEF Now
<1>2. CASE Read(c)
  BY <1>1, <1>2 DEF Read
<1>3. CASE Refuse(c)
  BY <1>1, <1>3 DEF Refuse
<1>4. CASE SameFirst(c)
  BY <1>1, <1>4 DEF SameFirst
<1>5. CASE SameAgain(c)
  BY <1>1, <1>5 DEF SameAgain
<1>6. CASE Differs(c)
  BY <1>1, <1>6 DEF Differs
<1>7. CASE Store(c)
  BY <1>1, <1>7 DEF Store
<1>8. CASE Forgets(c) /\ "Containers" \in alike
  BY <1>1, <1>8 DEF Forgets
<1>9. CASE Panics(c)
  BY <1>1, <1>9 DEF Panics
<1>10. CASE Answer(c)
  BY <1>1, <1>10 DEF Answer
<1>11. CASE \E u : Send(c, u)
  BY <1>1, <1>11 DEF Send
<1>12. CASE \E u : SendFails(c, u)
  BY <1>1, <1>12 DEF SendFails
<1>13. CASE Watch(c)
  BY <1>1, <1>13 DEF Watch
<1>14. CASE TakeEvent(c)
  BY <1>1, <1>14 DEF TakeEvent
<1>15. CASE End(c)
  BY <1>1, <1>15 DEF End
<1>. QED
  BY <1>2, <1>3, <1>4, <1>5, <1>6, <1>7, <1>8, <1>9, <1>10, <1>11, <1>12, <1>13, <1>14, <1>15 DEF Step

(* What a handler drops is what it has sent, or what is shown already. *)
LEMMA StepNewest ==
  ASSUME TypeOK, ChannelInv, OrderInv, RememberInv, NewestInv, NEW c \in Calls, Step(c)
  PROVE  NewestInv'
<1>. USE DEF TypeOK, Goto, Drop, Handling, ChannelInv, OrderInv, RememberInv, NewestInv, Value
<1>1. UNCHANGED <<alike, past, pending, gone>> /\ Now' = Now /\ Now \in Nat
  BY StepFeed DEF Now
<1>2. CASE Read(c)
  BY <1>1, <1>2 DEF Read
<1>3. CASE Refuse(c)
  BY <1>1, <1>3 DEF Refuse
<1>4. CASE SameFirst(c)
  BY <1>1, <1>4 DEF SameFirst
<1>5. CASE SameAgain(c) /\ "Containers" \notin alike
  BY <1>1, <1>5 DEF SameAgain
<1>6. CASE Differs(c)
  BY <1>1, <1>6 DEF Differs
<1>7. CASE Store(c)
  BY <1>1, <1>7 DEF Store
<1>8. CASE Forgets(c)
  BY <1>1, <1>8 DEF Forgets
<1>9. CASE Panics(c)
  BY <1>1, <1>9 DEF Panics
<1>10. CASE Answer(c)
  BY <1>1, <1>10 DEF Answer
<1>11. CASE \E u : Send(c, u)
  BY <1>1, <1>11 DEF Send
<1>12. CASE \E u : SendFails(c, u)
  BY <1>1, <1>12 DEF SendFails
<1>13. CASE Watch(c)
  BY <1>1, <1>13 DEF Watch
<1>14. CASE TakeEvent(c)
  BY <1>1, <1>14 DEF TakeEvent
<1>15. CASE End(c)
  BY <1>1, <1>15 DEF End
<1>. QED
  BY <1>2, <1>3, <1>4, <1>5, <1>6, <1>7, <1>8, <1>9, <1>10, <1>11, <1>12, <1>13, <1>14, <1>15 DEF Step
LEMMA ServeInv ==
  ASSUME IInv, NEW c \in Calls, Serve(c)
  PROVE  IInv'
<1>1. Step(c)
  BY ServeSteps DEF IInv, TypeOK
<1>. QED
  BY <1>1, StepType, StepChannel, StepOrder, StepRemember, StepNewest DEF IInv

-----------------------------------------------------------------------------
(* The data and the broadcasts. *)

(* A new value leaves the old ones where they were; it is news to every    *)
(* registered receiver.                                                    *)
LEMMA ChangeInv ==
  ASSUME IInv, NEW v \in Values, Change(v)
  PROVE  IInv'
<1>. USE DEF IInv, TypeOK, Change
<1>1. /\ past' \in Seq(Values) /\ Now' = Now + 1 /\ Now \in Nat
      /\ \A i \in 1 .. Now : past'[i] = past[i]
  BY DEF Now
<1>2. TypeOK'
  BY <1>1
<1>3. ChannelInv' /\ OrderInv'
  BY <1>1 DEF ChannelInv, OrderInv
<1>4. RememberInv'
  <2>1. \A d \in Calls :
          /\ at[d] = "made" => reply[d] \in 1 .. Now
          /\ at[d] \in {"watch", "wait"} \/ chan[d] # "none" => shown[d] \in 1 .. Now
    BY <1>1 DEF ChannelInv, OrderInv, Handling
  <2>2. UNCHANGED <<at, rivals, alike, cached, reply, shown, chan>>
    OBVIOUS
  <2>3. ASSUME NEW d \in Calls, d \notin rivals, "Containers" \notin alike
        PROVE  /\ at[d] = "made" => cached = past'[reply[d]]
               /\ at[d] \in {"watch", "wait"} => cached = past'[shown[d]]
               /\ at[d] \in {"make", "store"} /\ chan[d] # "none"
                    => cached = past'[shown[d]]
    <3>. HIDE DEF TypeOK, Change
    <3>1. CASE at[d] = "made"
      BY <1>1, <2>1, <2>3, <3>1 DEF RememberInv
    <3>2. CASE at[d] # "made"
      BY <1>1, <2>1, <2>3, <3>2 DEF RememberInv
    <3>. QED  BY <3>1, <3>2
  <2>. HIDE DEF IInv, TypeOK, Change
  <2>. QED  BY <2>2, <2>3 DEF RememberInv
<1>5. NewestInv'
  BY DEF NewestInv
<1>. QED  BY <1>2, <1>3, <1>4, <1>5

(* What a Broadcast puts into a channel is the newest there is. *)
LEMMA VisitInv ==
  ASSUME IInv, NEW c \in Calls, Visit(c)
  PROVE  IInv'
<1>. USE DEF IInv, TypeOK, Visit
<1>1. Now' = Now /\ Now \in Nat
  BY DEF Now
<1>2. TypeOK'
  <2>1. box' \in [Calls -> 0 .. Now] /\ chan' \in [Calls -> {"none", "open", "closed"}]
    <3>1. CASE c \in gone
      BY <3>1
    <3>2. CASE c \notin gone
      <4>1. box' = [box EXCEPT ![c] = Now] \/ box' = box
        BY <3>2
      <4>2. box \in [Calls -> 0 .. Now] /\ Now \in 0 .. Now
        BY <1>1
      <4>3. box' \in [Calls -> 0 .. Now]
        <5>. HIDE DEF IInv, TypeOK, Visit
        <5>. QED  BY <4>1, <4>2
      <4>. QED  BY <3>2, <4>3
    <3>. QED  BY <3>1, <3>2
  <2>2. /\ pending' \subseteq Calls
        /\ UNCHANGED <<alike, past, reply, shown, at, cached>>
    OBVIOUS
  <2>. HIDE DEF Visit, IInv
  <2>. QED  BY <1>1, <2>1, <2>2 DEF IInv
<1>3. CASE c \in gone
  <2>1. /\ chan' = [chan EXCEPT ![c] = "closed"]
        /\ UNCHANGED <<box, behind>>
    BY <1>3
  <2>. QED
    BY <1>1, <1>2, <1>3, <2>1
       DEF ChannelInv, OrderInv, RememberInv, NewestInv, Handling
<1>4. CASE c \notin gone /\ box[c] = 0
  <2>1. /\ box' = [box EXCEPT ![c] = Now] /\ behind' = behind \ {c}
        /\ UNCHANGED chan
    BY <1>4
  <2>2. ChannelInv' /\ OrderInv'
    BY <1>1, <2>1 DEF ChannelInv, OrderInv
  <2>3. RememberInv'
    BY <2>1 DEF RememberInv
  <2>4. NewestInv'
    BY <1>1, <2>1 DEF NewestInv
  <2>. QED  BY <1>2, <2>2, <2>3, <2>4
<1>5. CASE c \notin gone /\ box[c] # 0
  <2>1. UNCHANGED <<chan, box>> /\ behind' = behind \union {c}
    BY <1>5
  <2>. QED
    BY <1>1, <1>2, <2>1 DEF ChannelInv, OrderInv, RememberInv, NewestInv
<1>. QED  BY <1>3, <1>4, <1>5

LEMMA LeaveInv ==
  ASSUME IInv, (\E c \in Calls : Leave(c)) \/ Abort \/ UNCHANGED vars
  PROVE  IInv'
BY DEF Leave, Abort, vars, IInv, TypeOK, ChannelInv, OrderInv, RememberInv,
       NewestInv, Now

(* In every state of every behaviour, what a call has in its channel is    *)
(* newer than what it has in hand, which is newer than what its client was *)
(* shown; the newest of them is the current data unless the call missed an *)
(* event; and the remembered reply is its own unless another call replaced *)
(* it (config.go 88-97, 119-168, sender.go 48-78).                         *)
THEOREM Invariant == Spec => []IInv
<1>1. IInv /\ [Next]_vars => IInv'
  <2>. SUFFICES ASSUME IInv, [Next]_vars PROVE IInv'
    OBVIOUS
  <2>1. CASE \E c \in Calls : Serve(c)
    BY <2>1, ServeInv
  <2>2. CASE \E v \in Values : Change(v)
    BY <2>2, ChangeInv
  <2>3. CASE \E c \in Calls : Visit(c)
    BY <2>3, VisitInv
  <2>4. CASE (\E c \in Calls : Leave(c)) \/ Abort \/ UNCHANGED vars
    BY <2>4, LeaveInv
  <2>. QED  BY <2>1, <2>2, <2>3, <2>4 DEF Next
<1>. QED  BY <1>1, InitInv, PTL DEF Spec

(* A stream that is idle shows the current data, unless it missed an event *)
(* or another call of its key replaced the reply its own are compared with *)
(* (config.go 88-97, 147-163).                                             *)
THEOREM IdleStreamsCurrent == Spec => []QuietCurrent
<1>1. IInv => QuietCurrent
  BY DEF IInv, NewestInv, ChannelInv, QuietCurrent, Quiet, TypeOK
<1>. QED  BY <1>1, Invariant, PTL

(* However handlers of one key overwrite each other's reply, no client is  *)
(* shown older data after newer (config.go 88-97, 119-168).                *)
THEOREM StreamsForward == Spec => NeverBack
<1>1. IInv /\ [Next]_vars => [\A c \in Calls : shown'[c] >= shown[c]]_vars
  <2>. SUFFICES ASSUME IInv, Next PROVE \A c \in Calls : shown'[c] >= shown[c]
    OBVIOUS
  <2>. USE DEF IInv, TypeOK
  <2>1. ASSUME NEW d \in Calls, Serve(d)
        PROVE  \A c \in Calls : shown'[c] >= shown[c]
    <3>1. Step(d)
      BY <2>1, ServeSteps
    <3>2. CASE \E u : Send(d, u)
      BY <3>2 DEF Send, Goto, OrderInv, Handling, Now
    <3>3. CASE ~\E u : Send(d, u)
      <4>1. UNCHANGED shown
        BY <3>1, <3>3 DEF Step, Read, Refuse, SameFirst, SameAgain, Differs,
             Store, Forgets, Panics, Answer, SendFails, Watch, TakeEvent, End
      <4>. QED  BY <4>1 DEF Now
    <3>. QED  BY <3>2, <3>3
  <2>2. CASE ~\E d \in Calls : Serve(d)
    <3>1. UNCHANGED shown
      BY <2>2 DEF Next, Visit, Leave, Change, Abort
    <3>. QED  BY <3>1 DEF Now
  <2>. QED  BY <2>1, <2>2
<1>. QED  BY <1>1, Invariant, PTL DEF Spec, NeverBack
=============================================================================
