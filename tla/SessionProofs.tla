---------------------------- MODULE SessionProofs ----------------------------
(***************************************************************************)
(* What TLAPS proves of Session, for every set of requests, keys and       *)
(* values, every API and any number of changes of the cache.               *)
(***************************************************************************)
EXTENDS Session, SenderProofs

-----------------------------------------------------------------------------
(* A session only does to the Sender what the Sender allows.               *)

LEMMA HandlerSteps ==
  ASSUME NEW r \in Receivers, Handler(r)
  PROVE  Watch(r) \/ Receive(r) \/ UNCHANGED allVars
<1>1. CASE StartWatch(r)
  BY <1>1 DEF StartWatch
<1>2. CASE TakeEvent(r)
  BY <1>2 DEF TakeEvent
<1>3. CASE ~StartWatch(r) /\ ~TakeEvent(r)
  BY <1>3 DEF Handler, ReadInit, WriteInit, WriteEvent, WriteError,
     ChannelClosed, ContextDone, CloseSource
<1>. QED  BY <1>1, <1>2, <1>3

LEMMA SenderSteps == [SessionNext]_everything => [Next]_allVars
<1>. SUFFICES ASSUME [SessionNext]_everything PROVE [Next]_allVars
  OBVIOUS
<1>1. CASE UNCHANGED everything
  BY <1>1 DEF everything
<1>2. CASE Feed(\E new \in Caches : CacheRead(new) \/ CacheEvent(new))
  BY <1>2 DEF Feed, Next
<1>3. CASE Feed(Walk) \/ Feed(ClearNilReceivers)
  BY <1>3 DEF Feed, Next
<1>4. ASSUME NEW r \in Receivers, Handler(r)
      PROVE  [Next]_allVars
  BY <1>4, HandlerSteps DEF Next
<1>5. ASSUME NEW r \in Receivers, Canceler(r)
      PROVE  [Next]_allVars
  BY <1>5 DEF Canceler, Next
<1>6. ASSUME NEW r \in Receivers,
             Monitor(r) \/ Tick(r) \/ WriteHeartbeat(r) \/ StopHeartbeat(r)
               \/ Disconnect(r) \/ Stall(r)
      PROVE  UNCHANGED allVars
  BY <1>6 DEF Monitor, Tick, WriteHeartbeat, StopHeartbeat, BeatTo, Disconnect, Stall
<1>. QED  BY <1>1, <1>2, <1>3, <1>4, <1>5, <1>6 DEF SessionNext

(* What a step of the watcher or of Broadcast may do to receiver q: its    *)
(* channel stays as it is, or gets the next event.                         *)
LEMMA FeedSteps ==
  ASSUME IInv, NEW q \in Receivers,
         \/ \E new \in Caches : CacheRead(new) \/ CacheEvent(new)
         \/ Walk \/ ClearNilReceivers
  PROVE  /\ UNCHANGED canceled
         /\ open'[q] = "new" <=> open[q] = "new"
         /\ \/ chan'[q] = chan[q] /\ got'[q] = got[q] /\ counter'[q] = counter[q]
            \/ /\ chan'[q] = <<got'[q]>> /\ got'[q].id = counter[q]
               /\ counter'[q] = counter[q] + 1 /\ open[q] # "new"
         /\ clock' >= clock
         /\ clock' = clock => cache' = cache
<1>. USE DEF IInv, TypeOK
<1>1. CASE \E new \in Caches : CacheRead(new) \/ CacheEvent(new)
  BY <1>1 DEF CacheRead, CacheEvent, senderVars
<1>2. CASE Broadcast \/ VisitNil \/ BroadcastReturns \/ ClearNilReceivers
  BY <1>2 DEF Broadcast, VisitNil, BroadcastReturns, Announce, Visiting, ClearNilReceivers,
     sourceVars, receiverHist
<1>3. ASSUME NEW r \in Receivers, VisitCanceled(r)
      PROVE  /\ UNCHANGED <<canceled, chan, got, counter, clock, cache>>
             /\ open'[q] = "new" <=> open[q] = "new"
  <2>1. open[r] = "open"
    BY <1>3, SenderAssumption DEF VisitCanceled, Visiting, ListedOnce
  <2>. QED  BY <1>3, <2>1 DEF VisitCanceled, Visiting, sourceVars
<1>4. ASSUME NEW r \in Receivers, VisitSends(r)
      PROVE  /\ UNCHANGED <<canceled, open, clock, cache>>
             /\ \/ chan'[q] = chan[q] /\ got'[q] = got[q] /\ counter'[q] = counter[q]
                \/ /\ chan'[q] = <<got'[q]>> /\ got'[q].id = counter[q]
                   /\ counter'[q] = counter[q] + 1 /\ open[q] # "new"
  <2>1. open[r] = "open"
    BY <1>4, SenderAssumption DEF VisitSends, Visiting, ListedOnce
  <2>2. PICK e : /\ e = EventFor(r, counter[r])
                 /\ chan' = [chan EXCEPT ![r] = <<e>>]
                 /\ got' = [got EXCEPT ![r] = e]
    BY <1>4 DEF VisitSends
  <2>3. e.id = counter[r]
    BY <2>2 DEF EventFor
  <2>4. /\ counter' = [counter EXCEPT ![r] = @ + 1]
        /\ UNCHANGED <<canceled, open, clock, cache>>
    BY <1>4 DEF VisitSends, Visiting, sourceVars
  <2>5. CASE q = r
    BY <2>1, <2>2, <2>3, <2>4, <2>5
  <2>6. CASE q # r
    BY <2>2, <2>4, <2>6
  <2>. QED  BY <2>4, <2>5, <2>6
<1>5. ASSUME NEW r \in Receivers, VisitDrops(r) \/ VisitUnconcerned(r)
      PROVE  UNCHANGED <<canceled, open, chan, got, counter, clock, cache>>
  BY <1>5 DEF VisitDrops, VisitUnconcerned, Visiting, sourceVars
<1>. QED  BY <1>1, <1>2, <1>3, <1>4, <1>5 DEF Walk

-----------------------------------------------------------------------------
(* The invariant.                                                          *)

LEMMA SessionInit_Inv == SessionInit => SessionInv
<1>. SUFFICES ASSUME SessionInit PROVE SessionInv
  OBVIOUS
<1>1. IInv
  BY InitInv DEF SessionInit
<1>2. SessionTypeOK
  BY <1>1 DEF SessionInit, SessionTypeOK, IInv, TypeOK, Contents
<1>3. HandlerInv /\ IdInv
  BY DEF SessionInit, Init, HandlerInv, IdInv
<1>4. ShownInv
  BY DEF SessionInit, ShownInv
<1>. QED  BY <1>1, <1>2, <1>3, <1>4 DEF SessionInv

LEMMA ContentType ==
  ASSUME NEW data \in SUBSET (Keys \X Values)
  PROVE  Content(data) \in Contents
BY DEF Content, Contents

(* The watcher and Broadcast. *)
LEMMA FeedInv ==
  ASSUME SessionInv, IInv',
         Feed(\E new \in Caches : CacheRead(new) \/ CacheEvent(new))
           \/ Feed(Walk) \/ Feed(ClearNilReceivers)
  PROVE  SessionInv'
<1>. USE DEF SessionInv
<1>1. UNCHANGED sessionVars
  BY DEF Feed
<1>2. \/ \E new \in Caches : CacheRead(new) \/ CacheEvent(new)
      \/ Walk \/ ClearNilReceivers
  BY DEF Feed
<1>3. clock' >= clock /\ clock' \in Nat /\ clock \in Nat
  <2>1. CASE \E q : q \in Receivers
    BY <1>2, <2>1, FeedSteps DEF IInv, TypeOK
  <2>2. CASE ~\E q : q \in Receivers
    BY <1>2, <2>2 DEF IInv, TypeOK, CacheRead, CacheEvent, Walk, Broadcast, VisitNil,
       BroadcastReturns, Visiting, ClearNilReceivers, receiverHist
  <2>. QED  BY <2>1, <2>2
<1>4. SessionTypeOK'
  <2>1. TypeOK'
    BY DEF IInv
  <2>2. readClock' \in [Receivers -> 0 .. clock']
    BY <1>1, <1>3 DEF SessionTypeOK, sessionVars
  <2>. QED  BY <1>1, <2>1, <2>2 DEF SessionTypeOK, sessionVars
<1>5. ASSUME NEW q \in Receivers
      PROVE  /\ UNCHANGED canceled
             /\ open'[q] = "new" <=> open[q] = "new"
             /\ \/ chan'[q] = chan[q] /\ got'[q] = got[q] /\ counter'[q] = counter[q]
                \/ /\ chan'[q] = <<got'[q]>> /\ got'[q].id = counter[q]
                   /\ counter'[q] = counter[q] + 1 /\ open[q] # "new"
             /\ clock' >= clock
             /\ clock' = clock => cache' = cache
  BY <1>2, FeedSteps
<1>6. HandlerInv'
  BY <1>1, <1>5 DEF HandlerInv, sessionVars
<1>7. IdInv'
  <2>. SUFFICES ASSUME NEW q \in Receivers
                PROVE  /\ lastId[q] < counter'[q] /\ event[q] < counter'[q]
                       /\ chan'[q] # <<>> => lastId[q] < got'[q].id /\ event[q] < got'[q].id
    BY <1>1 DEF IdInv, sessionVars
  <2>1. /\ lastId[q] \in Nat /\ event[q] \in Nat /\ counter[q] \in Nat
    BY DEF SessionTypeOK, IInv, TypeOK
  <2>. QED  BY <1>5, <2>1 DEF IdInv
<1>8. ShownInv'
  <2>. SUFFICES ASSUME NEW q \in Receivers, conn[q] = "up"
                PROVE  /\ at[q] \in {"init", "watch"} /\ readClock[q] = clock'
                            => made[q] = Content(Get(cache', Watched[q]))
                       /\ at[q] \in {"loop", "event"} /\ chan'[q] = <<>>
                            => \/ made[q] = Content(got'[q].data)
                               \/ got'[q].id = 1 /\ readClock[q] < got'[q].at
    BY <1>1 DEF ShownInv, sessionVars
  <2>1. readClock[q] \in 0 .. clock
    BY DEF SessionTypeOK
  <2>2. readClock[q] = clock' => cache' = cache /\ readClock[q] = clock
    BY <1>3, <1>5, <2>1
  <2>. QED  BY <1>5, <2>2 DEF ShownInv
<1>. QED  BY <1>4, <1>6, <1>7, <1>8

(* The steps of a handler. *)
LEMMA HandlerType ==
  ASSUME SessionInv, IInv', NEW r \in Receivers, Handler(r)
  PROVE  SessionTypeOK'
<1>. USE DEF SessionInv, SessionTypeOK, Goto
<1>1. TypeOK' /\ UNCHANGED <<cache, clock>>
  BY HandlerSteps DEF IInv, Watch, Receive, sourceVars, receiverHist, allVars
<1>2. CASE ReadInit(r)
  <2>1. Content(Get(cache, Watched[r])) \in Contents
    BY GetType, ContentType DEF IInv, TypeOK, SourceTypeOK
  <2>2. made' \in [Receivers -> Contents] /\ at' \in [Receivers -> {"get", "init", "watch", "loop", "event", "error",
                           "return", "done"}]
    BY <1>2, <2>1 DEF ReadInit
  <2>3. readClock' \in [Receivers -> 0 .. clock]
    BY <1>2, SMTT(20) DEF ReadInit, IInv, TypeOK
  <2>. QED  BY <1>1, <1>2, <2>2, <2>3 DEF ReadInit
<1>3. CASE WriteInit(r) \/ WriteEvent(r)
  BY <1>1, <1>3 DEF WriteInit, WriteEvent, Written
<1>4. CASE StartWatch(r)
  BY <1>1, <1>4 DEF StartWatch
<1>5. CASE TakeEvent(r)
  <2>1. chan[r] # <<>> /\ Head(chan[r]) \in Events
    BY <1>5 DEF TakeEvent, Receive, IInv, TypeOK
  <2>2. Content(Head(chan[r]).data) \in Contents /\ Head(chan[r]).id \in Nat
    BY <2>1, ContentType DEF Events
  <2>3. made' \in [Receivers -> Contents] /\ event' \in [Receivers -> Nat]
        /\ at' \in [Receivers -> {"get", "init", "watch", "loop", "event", "error",
                           "return", "done"}]
    BY <1>5, <2>2 DEF TakeEvent
  <2>. QED  BY <1>1, <1>5, <2>3 DEF TakeEvent
<1>6. CASE WriteError(r) \/ ChannelClosed(r) \/ ContextDone(r) \/ CloseSource(r)
  BY <1>1, <1>6 DEF WriteError, ChannelClosed, ContextDone, CloseSource
<1>. QED  BY <1>2, <1>3, <1>4, <1>5, <1>6 DEF Handler

(* What the handler of r does to the other requests: nothing. *)
LEMMA HandlerApart ==
  ASSUME SessionInv, NEW r \in Receivers, Handler(r), NEW q \in Receivers, q # r
  PROVE  /\ at'[q] = at[q] /\ made'[q] = made[q] /\ event'[q] = event[q]
         /\ conn'[q] = conn[q] /\ lastId'[q] = lastId[q] /\ shown'[q] = shown[q]
         /\ readClock'[q] = readClock[q] /\ chan'[q] = chan[q] /\ got'[q] = got[q]
         /\ open'[q] = open[q] /\ counter'[q] = counter[q]
         /\ UNCHANGED <<cache, clock, canceled>>
<1>. USE DEF SessionInv, SessionTypeOK, TypeOK, Goto, allVars, sourceVars, senderVars,
     receiverHist
<1>1. CASE ReadInit(r)
  BY <1>1 DEF ReadInit
<1>2. CASE WriteInit(r) \/ WriteEvent(r)
  BY <1>2 DEF WriteInit, WriteEvent, Written
<1>3. CASE StartWatch(r)
  BY <1>3 DEF StartWatch, Watch
<1>4. CASE TakeEvent(r)
  BY <1>4 DEF TakeEvent, Receive
<1>5. CASE WriteError(r) \/ ChannelClosed(r) \/ ContextDone(r) \/ CloseSource(r)
  BY <1>5 DEF WriteError, ChannelClosed, ContextDone, CloseSource
<1>. QED  BY <1>1, <1>2, <1>3, <1>4, <1>5 DEF Handler

LEMMA HandlerStepInv ==
  ASSUME SessionInv, IInv', NEW r \in Receivers, Handler(r)
  PROVE  SessionInv'
<1>. USE DEF SessionInv
<1>1. SessionTypeOK'
  BY HandlerType
<1>2. SUFFICES ASSUME NEW q \in Receivers
      PROVE  /\ at'[q] \in {"get", "init", "watch"} => open'[q] = "new"
             /\ at'[q] \in {"loop", "event"} => open'[q] # "new"
             /\ q \in canceled' => conn'[q] = "closed"
             /\ lastId'[q] < counter'[q] /\ event'[q] < counter'[q]
             /\ at'[q] \in {"get", "init"} => lastId'[q] = 0
             /\ at'[q] = "event" => lastId'[q] < event'[q]
             /\ chan'[q] # <<>> => lastId'[q] < got'[q].id /\ event'[q] < got'[q].id
             /\ conn'[q] = "up" =>
                  /\ at'[q] \in {"init", "watch"} /\ readClock'[q] = clock'
                       => made'[q] = Content(Get(cache', Watched[q]))
                  /\ at'[q] \in {"watch", "loop"} => shown'[q] = made'[q]
                  /\ at'[q] \in {"loop", "event"} /\ chan'[q] = <<>>
                       => \/ made'[q] = Content(got'[q].data)
                          \/ got'[q].id = 1 /\ readClock'[q] < got'[q].at
  BY <1>1, <1>2 DEF HandlerInv, IdInv, ShownInv
<1>3. /\ at[q] \in {"get", "init", "watch"} => open[q] = "new"
      /\ at[q] \in {"loop", "event"} => open[q] # "new"
      /\ q \in canceled => conn[q] = "closed"
      /\ lastId[q] < counter[q] /\ event[q] < counter[q]
      /\ at[q] \in {"get", "init"} => lastId[q] = 0
      /\ at[q] = "event" => lastId[q] < event[q]
      /\ chan[q] # <<>> => lastId[q] < got[q].id /\ event[q] < got[q].id
      /\ conn[q] = "up" =>
           /\ at[q] \in {"init", "watch"} /\ readClock[q] = clock
                => made[q] = Content(Get(cache, Watched[q]))
           /\ at[q] \in {"watch", "loop"} => shown[q] = made[q]
           /\ at[q] \in {"loop", "event"} /\ chan[q] = <<>>
                => \/ made[q] = Content(got[q].data)
                   \/ got[q].id = 1 /\ readClock[q] < got[q].at
  BY DEF HandlerInv, IdInv, ShownInv
<1>4. CASE q # r
  BY <1>3, <1>4, HandlerApart
<1>5. /\ lastId[r] \in Nat /\ event[r] \in Nat /\ counter[r] \in Nat
      /\ readClock[r] \in 0 .. clock /\ clock \in Nat
      /\ chan[r] # <<>> => chan[r] = <<got[r]>>
      /\ open[r] = "new" => chan[r] = <<>> /\ counter[r] = 2
  BY DEF SessionTypeOK, IInv, TypeOK, ChannelInv, CountInv
<1>. USE DEF SessionTypeOK, TypeOK, Goto, allVars, sourceVars, senderVars, receiverHist
<1>6. CASE q = r /\ ReadInit(r)
  BY <1>3, <1>5, <1>6 DEF ReadInit
<1>7. CASE q = r /\ WriteInit(r)
  BY <1>3, <1>5, <1>7 DEF WriteInit, Written
<1>8. CASE q = r /\ StartWatch(r)
  <2>1. /\ EventFor(r, 1).id = 1 /\ EventFor(r, 1).at = clock
        /\ EventFor(r, 1).data = Get(cache, Watched[r])
    BY DEF EventFor
  <2>2. /\ got'[r] = EventFor(r, 1) /\ open'[r] = "open" /\ at[r] = "watch"
        /\ at'[r] = "loop" /\ open[r] = "new"
        /\ UNCHANGED <<cache, clock, canceled, chan, counter>>
        /\ UNCHANGED <<made, event, conn, lastId, shown, readClock>>
    BY <1>8 DEF StartWatch, Watch
  <2>. QED  BY <1>3, <1>5, <1>8, <2>1, <2>2
<1>9. CASE q = r /\ TakeEvent(r)
  <2>1. chan[r] = <<got[r]>> /\ chan'[r] = <<>> /\ Head(chan[r]) = got[r]
    BY <1>5, <1>9 DEF TakeEvent, Receive
  <2>2. /\ UNCHANGED <<cache, clock, canceled, counter, got, open>>
        /\ UNCHANGED <<conn, lastId, shown, readClock>> /\ at[r] = "loop"
    BY <1>9 DEF TakeEvent, Receive
  <2>3. got[r].id \in Nat /\ got[r].id + 1 = counter[r]
    BY DEF IInv, CountInv, Events
  <2>4. \/ at'[r] = "error" /\ event'[r] = event[r]
        \/ /\ at'[r] = "loop" /\ event'[r] = event[r]
           /\ made'[r] = made[r] /\ made[r] = Content(got[r].data)
        \/ /\ at'[r] = "event" /\ event'[r] = got[r].id
           /\ made'[r] = Content(got[r].data)
    BY <1>9, <2>1 DEF TakeEvent
  <2>. QED  BY <1>3, <1>5, <1>9, <2>1, <2>2, <2>3, <2>4
<1>10. CASE q = r /\ WriteEvent(r)
  BY <1>3, <1>5, <1>10 DEF WriteEvent, Written
<1>11. CASE q = r /\ (WriteError(r) \/ ChannelClosed(r) \/ ContextDone(r) \/ CloseSource(r))
  BY <1>3, <1>5, <1>11 DEF WriteError, ChannelClosed, ContextDone, CloseSource
<1>. QED  BY <1>4, <1>6, <1>7, <1>8, <1>9, <1>10, <1>11 DEF Handler

(* The goroutines beside the handlers, and the clients. *)
LEMMA BesideInv ==
  ASSUME SessionInv, IInv', NEW r \in Receivers,
         Monitor(r) \/ Canceler(r) \/ Tick(r) \/ WriteHeartbeat(r)
           \/ StopHeartbeat(r) \/ Disconnect(r) \/ Stall(r)
  PROVE  SessionInv'
<1>. USE DEF SessionInv, SessionTypeOK
<1>1. CASE Monitor(r) \/ Disconnect(r)
  <2>1. /\ UNCHANGED <<allVars, at, made, event, stalled, beat, lastId, shown, readClock>>
        /\ conn' \in [Receivers -> {"up", "gone", "closed"}]
        /\ \A q \in Receivers : /\ conn'[q] = "up" => conn[q] = "up"
                                /\ conn[q] = "closed" => conn'[q] = "closed"
    BY <1>1 DEF Monitor, Disconnect
  <2>2. SessionTypeOK'
    BY <2>1 DEF IInv, allVars, sourceVars, receiverHist
  <2>3. HandlerInv' /\ IdInv'
    BY <2>1 DEF HandlerInv, IdInv, allVars, senderVars, receiverHist
  <2>4. ShownInv'
    BY <2>1 DEF ShownInv, allVars, sourceVars, senderVars, receiverHist
  <2>. QED  BY <2>2, <2>3, <2>4
<1>2. CASE Canceler(r)
  <2>1. /\ canceled' = canceled \union {r} /\ conn[r] = "closed"
        /\ UNCHANGED <<sessionVars, sourceVars, chan, open, counter, clock, got>>
    BY <1>2 DEF Canceler, Cancel, receiverHist
  <2>2. SessionTypeOK'
    BY <2>1 DEF IInv, sessionVars
  <2>3. HandlerInv' /\ IdInv'
    BY <2>1 DEF HandlerInv, IdInv, sessionVars
  <2>4. ShownInv'
    BY <2>1 DEF ShownInv, sessionVars, sourceVars
  <2>. QED  BY <2>2, <2>3, <2>4
<1>3. CASE Tick(r) \/ WriteHeartbeat(r) \/ StopHeartbeat(r) \/ Stall(r)
  <2>1. /\ UNCHANGED <<allVars, at, made, event, conn, lastId, shown, readClock>>
        /\ beat' \in [Receivers -> {"waits", "writes", "off"}]
        /\ stalled' \subseteq Receivers
    BY <1>3 DEF Tick, WriteHeartbeat, StopHeartbeat, BeatTo, Stall
  <2>2. SessionTypeOK'
    BY <2>1 DEF IInv, allVars, sourceVars, receiverHist
  <2>3. HandlerInv' /\ IdInv'
    BY <2>1 DEF HandlerInv, IdInv, allVars, senderVars, receiverHist
  <2>4. ShownInv'
    BY <2>1 DEF ShownInv, allVars, sourceVars, senderVars, receiverHist
  <2>. QED  BY <2>2, <2>3, <2>4
<1>. QED  BY <1>1, <1>2, <1>3

LEMMA SessionStepInv ==
  ASSUME SessionInv, [SessionNext]_everything
  PROVE  SessionInv'
<1>1. IInv'
  BY SenderSteps, StepInv DEF SessionInv
<1>2. CASE UNCHANGED everything
  <2>. USE <1>2 DEF everything, allVars, sourceVars, senderVars, receiverHist, sessionVars
  <2>1. SessionTypeOK'
    BY <1>1 DEF SessionInv, SessionTypeOK, IInv
  <2>2. HandlerInv' /\ IdInv'
    BY DEF SessionInv, HandlerInv, IdInv
  <2>3. ShownInv'
    BY DEF SessionInv, ShownInv
  <2>. QED  BY <1>1, <2>1, <2>2, <2>3 DEF SessionInv
<1>. QED  BY <1>1, <1>2, FeedInv, HandlerStepInv, BesideInv DEF SessionNext

-----------------------------------------------------------------------------
(* The theorems.                                                           *)

(* Whatever the sessions do, they use the Sender only as Watch, its        *)
(* channels and contexts allow, so that what is proved of Sender holds     *)
(* below them (server.go 150-212, 284-322).                                *)
THEOREM SessionsUseSender == SessionSpec => Spec
<1>1. SessionInit => Init
  BY DEF SessionInit
<1>. QED  BY <1>1, SenderSteps, PTL DEF SessionSpec, Spec

(* What a session was shown, is about to write and has in its channel stay *)
(* in the order of their IDs, and what was shown last comes from the last  *)
(* event (server.go 150-212).                                              *)
THEOREM SessionInvariant == SessionSpec => []SessionInv
<1>. QED  BY SessionInit_Inv, SessionStepInv, PTL DEF SessionSpec

(* A client whose handler has nothing left to do is shown what the cache   *)
(* holds, unless an event was dropped or passed over, or the cache changed *)
(* between the Get for init and the registration (server.go 150-212).      *)
THEOREM IdleSessionsCurrent == SessionSpec => []ShownIsCached
<1>1. SessionInv => ShownIsCached
  <2>. SUFFICES ASSUME SessionInv, NEW r \in Receivers, Quiet(r), r \notin missed,
                       ~(got[r].id = 1 /\ readClock[r] < got[r].at)
                PROVE  shown[r] = Content(Get(cache, Watched[r]))
    BY DEF ShownIsCached
  <2>. USE DEF SessionInv, Quiet
  <2>1. open[r] = "open" /\ r \notin canceled
    BY DEF HandlerInv, IInv, ChannelInv, TypeOK
  <2>2. got[r].data = Get(cache, Watched[r])
    BY <2>1 DEF IInv, CaughtInv
  <2>. QED  BY <2>2 DEF ShownInv
<1>. QED  BY <1>1, SessionInvariant, PTL

(* The content a client reads changes only with a larger ID, from 1 for    *)
(* init, through drops, unchanged contents and heartbeats (server.go       *)
(* 150-212, sender.go 65-72, 96).                                          *)
THEOREM ContentsNumbered == SessionSpec => IdsGrow
<1> DEFINE Grows(r) == /\ lastId'[r] >= lastId[r]
                       /\ shown'[r] # shown[r] => lastId'[r] > lastId[r]
<1>1. SessionInv /\ [SessionNext]_everything => [\A r \in Receivers : Grows(r)]_everything
  <2>. SUFFICES ASSUME SessionInv, SessionNext, NEW q \in Receivers PROVE Grows(q)
    OBVIOUS
  <2>. USE DEF SessionInv, SessionTypeOK
  <2>1. CASE UNCHANGED <<lastId, shown>>
    BY <2>1
  <2>2. ASSUME NEW r \in Receivers, WriteInit(r)
        PROVE  Grows(q)
    BY <2>2 DEF WriteInit, Written, Goto, IdInv
  <2>3. ASSUME NEW r \in Receivers, WriteEvent(r)
        PROVE  Grows(q)
    BY <2>3 DEF WriteEvent, Written, Goto, IdInv
  <2>4. CASE ~\E r \in Receivers : WriteInit(r) \/ WriteEvent(r)
    <3>1. UNCHANGED <<lastId, shown>>
      BY <2>4 DEF SessionNext, Feed, sessionVars, Handler, ReadInit, StartWatch,
         TakeEvent, WriteError, ChannelClosed, ContextDone, CloseSource, Monitor,
         Canceler, Tick, WriteHeartbeat, StopHeartbeat, BeatTo, Disconnect, Stall
    <3>. QED  BY <2>1, <3>1
  <2>. QED  BY <2>2, <2>3, <2>4
<1>. QED  BY <1>1, SessionInvariant, PTL DEF SessionSpec, IdsGrow
=============================================================================
