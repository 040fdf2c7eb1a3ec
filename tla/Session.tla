------------------------------ MODULE Session ------------------------------
(***************************************************************************)
(* A watch request over HTTP (api/server.go, api/event.go) on top of the   *)
(* Sender: the handler sends what the cache holds, registers a receiver    *)
(* and forwards its events, while other goroutines notice that the         *)
(* connection ended, cancel the context and send heartbeats.  Request r    *)
(* uses receiver r.                                                        *)
(***************************************************************************)
EXTENDS Sender

CONSTANTS
  Seen,      \* Seen[v]: the part of a cached value that the API returns
  Dead,      \* the values that describe a container without an address
  Guarded    \* the API refuses to answer when most containers are dead
             \* (webrouter, streamrouter); one container per key here

ASSUME SessionAssumption ==
  /\ DOMAIN Seen = Values
  /\ Dead \subseteq Values
  /\ Guarded \in BOOLEAN

VARIABLES
  at,        \* at[r]: where the handler of request r stands
  made,      \* made[r]: the content of its instance
  event,     \* event[r]: the ID of the event it is about to write
  conn,      \* conn[r]: "up", "gone" (the client left), "closed" (by us)
  stalled,   \* the requests whose client does not read its socket
  beat,      \* beat[r]: the heartbeat goroutine: "waits", "writes", "off"
  \* What the client has read:
  lastId,    \* lastId[r]: the ID of the last init, update or delete event
  shown,     \* shown[r]: its content
  readClock  \* readClock[r]: the clock of the Get that init is made from

sessionVars == <<at, made, event, conn, stalled, beat, lastId, shown, readClock>>
everything == <<allVars, sessionVars>>

(* API.Make: the content to return, unless it is an error. *)
Content(data) == {<<p[1], Seen[p[2]]>> : p \in data}

Alive(data) == {p \in data : p[2] \notin Dead}

MakeFails(data) ==
  Guarded /\ (data = {} \/ 2 * Cardinality(Alive(data)) < Cardinality(data))

Contents == SUBSET (Keys \X {Seen[v] : v \in Values})

SessionTypeOK ==
  /\ TypeOK
  /\ at \in [Receivers -> {"get", "init", "watch", "loop", "event", "error",
                           "return", "done"}]
  /\ made \in [Receivers -> Contents] /\ shown \in [Receivers -> Contents]
  /\ event \in [Receivers -> Nat] /\ lastId \in [Receivers -> Nat]
  /\ conn \in [Receivers -> {"up", "gone", "closed"}]
  /\ stalled \subseteq Receivers
  /\ beat \in [Receivers -> {"waits", "writes", "off"}]
  /\ readClock \in [Receivers -> 0..clock]

SessionInit ==
  /\ Init
  /\ at = [r \in Receivers |-> "get"]
  /\ made = [r \in Receivers |-> {}]
  /\ event = [r \in Receivers |-> 0]
  /\ conn = [r \in Receivers |-> "up"]
  /\ stalled = {}
  /\ beat \in [Receivers -> {"waits", "off"}]   \* heartbeat=n was asked or not
  /\ lastId = [r \in Receivers |-> 0]
  /\ shown = [r \in Receivers |-> {}]
  /\ readClock = [r \in Receivers |-> 0]

-----------------------------------------------------------------------------
(* handleWatch. *)

Goto(r, from, to) == at[r] = from /\ at' = [at EXCEPT ![r] = to]

(* Get the cached data and Make the first instance. *)
ReadInit(r) ==
  /\ LET data == Get(cache, Watched[r]) IN
       IF MakeFails(data)
       THEN Goto(r, "get", "error") /\ UNCHANGED made
       ELSE Goto(r, "get", "init") /\ made' = [made EXCEPT ![r] = Content(data)]
  /\ readClock' = [readClock EXCEPT ![r] = clock]
  /\ UNCHANGED <<allVars, event, conn, stalled, beat, lastId, shown>>

(* A write to the connection blocks while the client does not read; after  *)
(* the end of the connection it fails, which nobody looks at.              *)
CanWrite(r) == r \notin stalled \/ conn[r] = "closed"

Written(r, id) ==
  IF conn[r] = "up"
  THEN /\ lastId' = [lastId EXCEPT ![r] = id]
       /\ shown' = [shown EXCEPT ![r] = made[r]]
  ELSE UNCHANGED <<lastId, shown>>

WriteInit(r) ==
  /\ Goto(r, "init", "watch")
  /\ CanWrite(r)
  /\ Written(r, 1)
  /\ UNCHANGED <<allVars, made, event, conn, stalled, beat, readClock>>

StartWatch(r) ==
  /\ Goto(r, "watch", "loop")
  /\ Watch(r)
  /\ UNCHANGED <<made, event, conn, stalled, beat, lastId, shown, readClock>>

\* Slip: the test of the handler is the wrong way round.
TakeEventInverted(r) ==
  /\ Receive(r)
  /\ LET e == Head(chan[r]) IN
       IF MakeFails(e.data)
       THEN Goto(r, "loop", "error") /\ UNCHANGED <<made, event>>
       ELSE /\ made' = [made EXCEPT ![r] = Content(e.data)]
            /\ IF Content(e.data) # made[r]
               THEN Goto(r, "loop", "loop") /\ UNCHANGED event
               ELSE /\ Goto(r, "loop", "event")
                    /\ event' = [event EXCEPT ![r] = e.id]
  /\ UNCHANGED <<conn, stalled, beat, lastId, shown, readClock>>

(* An event: Make, and write it unless Make sees no change. *)
TakeEvent(r) ==
  /\ Receive(r)
  /\ LET e == Head(chan[r]) IN
       IF MakeFails(e.data)
       THEN Goto(r, "loop", "error") /\ UNCHANGED <<made, event>>
       ELSE /\ made' = [made EXCEPT ![r] = Content(e.data)]
            /\ IF Content(e.data) = made[r]
               THEN Goto(r, "loop", "loop") /\ UNCHANGED event
               ELSE /\ Goto(r, "loop", "event")
                    /\ event' = [event EXCEPT ![r] = e.id]
  /\ UNCHANGED <<conn, stalled, beat, lastId, shown, readClock>>

WriteEvent(r) ==
  /\ Goto(r, "event", "loop")
  /\ CanWrite(r)
  /\ Written(r, event[r])
  /\ UNCHANGED <<allVars, made, event, conn, stalled, beat, readClock>>

(* An error event has ID 0 and is the last. *)
WriteError(r) ==
  /\ Goto(r, "error", "return")
  /\ CanWrite(r)
  /\ UNCHANGED <<allVars, made, event, conn, stalled, beat, lastId, shown,
                 readClock>>

ChannelClosed(r) ==
  /\ Goto(r, "loop", "return")
  /\ open[r] = "closed" /\ chan[r] = <<>>
  /\ UNCHANGED <<allVars, made, event, conn, stalled, beat, lastId, shown,
                 readClock>>

\* Slip: the select waits for the channel only.
ContextDoneNever(r) ==
  /\ Goto(r, "loop", "return")
  /\ r \in canceled /\ FALSE
  /\ UNCHANGED <<allVars, made, event, conn, stalled, beat, lastId, shown,
                 readClock>>

ContextDone(r) ==
  /\ Goto(r, "loop", "return")
  /\ r \in canceled
  /\ UNCHANGED <<allVars, made, event, conn, stalled, beat, lastId, shown,
                 readClock>>

(* Back in the middleware: es.Close. *)
CloseSource(r) ==
  /\ Goto(r, "return", "done")
  /\ conn' = [conn EXCEPT ![r] = "closed"]
  /\ UNCHANGED <<allVars, made, event, stalled, beat, lastId, shown, readClock>>

-----------------------------------------------------------------------------
(* The goroutines beside the handler. *)

(* io.Copy returns when the client leaves: es.Close. *)
Monitor(r) ==
  /\ conn[r] = "gone"
  /\ conn' = [conn EXCEPT ![r] = "closed"]
  /\ UNCHANGED <<allVars, at, made, event, stalled, beat, lastId, shown,
                 readClock>>

(* CloseNotify fires: cancel the context. *)
Canceler(r) ==
  /\ conn[r] = "closed"
  /\ Cancel(r)
  /\ UNCHANGED sessionVars

BeatTo(r, from, to) ==
  /\ beat[r] = from
  /\ beat' = [beat EXCEPT ![r] = to]
  /\ UNCHANGED <<allVars, at, made, event, conn, stalled, lastId, shown,
                 readClock>>

Tick(r) == BeatTo(r, "waits", "writes")

WriteHeartbeat(r) == CanWrite(r) /\ BeatTo(r, "writes", "waits")

StopHeartbeat(r) == conn[r] = "closed" /\ BeatTo(r, "waits", "off")

-----------------------------------------------------------------------------
(* The client. *)

Disconnect(r) ==
  /\ conn[r] = "up"
  /\ conn' = [conn EXCEPT ![r] = "gone"]
  /\ UNCHANGED <<allVars, at, made, event, stalled, beat, lastId, shown,
                 readClock>>

Stall(r) ==
  /\ conn[r] = "up"
  /\ stalled' = IF r \in stalled THEN stalled \ {r} ELSE stalled \union {r}
  /\ UNCHANGED <<allVars, at, made, event, conn, beat, lastId, shown, readClock>>

Handler(r) ==
  \/ ReadInit(r) \/ WriteInit(r) \/ StartWatch(r) \/ TakeEvent(r)
  \/ WriteEvent(r) \/ WriteError(r) \/ ChannelClosed(r) \/ ContextDone(r)
  \/ CloseSource(r)

Feed(Step) == Step /\ UNCHANGED sessionVars

SessionNext ==
  \/ Feed(\E new \in Caches : CacheRead(new) \/ CacheEvent(new))
  \/ Feed(Walk)
  \/ Feed(ClearNilReceivers)
  \/ \E r \in Receivers :
       \/ Handler(r) \/ Monitor(r) \/ Canceler(r)
       \/ Tick(r) \/ WriteHeartbeat(r) \/ StopHeartbeat(r)
       \/ Disconnect(r) \/ Stall(r)

(* Goroutines run, and the lock and a select are fair to those who wait    *)
(* again and again; clients may do anything or nothing.                    *)
SessionFairness ==
  /\ WF_everything(Feed(Walk))
  /\ WF_everything(Feed(ClearNilReceivers))
  /\ \A r \in Receivers :
       /\ WF_everything(Handler(r))
       /\ SF_everything(StartWatch(r))
       /\ SF_everything(ContextDone(r))
       /\ WF_everything(Monitor(r))
       /\ WF_everything(Canceler(r))
       /\ WF_everything(WriteHeartbeat(r))
       /\ SF_everything(StopHeartbeat(r))

SessionSpec == SessionInit /\ [][SessionNext]_everything

LiveSessionSpec == SessionSpec /\ SessionFairness

-----------------------------------------------------------------------------
(* The content a client reads changes only with a larger ID, from 1 for    *)
(* init, through drops, unchanged contents and heartbeats (server.go       *)
(* 150-212, sender.go 65-72, 96).                                          *)
IdsGrow ==
  [][\A r \in Receivers :
       /\ lastId'[r] >= lastId[r]
       /\ shown'[r] # shown[r] => lastId'[r] > lastId[r]]_everything

(* A client whose handler has nothing left to do is shown what the cache   *)
(* holds for it, unless an event was dropped or passed over, or the cache  *)
(* changed between the Get for init and the registration of the receiver   *)
(* (server.go 150-212).                                                    *)
Quiet(r) == at[r] = "loop" /\ conn[r] = "up" /\ chan[r] = <<>> /\ mode = "idle"

ShownIsCached ==
  \A r \in Receivers :
    Quiet(r) /\ r \notin missed /\ ~(got[r].id = 1 /\ readClock[r] < got[r].at)
      => shown[r] = Content(Get(cache, Watched[r]))

(* The parts of the invariant that the proofs of the two need.             *)
(* The handler registers its receiver once, and the context is canceled    *)
(* after the connection ended.                                             *)
HandlerInv ==
  \A r \in Receivers :
    /\ at[r] \in {"get", "init", "watch"} => open[r] = "new"
    /\ at[r] \in {"loop", "event"} => open[r] # "new"
    /\ r \in canceled => conn[r] = "closed"

(* What waits in the channel has a larger ID than what the handler is      *)
(* about to write, which has a larger one than what was written.           *)
IdInv ==
  \A r \in Receivers :
    /\ lastId[r] < counter[r] /\ event[r] < counter[r]
    /\ at[r] \in {"get", "init"} => lastId[r] = 0
    /\ at[r] = "event" => lastId[r] < event[r]
    /\ chan[r] # <<>> => lastId[r] < got[r].id /\ event[r] < got[r].id

(* What was shown last is what was made last, from the last event or, when *)
(* the cache stayed as it was until the registration, from the cache.      *)
ShownInv ==
  \A r \in Receivers : conn[r] = "up" =>
    /\ at[r] \in {"init", "watch"} /\ readClock[r] = clock
         => made[r] = Content(Get(cache, Watched[r]))
    /\ at[r] \in {"watch", "loop"} => shown[r] = made[r]
    /\ at[r] \in {"loop", "event"} /\ chan[r] = <<>>
         => \/ made[r] = Content(got[r].data)
            \/ got[r].id = 1 /\ readClock[r] < got[r].at

(* The invariant from which they follow (server.go 150-212).               *)
SessionInv == IInv /\ SessionTypeOK /\ HandlerInv /\ IdInv /\ ShownInv

(* Once the client left, or the handler gave up, at any point of the       *)
(* session: the handler returns, the context is canceled and the heartbeat *)
(* goroutine ends, so that no goroutine outlives its connection            *)
(* (server.go 284-322, event.go 55-58, 88-96).                             *)
SessionEnds ==
  \A r \in Receivers :
    conn[r] # "up" ~> at[r] = "done" /\ r \in canceled /\ beat[r] = "off"

-----------------------------------------------------------------------------
(* What the documentation says and the code does not do. *)

(* README.md:55 the id counts "from 1, increasing by one": an event whose  *)
(* content is unchanged uses up a number and is not sent (server.go 197).  *)
IdsConsecutive ==
  [][\A r \in Receivers :
       lastId'[r] # lastId[r] => lastId'[r] = lastId[r] + 1]_everything
=============================================================================
