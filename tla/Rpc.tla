-------------------------------- MODULE Rpc --------------------------------
(***************************************************************************)
(* The gRPC endpoints (endpoints/*.go, generated from tools/gen/srv.py):   *)
(* calls of Get and Watch with the same key, which share the reply the     *)
(* endpoint remembers for it.  Lock is followed by Unlock at once, so that *)
(* nothing orders the reads and writes of the map of replies.              *)
(*                                                                         *)
(* The watcher and its Sender are what Sender promises of them: an event   *)
(* carries the data of the time it is broadcast, a full channel drops it,  *)
(* and the channel of a receiver whose context is done gets closed.  The   *)
(* k-th value the data under the key had is past[k].                       *)
(***************************************************************************)
EXTENDS Integers, Sequences, FiniteSets

CONSTANTS
  Calls,     \* the calls of Get and Watch
  Values,    \* what the data under the key may be
  Odd,       \* values that some endpoints cannot answer with: all pods are
             \* dead, or a node has something that is not a string
  Unset,     \* no reply is remembered
  MaxPast    \* bound: the number of values the data has in a behaviour

ASSUME RpcAssumption ==
  /\ Odd \subseteq Values /\ Unset \notin Values
  /\ MaxPast \in Nat \ {0}

VARIABLES
  alike,     \* the endpoint that is called, together with those whose
             \* handlers go through the same steps
  past,      \* every value the data had, the last being the current
  pending,   \* the receivers the Broadcast still has to visit
  chan,      \* chan[c]: "none", "open" or "closed"
  box,       \* box[c]: the event in the channel, 0 for none
  at,        \* at[c]: where the handler stands
  reply,     \* reply[c]: the value it makes a reply of, 0 for none
  cached,    \* ed.cache[key]
  gone,      \* the calls whose context is done
  aborted,   \* the process ended
  \* History:
  shown,     \* shown[c]: the last value sent on the stream
  behind,    \* the streams that missed a change since their last event
  rivals     \* the calls whose remembered reply another call replaced

vars == <<alike, past, pending, chan, box, at, reply, cached, gone,
          aborted, shown, behind, rivals>>

Endpoints == {
  {"Apps", "Backupctl", "Config", "Coreinfo", "Depends", "Podgroup", "Proxy",
   "RebellionLocalprocs", "StreamrouterPorts"},
  {"Containers"}, {"Nodes"}, {"WebrouterWebprocs"},
  {"StreamrouterStreamprocs"}, {"Localspec"}}

Now == Len(past)

Init ==
  /\ alike \in Endpoints
  /\ past \in {<<v>> : v \in Values}
  /\ pending = {}
  /\ chan = [c \in Calls |-> "none"] /\ box = [c \in Calls |-> 0]
  /\ at = [c \in Calls |-> "read"] /\ reply = [c \in Calls |-> 0]
  /\ cached = Unset
  /\ gone = {} /\ aborted = FALSE
  /\ shown = [c \in Calls |-> 0]
  /\ behind = {} /\ rivals = {}

-----------------------------------------------------------------------------
(* The steps of a handler.                                                 *)

Goto(c, from, to) == at[c] = from /\ at' = [at EXCEPT ![c] = to]

feedVars == <<alike, past, pending, gone, aborted>>

(* wch.Get, at the start of Get and of Watch. *)
Read(c) ==
  /\ Goto(c, "read", "make")
  /\ reply' = [reply EXCEPT ![c] = Now]
  /\ UNCHANGED <<feedVars, chan, box, cached, shown, behind, rivals>>

Value(c) == past[reply[c]]

(* The handler has no reply in hand any more. *)
Drop(c) == reply' = [reply EXCEPT ![c] = 0]

(* make fails: the handler returns the error. *)
Refuse(c) ==
  /\ Goto(c, "make", "done")
  /\ Value(c) \in Odd
  /\ Drop(c)
  /\ UNCHANGED <<feedVars, chan, box, cached, shown, behind, rivals>>

(* make: the first reply is as the remembered one, and sent all the same. *)
SameFirst(c) ==
  /\ Goto(c, "make", "made")
  /\ cached = Value(c) /\ chan[c] = "none"
  /\ rivals' = rivals \ {c}
  /\ UNCHANGED <<feedVars, chan, box, reply, cached, shown, behind>>

(* The reply to an event is as the remembered one: nothing is sent. *)
SameAgain(c) ==
  /\ Goto(c, "make", "wait")
  /\ cached = Value(c) /\ chan[c] # "none"
  /\ Drop(c)
  /\ UNCHANGED <<feedVars, chan, box, cached, shown, behind, rivals>>

Differs(c) ==
  /\ Goto(c, "make", "store")
  /\ cached # Value(c)
  /\ UNCHANGED <<feedVars, chan, box, reply, cached, shown, behind, rivals>>

\* Slip: what the first call stored is never replaced.
StoreFirst(c) ==
  /\ Goto(c, "store", "made")
  /\ cached' = IF cached = Unset THEN Value(c) ELSE cached
  /\ rivals' = (rivals \union Calls) \ {c}
  /\ UNCHANGED <<feedVars, chan, box, reply, shown, behind>>

(* The write to the map of replies. *)
Store(c) ==
  /\ Goto(c, "store", "made")
  /\ cached' = Value(c)
  /\ rivals' = (rivals \union Calls) \ {c}
  /\ UNCHANGED <<feedVars, chan, box, reply, shown, behind>>

Remembers(c) == SameFirst(c) \/ SameAgain(c) \/ Differs(c) \/ Store(c)

(* make of Containers: every reply is a change. *)
Forgets(c) ==
  /\ Goto(c, "make", "made")
  /\ UNCHANGED <<feedVars, chan, box, reply, cached, shown, behind, rivals>>

(* make of StreamrouterStreamprocs writes through a nil pointer, and the   *)
(* panic of a handler ends the process.                                    *)
Panics(c) ==
  /\ at[c] = "make" /\ Value(c) \notin Odd
  /\ aborted' = TRUE
  /\ UNCHANGED <<alike, past, pending, chan, box, at, reply, cached, gone,
                 shown, behind, rivals>>

(* Get returns the reply, or the error that it cannot be encoded. *)
Answer(c) ==
  /\ Goto(c, "made", "done") /\ chan[c] = "none"
  /\ Drop(c)
  /\ UNCHANGED <<feedVars, chan, box, cached, shown, behind, rivals>>

(* stream.Send in Watch. *)
Send(c, unsendable) ==
  /\ Goto(c, "made", IF chan[c] = "none" THEN "watch" ELSE "wait")
  /\ Value(c) \notin unsendable
  /\ shown' = [shown EXCEPT ![c] = reply[c]]
  /\ IF chan[c] = "none" THEN UNCHANGED reply ELSE Drop(c)
  /\ UNCHANGED <<feedVars, chan, box, cached, behind, rivals>>

(* The stream is broken, or the reply cannot be encoded. *)
SendFails(c, unsendable) ==
  /\ Goto(c, "made", "done")
  /\ c \in gone \/ Value(c) \in unsendable
  /\ Drop(c)
  /\ UNCHANGED <<feedVars, chan, box, cached, shown, behind, rivals>>

(* wch.Watch registers a receiver: not during a Broadcast.  What changed   *)
(* since the data was read is not announced to it.                         *)
Watch(c) ==
  /\ Goto(c, "watch", "wait") /\ pending = {}
  /\ chan' = [chan EXCEPT ![c] = "open"]
  /\ behind' = IF reply[c] < Now THEN behind \union {c} ELSE behind
  /\ Drop(c)
  /\ UNCHANGED <<feedVars, box, cached, shown, rivals>>

\* Slip: the data is that of the first event.
TakeEventRead(c) ==
  /\ Goto(c, "wait", "make") /\ box[c] # 0
  /\ reply' = [reply EXCEPT ![c] = 1]
  /\ box' = [box EXCEPT ![c] = 0]
  /\ UNCHANGED <<feedVars, chan, cached, shown, behind, rivals>>

TakeEvent(c) ==
  /\ Goto(c, "wait", "make") /\ box[c] # 0
  /\ reply' = [reply EXCEPT ![c] = box[c]]
  /\ box' = [box EXCEPT ![c] = 0]
  /\ UNCHANGED <<feedVars, chan, cached, shown, behind, rivals>>

\* Slip: the select waits for the channel only.
EndClosed(c) ==
  /\ Goto(c, "wait", "done")
  /\ chan[c] = "closed" /\ box[c] = 0
  /\ UNCHANGED <<feedVars, chan, box, reply, cached, shown, behind, rivals>>

(* The channel is closed, or the context done. *)
End(c) ==
  /\ Goto(c, "wait", "done")
  /\ c \in gone \/ (chan[c] = "closed" /\ box[c] = 0)
  /\ UNCHANGED <<feedVars, chan, box, reply, cached, shown, behind, rivals>>

(* Get and Watch, with the make of the endpoint. *)
Handler(c, Make, unsendable) ==
  \/ Read(c) \/ Make
  \/ Answer(c)
  \/ Send(c, unsendable) \/ SendFails(c, unsendable)
  \/ Watch(c) \/ TakeEvent(c) \/ End(c)

-----------------------------------------------------------------------------
(* The endpoints. *)

AppsEndpoint(c)        == "Apps" \in alike      /\ Handler(c, Remembers(c), {})
BackupctlEndpoint(c)   == "Backupctl" \in alike /\ Handler(c, Remembers(c), {})
ConfigEndpoint(c)      == "Config" \in alike    /\ Handler(c, Remembers(c), {})
ContainersEndpoint(c)  == "Containers" \in alike /\ Handler(c, Forgets(c), {})
CoreinfoEndpoint(c)    == "Coreinfo" \in alike  /\ Handler(c, Remembers(c), {})
DependsEndpoint(c)     == "Depends" \in alike   /\ Handler(c, Remembers(c), {})
NodesEndpoint(c)       == "Nodes" \in alike     /\ Handler(c, Remembers(c), Odd)
PodgroupEndpoint(c)    == "Podgroup" \in alike  /\ Handler(c, Remembers(c), {})
ProxyEndpoint(c)       == "Proxy" \in alike     /\ Handler(c, Remembers(c), {})
RebellionLocalprocsEndpoint(c) ==
  "RebellionLocalprocs" \in alike /\ Handler(c, Remembers(c), {})
StreamrouterPortsEndpoint(c) ==
  "StreamrouterPorts" \in alike /\ Handler(c, Remembers(c), {})
StreamrouterStreamprocsEndpoint(c) ==
  "StreamrouterStreamprocs" \in alike /\ (Read(c) \/ Refuse(c) \/ Panics(c))
WebrouterWebprocsEndpoint(c) ==
  /\ "WebrouterWebprocs" \in alike
  /\ Handler(c, Refuse(c) \/ (Remembers(c) /\ Value(c) \notin Odd), {})

(* Only Get, and its own copy of it. *)
LocalspecEndpoint(c) ==
  "Localspec" \in alike /\ (Read(c) \/ Remembers(c) \/ Answer(c))

Serve(c) ==
  \/ AppsEndpoint(c) \/ BackupctlEndpoint(c) \/ ConfigEndpoint(c)
  \/ ContainersEndpoint(c) \/ CoreinfoEndpoint(c) \/ DependsEndpoint(c)
  \/ NodesEndpoint(c) \/ PodgroupEndpoint(c) \/ ProxyEndpoint(c)
  \/ RebellionLocalprocsEndpoint(c) \/ StreamrouterPortsEndpoint(c)
  \/ StreamrouterStreamprocsEndpoint(c) \/ WebrouterWebprocsEndpoint(c)
  \/ LocalspecEndpoint(c)

-----------------------------------------------------------------------------
(* What is around the handlers. *)

(* The data changes, or is written again as it was, and is broadcast. *)
Change(v) ==
  /\ pending = {} /\ Now < MaxPast
  /\ past' = Append(past, v)
  /\ pending' = {c \in Calls : chan[c] = "open"}
  /\ UNCHANGED <<alike, chan, box, at, reply, cached, gone,
                 aborted, shown, behind, rivals>>

Visit(c) ==
  /\ c \in pending
  /\ pending' = pending \ {c}
  /\ IF c \in gone
     THEN chan' = [chan EXCEPT ![c] = "closed"] /\ UNCHANGED <<box, behind>>
     ELSE /\ UNCHANGED chan
          /\ IF box[c] = 0
             THEN box' = [box EXCEPT ![c] = Now] /\ behind' = behind \ {c}
             ELSE behind' = behind \union {c} /\ UNCHANGED box
  /\ UNCHANGED <<alike, past, at, reply, cached, gone, aborted,
                 shown, rivals>>

(* The client cancels, or its connection ends. *)
Leave(c) ==
  /\ c \notin gone
  /\ gone' = gone \union {c}
  /\ UNCHANGED <<alike, past, pending, chan, box, at, reply, cached, aborted, shown, behind, rivals>>

(* Two handlers are at the map at the same time and one of them writes:    *)
(* the runtime may notice and end the process.                             *)
Abort ==
  /\ \E c, d \in Calls : /\ c # d /\ at[c] = "store"
                         /\ at[d] \in {"make", "store"}
  /\ "Containers" \notin alike
  /\ aborted' = TRUE
  /\ UNCHANGED <<alike, past, pending, chan, box, at, reply, cached, gone, shown, behind, rivals>>

Next ==
  /\ ~aborted
  /\ \/ \E c \in Calls : Serve(c) \/ Visit(c) \/ Leave(c)
     \/ \E v \in Values : Change(v)
     \/ Abort

(* Handlers run and Broadcast goes on; who waits for the lock of the list  *)
(* gets it between two broadcasts, a Go mutex being fair.                  *)
Fairness ==
  \A c \in Calls : /\ WF_vars(~aborted /\ Serve(c))
                  /\ SF_vars(~aborted /\ Serve(c) /\ Watch(c))
                  /\ WF_vars(~aborted /\ Visit(c))

Spec == Init /\ [][Next]_vars /\ Fairness

-----------------------------------------------------------------------------
(* A stream's handler has nothing left to do and the client is there. *)
Quiet(c) == /\ at[c] = "wait" /\ box[c] = 0 /\ c \notin pending \union gone
            /\ ~aborted

(* A client of a stream is never shown older data after newer, although    *)
(* handlers of the same key overwrite each other's reply in any order      *)
(* (config.go 88-97, 119-168).                                             *)
NeverBack == [][\A c \in Calls : shown'[c] >= shown[c]]_vars

(* A quiet stream shows the current data unless it missed an event, or     *)
(* another call of the same key replaced the remembered reply that its own *)
(* are compared with; one of Containers whatever the other calls do        *)
(* (config.go 88-97, 147-163, container.go 32-54).                         *)
QuietCurrent ==
  \A c \in Calls :
    Quiet(c) /\ c \notin behind /\ (c \in rivals => "Containers" \in alike)
      => past[shown[c]] = past[Now]

(* The parts of the invariant that the proofs of the two need.             *)
(* A channel: who has one, and what it holds is newer than what the        *)
(* handler has in hand, which is newer than what the client was shown.     *)
Handling == {"make", "store", "made", "watch"}

TypeOK ==
  /\ alike \in Endpoints
  /\ past \in Seq(Values) /\ Now >= 1
  /\ pending \subseteq Calls
  /\ chan \in [Calls -> {"none", "open", "closed"}]
  /\ box \in [Calls -> 0 .. Now] /\ reply \in [Calls -> 0 .. Now]
  /\ shown \in [Calls -> 0 .. Now]
  /\ at \in [Calls -> Handling \union {"read", "wait", "done"}]
  /\ cached \in Values \union {Unset}

ChannelInv ==
  \A c \in Calls :
    /\ c \in pending => chan[c] = "open"
    /\ chan[c] = "closed" => c \in gone
    /\ chan[c] = "none" => box[c] = 0
    /\ chan[c] # "none" => shown[c] > 0
    /\ at[c] \in {"read", "watch"} => chan[c] = "none"
    /\ at[c] = "wait" => chan[c] # "none"

OrderInv ==
  \A c \in Calls :
    /\ at[c] \in Handling <=> reply[c] > 0
    /\ reply[c] > 0 => shown[c] <= reply[c]
    /\ box[c] > 0 => shown[c] <= box[c] /\ reply[c] <= box[c]
    /\ at[c] = "watch" => shown[c] = reply[c]

(* What is remembered is what the call itself made last, unless another    *)
(* call replaced it.                                                       *)
RememberInv ==
  \A c \in Calls : c \notin rivals /\ "Containers" \notin alike =>
    /\ at[c] = "made" => cached = past[reply[c]]
    /\ at[c] \in {"watch", "wait"} => cached = past[shown[c]]
    /\ at[c] \in {"make", "store"} /\ chan[c] # "none"
         => cached = past[shown[c]]

(* The newest of what a call has is the current data, if it missed nothing.*)
NewestInv ==
  \A c \in Calls : chan[c] = "open" /\ c \notin behind \union pending =>
    /\ box[c] > 0 => past[box[c]] = past[Now]
    /\ box[c] = 0 /\ reply[c] > 0 => past[reply[c]] = past[Now]
    /\ box[c] = 0 /\ at[c] = "wait" /\ (c \in rivals => "Containers" \in alike)
         => past[shown[c]] = past[Now]

(* The invariant from which the two follow (config.go 88-97, 119-168).     *)
IInv == TypeOK /\ ChannelInv /\ OrderInv /\ RememberInv /\ NewestInv

(* When its client leaves, a call ends, wherever its handler stands        *)
(* (config.go 143-167), unless the process does.                           *)
CallEnds == \A c \in Calls : c \in gone ~> at[c] = "done" \/ aborted
=============================================================================
