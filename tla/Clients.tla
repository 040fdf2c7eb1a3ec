------------------------------ MODULE Clients ------------------------------
(***************************************************************************)
(* The client libraries.  client/client.go reads the lines of a watch      *)
(* request over HTTP and makes responses of them; grpcclient/client.go     *)
(* receives the messages of a gRPC stream.  In both a goroutine of the     *)
(* watch hands them over on a channel without a buffer, and callers take   *)
(* them: from the channel itself, or with Next.                            *)
(*                                                                         *)
(* The server writes an event in one Write, which the end of its process   *)
(* may cut anywhere; heartbeats come from a goroutine of their own, so     *)
(* that they fall anywhere between two events (api/event.go).              *)
(***************************************************************************)
EXTENDS Integers, Sequences, FiniteSets

CONSTANTS
  Callers,   \* who takes what a watch delivers
  Part,      \* what a cut leaves of the text after the colon of a line
  Nil,       \* no reply, no data
  MaxSent    \* bound: the number of messages the server sends

(* What the fields of a response hold. *)
Ids == {Part} \union Nat
Kinds == {"none", "heartbeat", "init", "update", "error", Part}
Texts == {Part, Nil} \union Nat
Responses == [Id : Ids, Event : Kinds, Data : Texts]

(* Nil is neither data nor a reply, and a cut word is not a whole one.     *)
ASSUME ClientsAssumption ==
  /\ MaxSent \in Nat
  /\ Nil \notin Nat /\ Nil \notin Responses
  /\ Part # "heartbeat"

VARIABLES
  lib,       \* the client in use, with those whose code is alike
  sent,      \* the messages the server sent
  wire,      \* the lines, or messages, the client has not read yet
  origin,    \* history: of what was read last, and of each on the wire,
             \* the message it is of and its place there
  conn,      \* "up", or how reading the rest ends: "eof" or "error"
  canceled,  \* the context of Client.Watch is done
  body,      \* the response's body is "open" or "closed"
  at,        \* the goroutine: "read", "send", "close" or "done"
  resp,      \* the response it makes, or the message it received
  chan,      \* its channel: "open" or "closed"
  err,       \* wch.err is set
  listening, \* the callers go on taking
  next,      \* next[n]: where caller n stands: "idle", "took"
  took,      \* took[n]: what it received from the channel
  answer,    \* answer[n]: what Next returned last
  given,     \* everything callers took from the channel
  due,       \* history: how many messages the server wrote to the end
             \* of their data
  call,      \* a Get: "none", "waits", "answered" or "failed"
  asked      \* the time limit asked for, in Get or in the configuration

streamVars == <<sent, wire, origin>>
watchVars == <<streamVars, conn, canceled, body, at, resp, chan, err,
               listening, next, took, answer, given, due>>
callVars == <<call, asked>>
vars == <<lib, watchVars, callVars>>

Http == {"client"}
Grpc == {"Apps", "Backupctl", "Config", "Containers", "Coreinfo", "Nodes",
         "Podgroup", "Proxy", "Rebellion", "Ports", "Streamprocs",
         "Webrouter", "Depends", "Appname", "Localspec", "Lainlet"}

Fresh == [Id |-> 0, Event |-> "none", Data |-> Nil]

Init ==
  /\ lib \in {Http, Grpc}
  /\ sent = <<>> /\ wire = <<>> /\ origin = <<<<0, 0>>>> /\ conn = "up"
  /\ canceled = FALSE /\ body = "open"
  /\ at = "read" /\ resp = Fresh /\ chan = "open" /\ err = FALSE
  /\ listening = TRUE
  /\ next = [n \in Callers |-> "idle"]
  /\ took = [n \in Callers |-> Nil]
  /\ answer = [n \in Callers |-> [reply |-> Nil, err |-> FALSE]]
  /\ given = <<>> /\ due = 0
  /\ call = "none" /\ asked = 0

-----------------------------------------------------------------------------
(* The server. *)

(* An event gets the next number; its data tells it from all the others.   *)
Message(event) ==
  LET count == Cardinality({i \in DOMAIN sent : sent[i].Event # "heartbeat"})
  IN  [Id    |-> IF event \in {"heartbeat", "error"} THEN 0 ELSE count + 1,
       Event |-> event,
       Data  |-> IF event = "heartbeat" THEN Nil ELSE Len(sent) + 1]

Blank == [key |-> "none", val |-> "none"]
Line(key, val) == [key |-> key, val |-> val]

(* The line of the data only when there is some. *)
generateMessage(m) ==
  IF m.Data = Nil
  THEN <<Line("id", m.Id), Line("event", m.Event), Blank>>
  ELSE <<Line("id", m.Id), Line("event", m.Event), Line("data", m.Data), Blank>>

(* What can be left of a text of which the end is missing: the last line   *)
(* has lost its end, or its colon too.                                     *)
Cut(lines) ==
  {SubSeq(lines, 1, i) : i \in 0 .. Len(lines)}
  \union UNION {{SubSeq(lines, 1, i - 1) \o <<Line(key, Part)>> :
                   key \in {"none", lines[i].key}} : i \in DOMAIN lines}

(* With this line a response is complete for Client.Watch. *)
Finishes(line) ==
  line.key = "data" \/ (line.key = "event" /\ line.val = "heartbeat")

(* An error is the last event, but not the last heartbeat. *)
Wrote(event) == \E i \in DOMAIN sent : sent[i].Event = event

Events == {"heartbeat"}
          \union (IF Wrote("error") THEN {}
                  ELSE IF Wrote("init") THEN {"update", "error"}
                  ELSE {"init", "error"})

(* The next message, or what the client can get of it. *)
Transmit(lines) ==
  /\ wire' = wire \o lines
  /\ origin' = origin \o [p \in 1 .. Len(lines) |-> <<Len(sent) + 1, p>>]

(* A heartbeat is only written over HTTP. *)
ServerSends ==
  /\ conn = "up" /\ Len(sent) < MaxSent
  /\ \E e \in Events :
       /\ lib = Http \/ e \in {"init", "update"}
       /\ sent' = Append(sent, Message(e))
       /\ Transmit(IF lib = Http THEN generateMessage(Message(e))
                                 ELSE <<Message(e)>>)
  /\ due' = due + 1
  /\ UNCHANGED <<lib, callVars, conn, canceled, body, at, resp, chan, err,
                 listening, next, took, answer, given>>

(* The process ends in the middle of a write. *)
ServerCuts ==
  /\ conn = "up" /\ Len(sent) < MaxSent /\ lib = Http
  /\ \E e \in Events :
       /\ sent' = Append(sent, Message(e))
       /\ \E c \in Cut(generateMessage(Message(e))) :
            /\ Transmit(c)
            /\ due' = IF \E i \in DOMAIN c : Finishes(c[i])
                      THEN due + 1 ELSE due
  /\ conn' = "eof"
  /\ UNCHANGED <<lib, callVars, canceled, body, at, resp, chan, err,
                 listening, next, took, answer, given>>

ServerEnds ==
  /\ conn = "up"
  /\ conn' = "eof"
  /\ UNCHANGED <<lib, callVars, streamVars, canceled, body, at, resp, chan,
                 err, listening, next, took, answer, given, due>>

(* The connection breaks, and with it goes what was not read. *)
Breaks ==
  /\ conn = "up"
  /\ conn' = "error"
  /\ \E i \in 0 .. Len(wire) :
       wire' = SubSeq(wire, 1, i) /\ origin' = SubSeq(origin, 1, i + 1)
  /\ UNCHANGED <<lib, callVars, sent, canceled, body, at, resp, chan,
                 err, listening, next, took, answer, given, due>>

-----------------------------------------------------------------------------
(* Client.Watch: the two goroutines. *)

\* Slip: the heartbeat leaves the response it ended to the next event.
ParseOver(line) ==
  CASE line.key = "id"    -> [resp EXCEPT !.Id = line.val]
    [] line.key = "event" -> [resp EXCEPT !.Event = line.val]
    [] line.key = "data"  -> [Fresh EXCEPT !.Data = line.val]
    [] OTHER              -> resp

Parse(line) ==
  CASE line.key = "id"    -> [resp EXCEPT !.Id = line.val]
    [] line.key = "event" -> [resp EXCEPT !.Event = line.val]
    [] line.key = "data"  -> [resp EXCEPT !.Data = line.val]
    [] OTHER              -> resp

(* A line without a colon and an empty one leave everything as it is.  The *)
(* last line counts without its end when the body ended in order.          *)
ReadLine ==
  /\ at = "read" /\ wire # <<>>
  /\ resp' = Parse(Head(wire))
  /\ at' = IF Finishes(Head(wire)) THEN "send" ELSE "read"
  /\ wire' = Tail(wire) /\ origin' = Tail(origin)
  /\ UNCHANGED <<lib, callVars, sent, conn, canceled, body, chan, err,
                 listening, next, took, answer, given, due>>

\* Slip: the last line does not count when it comes with the end.
ReadEndsEarly ==
  /\ at = "read"
  /\ body = "closed" \/ (Len(wire) <= 1 /\ conn # "up")
  /\ at' = "done" /\ chan' = "closed"
  /\ UNCHANGED <<lib, callVars, streamVars, conn, canceled, body, resp, err,
                 listening, next, took, answer, given, due>>

(* Nothing is left to read, or the body was closed under the reader; what  *)
(* the buffer holds is read first.                                         *)
ReadEnds ==
  /\ at = "read"
  /\ body = "closed" \/ (wire = <<>> /\ conn # "up")
  /\ at' = "done" /\ chan' = "closed"
  /\ UNCHANGED <<lib, callVars, streamVars, conn, canceled, body, resp, err,
                 listening, next, took, answer, given, due>>

\* Slip: only the end of the reader closes the body.
CloseBodyLate ==
  /\ body = "open" /\ at = "done"
  /\ body' = "closed"
  /\ UNCHANGED <<lib, callVars, streamVars, conn, canceled, at, resp, chan,
                 err, listening, next, took, answer, given, due>>

CloseBody ==
  /\ body = "open"
  /\ canceled \/ at = "done"
  /\ body' = "closed"
  /\ UNCHANGED <<lib, callVars, streamVars, conn, canceled, at, resp, chan,
                 err, listening, next, took, answer, given, due>>

(* A caller takes a response from the channel. *)
Take(n) ==
  /\ listening /\ at = "send"
  /\ given' = Append(given, resp)
  /\ at' = "read" /\ resp' = Fresh
  /\ UNCHANGED <<lib, callVars, streamVars, conn, canceled, body, chan, err,
                 listening, next, took, answer, due>>

WatchHttp == lib = Http /\ (ReadLine \/ ReadEnds \/ CloseBody)

-----------------------------------------------------------------------------
(* The goroutine of a gRPC watch, and Next. *)

Recv ==
  /\ at = "read" /\ wire # <<>>
  /\ resp' = Head(wire)
  /\ wire' = Tail(wire) /\ origin' = Tail(origin)
  /\ at' = "send"
  /\ UNCHANGED <<lib, callVars, sent, conn, canceled, body, chan, err,
                 listening, next, took, answer, given, due>>

\* Slip: the channel is closed before the error is there to be read.
RecvFailsLate ==
  /\ at = "read" /\ wire = <<>> /\ conn # "up"
  /\ chan' = "closed" /\ at' = "close"
  /\ UNCHANGED <<lib, callVars, streamVars, conn, canceled, body, resp, err,
                 listening, next, took, answer, given, due>>

(* The error is set under the lock. *)
RecvFails ==
  /\ at = "read" /\ wire = <<>> /\ conn # "up"
  /\ err' = TRUE /\ at' = "close"
  /\ UNCHANGED <<lib, callVars, streamVars, conn, canceled, body, resp, chan,
                 listening, next, took, answer, given, due>>

CloseChannel ==
  /\ at = "close"
  /\ chan' = "closed" /\ at' = "done"
  /\ UNCHANGED <<lib, callVars, streamVars, conn, canceled, body, resp, err,
                 listening, next, took, answer, given, due>>

(* The first statement of Next: a message, or nil from a closed channel.   *)
NextTakes(n) ==
  /\ listening /\ next[n] = "idle"
  /\ \/ /\ at = "send"
        /\ took' = [took EXCEPT ![n] = resp]
        /\ at' = "read" /\ given' = Append(given, resp)
     \/ /\ chan = "closed"
        /\ took' = [took EXCEPT ![n] = Nil]
        /\ UNCHANGED <<at, given>>
  /\ next' = [next EXCEPT ![n] = "took"]
  /\ UNCHANGED <<lib, callVars, streamVars, conn, canceled, body, resp, chan,
                 err, listening, answer, due>>

(* The rest of it: the error as it is by now. *)
NextReturns(n) ==
  /\ next[n] = "took"
  /\ answer' = [answer EXCEPT ![n] = [reply |-> took[n], err |-> err]]
  /\ next' = [next EXCEPT ![n] = "idle"]
  /\ UNCHANGED <<lib, callVars, streamVars, conn, canceled, body, at, resp,
                 chan, err, listening, took, given, due>>

WatchGrpc == Recv \/ RecvFails \/ CloseChannel

-----------------------------------------------------------------------------
(* Get: one request and its answer. *)

\* Slip: the limit is taken from the configuration as it is.
TimeLimitAsked(from) == from

(* New of grpcclient puts ten seconds for none; over HTTP 0 is no limit. *)
TimeLimit(from) ==
  IF lib = Http THEN (IF from < 0 THEN 0 ELSE from)
                ELSE (IF from <= 0 THEN 10 ELSE from)

Do ==
  /\ call = "none" /\ call' = "waits"
  /\ asked' \in {-1, 0, 5}
  /\ UNCHANGED <<lib, watchVars>>

ReturnWith(outcome) ==
  /\ call = "waits" /\ call' = outcome
  /\ asked' = 0
  /\ UNCHANGED <<lib, watchVars>>

Answered == ReturnWith("answered")
Refused == ReturnWith("failed")
TimesOut == TimeLimit(asked) > 0 /\ ReturnWith("failed")

Get == Do \/ Answered \/ Refused \/ TimesOut

-----------------------------------------------------------------------------
(* The clients, and the functions they offer. *)

Streams == WatchGrpc \/ \E n \in Callers : NextTakes(n) \/ NextReturns(n)

HttpClient ==
  lib = Http /\ (WatchHttp \/ Get \/ \E n \in Callers : Take(n))
AppsClient        == "Apps" \in lib /\ (Streams \/ Get)
BackupctlClient   == "Backupctl" \in lib /\ (Streams \/ Get)
ConfigClient      == "Config" \in lib /\ (Streams \/ Get)
ContainersClient  == "Containers" \in lib /\ (Streams \/ Get)
CoreinfoClient    == "Coreinfo" \in lib /\ (Streams \/ Get)
NodesClient       == "Nodes" \in lib /\ (Streams \/ Get)
PodgroupClient    == "Podgroup" \in lib /\ (Streams \/ Get)
ProxyClient       == "Proxy" \in lib /\ (Streams \/ Get)
RebellionLocalprocsClient     == "Rebellion" \in lib /\ (Streams \/ Get)
StreamrouterPortsClient       == "Ports" \in lib /\ (Streams \/ Get)
StreamrouterStreamprocsClient == "Streamprocs" \in lib /\ (Streams \/ Get)
WebrouterWebprocsClient       == "Webrouter" \in lib /\ (Streams \/ Get)
DependsClient     == "Depends" \in lib /\ (Streams \/ Get)
AppnameClient     == "Appname" \in lib /\ Get
LocalspecClient   == "Localspec" \in lib /\ Get
LainletClient     == "Lainlet" \in lib /\ Get

Client ==
  \/ HttpClient \/ AppsClient \/ BackupctlClient \/ ConfigClient
  \/ ContainersClient \/ CoreinfoClient \/ NodesClient \/ PodgroupClient
  \/ ProxyClient \/ RebellionLocalprocsClient \/ StreamrouterPortsClient
  \/ StreamrouterStreamprocsClient \/ WebrouterWebprocsClient
  \/ DependsClient \/ AppnameClient \/ LocalspecClient \/ LainletClient

(* The caller cancels its context: only client.Watch takes one. *)
Cancel ==
  /\ lib = Http /\ ~canceled
  /\ canceled' = TRUE
  /\ UNCHANGED <<lib, callVars, streamVars, conn, body, at, resp, chan, err,
                 listening, next, took, answer, given, due>>

(* The callers do not come back for more. *)
StopListening ==
  /\ listening
  /\ listening' = FALSE
  /\ UNCHANGED <<lib, callVars, streamVars, conn, canceled, body, at, resp,
                 chan, err, next, took, answer, given, due>>

Next ==
  \/ ServerSends \/ ServerCuts \/ ServerEnds \/ Breaks
  \/ Client
  \/ Cancel \/ StopListening

(* Goroutines and timers run, and callers that listen take what is there. *)
Fairness ==
  /\ WF_vars(lib = Http /\ (ReadLine \/ ReadEnds))
  /\ WF_vars(lib = Http /\ CloseBody)
  /\ WF_vars(lib = Http /\ \E n \in Callers : Take(n))
  /\ WF_vars(lib = Grpc /\ WatchGrpc)
  /\ WF_vars(lib = Grpc /\ \E n \in Callers : NextTakes(n))
  /\ \A n \in Callers : WF_vars(lib = Grpc /\ NextReturns(n))
  /\ WF_vars(TimesOut)

Spec == Init /\ [][Next]_vars /\ Fairness

-----------------------------------------------------------------------------
(* m is what is left of s when the connection ended within its data. *)
CutShort(m, s) == m = [s EXCEPT !.Data = Part]

(* Callers get the events as the server sent them, none skipped and none   *)
(* mixed with another or with a heartbeat that fell in between; only the   *)
(* last may have lost the end of its data, when the server ended within    *)
(* it, as a line counts without its end (client.go 119-167).               *)
InOrder ==
  \A i \in DOMAIN given :
    \/ given[i] = sent[i]
    \/ /\ CutShort(given[i], sent[i])
       /\ i = Len(sent) /\ conn = "eof" /\ lib = Http

(* As long as callers take what there is, the channel of a watch is closed *)
(* once the context was canceled or the connection ended, wherever the two *)
(* goroutines stand (client.go 105-169); a caller that went away instead   *)
(* leaves the reader at its send for ever.                                 *)
ChannelCloses == canceled \/ conn # "up" ~> chan = "closed" \/ ~listening

(* When the server ends in order, callers that go on get every event that  *)
(* was written to its data's end, although the end is known before the     *)
(* rest is read (client.go 133-139, grpcclient/client.go 178-190).         *)
AllGiven ==
  conn = "eof" ~> Len(given) = due \/ canceled \/ ~listening

(* Whoever gets nil from Next gets an error with it, however the callers   *)
(* and the goroutine are interleaved (grpcclient/client.go 162-168,        *)
(* 178-190).  A message may come with an error too: it was taken before.   *)
NilMeansError ==
  \A n \in Callers : next[n] = "took" /\ took[n] = Nil => err

(* A Get over gRPC, and one over HTTP that was given a limit, returns      *)
(* although the server may never answer (client.go 90-100, 188,             *)
(* grpcclient/client.go 90-94, 148-154).                                   *)
GetReturns ==
  call = "waits" /\ (lib = Grpc \/ asked > 0) ~> call # "waits"

-----------------------------------------------------------------------------
(* The invariant of the proofs (ClientsProofs).                            *)

Lines == [key : {"id"}, val : Ids] \union [key : {"event"}, val : Kinds]
         \union [key : {"data"}, val : Texts]
         \union [key : {"none"}, val : {"none", Part}]

TypeOK ==
  /\ lib \in {Http, Grpc}
  /\ sent \in Seq(Responses) /\ given \in Seq(Responses)
  /\ wire \in Seq(Lines \union Responses)
  /\ origin \in Seq(Nat \X Nat)
  /\ conn \in {"up", "eof", "error"}
  /\ at \in {"read", "send", "close", "done"} /\ resp \in Responses
  /\ chan \in {"open", "closed"} /\ err \in BOOLEAN
  /\ next \in [Callers -> {"idle", "took"}]
  /\ took \in [Callers -> Responses \union {Nil}]

(* Only heartbeats have no data. *)
SentInv ==
  \A n \in DOMAIN sent : sent[n].Event = "heartbeat" <=> sent[n].Data = Nil

(* What message n is on the wire, and how much that is. *)
TextOf == [n \in DOMAIN sent |->
             IF lib = Http THEN generateMessage(sent[n]) ELSE <<sent[n]>>]
Size == [n \in 0 .. Len(sent) |-> IF n = 0 THEN 0 ELSE Len(TextOf[n])]

Follows(b, a) ==
  b = IF a[2] < Size[a[1]] THEN <<a[1], a[2] + 1>> ELSE <<a[1] + 1, 1>>

(* The wire goes on where the client has read to, line after line and      *)
(* message after message, up to the last one sent unless the connection    *)
(* has ended; only the very last line may be cut.                          *)
Placed ==
  \A j \in DOMAIN origin :
    /\ origin[j][1] \in 0 .. Len(sent)
    /\ IF origin[j][1] = 0 THEN j = 1 /\ origin[j][2] = 0
                          ELSE origin[j][2] \in 1 .. Size[origin[j][1]]

Chained == \A j \in DOMAIN wire : Follows(origin[j + 1], origin[j])

Carried ==
  \A j \in DOMAIN wire :
    LET line == TextOf[origin[j + 1][1]][origin[j + 1][2]]
    IN  \/ wire[j] = line
        \/ /\ lib = Http /\ conn = "eof"
           /\ j = Len(wire) /\ origin[j + 1][1] = Len(sent)
           /\ wire[j] \in {Line("none", Part), Line(line.key, Part)}

WireInv ==
  /\ Len(origin) = Len(wire) + 1
  /\ Placed /\ Chained /\ Carried
  /\ conn = "up" => origin[Len(origin)] = <<Len(sent), Size[Len(sent)]>>

(* The line that completes the response to message n. *)
Full == [n \in 0 .. Len(sent) |->
           IF n = 0 THEN 0
           ELSE IF lib = Grpc THEN 1
           ELSE IF sent[n].Data = Nil THEN 2 ELSE 3]

(* Where the goroutine stands in what it has read: a response is made of   *)
(* the lines of one message, and is fresh before the first of them.  What  *)
(* a cut line left behind is not given to anybody.                         *)
ReadInv ==
  LET n == origin[1][1]
      p == origin[1][2]
  IN  /\ at = "read" /\ (wire # <<>> \/ conn = "up") =>
           /\ n = Len(given) + (IF p < Full[n] THEN 1 ELSE 0)
           /\ lib = Http =>
                resp = IF p < Full[n]
                       THEN [Id |-> sent[n].Id,
                             Event |-> IF p = 1 THEN "none" ELSE sent[n].Event,
                             Data |-> Nil]
                       ELSE Fresh
      /\ at = "send" =>
           /\ n = Len(given) + 1 /\ p = Full[n]
           /\ \/ resp = sent[n]
              \/ /\ CutShort(resp, sent[n])
                 /\ n = Len(sent) /\ conn = "eof" /\ lib = Http

(* The error is there before anybody can find the channel closed. *)
ErrorInv ==
  IF lib = Grpc THEN chan = "closed" \/ at \in {"close", "done"} => err
                ELSE \A n \in Callers : next[n] = "idle"

IInv == /\ TypeOK /\ SentInv /\ WireInv /\ ReadInv
        /\ Len(given) <= Len(sent) /\ InOrder
        /\ ErrorInv /\ NilMeansError
=============================================================================
