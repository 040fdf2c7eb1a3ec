-------------------------------- MODULE Apis --------------------------------
(***************************************************************************)
(* One request to one API, over HTTP or gRPC: the key, the part of the     *)
(* cache under that key, and the content or reply made of it, once and,    *)
(* when the request watches, again for every event (api/server.go,         *)
(* endpoints).  Session and Rpc model how the events reach the handler.    *)
(***************************************************************************)
EXTENDS Replies

CONSTANTS
  Requests,  \* the requests that can be made, with what their lookups find
  Samples    \* Samples[kind]: what the cache of the watcher may hold

IsSlice(s) == Len(s) \in Nat /\ DOMAIN s = 1..Len(s)

(* Pod groups as they are cached: maps and slices are finite. *)
ArePodGroups(d) ==
  IsFiniteSet(DOMAIN d) /\ \A k \in DOMAIN d :
    /\ k \in Int
    /\ IsSlice(d[k].pods)
    /\ \A i \in DOMAIN d[k].pods :
         /\ d[k].pods[i].no \in Int
         /\ d[k].pods[i].containers # <<>> => 1 \in DOMAIN d[k].pods[i].containers
    /\ IsSlice(d[k].ports)
    /\ \A i \in DOMAIN d[k].ports : d[k].ports[i].src \in Int

ASSUME ApisAssumption ==
  /\ \A r \in Requests : r.asked \in Names \union {Unset, Star}
  /\ \A d \in Samples["podgroup"] : ArePodGroups(d)

VARIABLES
  api,       \* the API that is asked
  side,      \* "http" or "grpc"
  request,   \* the request
  key,       \* its key, Unset before Key was called
  data,      \* the cache of the watcher when the data was last read
  outcome,   \* "asked", "denied", or of the last Make: "ok", "refused",
             \* "panics" or "unsendable"
  instance,  \* the content or reply of the last Make, <<>> before it
  changed    \* whether Make said that it differs from the one before

vars == <<api, side, request, key, data, outcome, instance, changed>>

OwnApp == {"Coreinfo", "Rebellion", "Streamprocs", "Ports", "Webrouter",
           "Proxy"}
OnGroups == OwnApp \union {"Podgroup", "Apps", "Backupctl"}
OnContainers == {"Containers", "Localspec"}
APIs == OnGroups \union OnContainers \union {"Config", "Nodes", "Depends"}

(* The watcher an API reads. *)
Kind(a) == CASE a \in OnGroups     -> "podgroup"
             [] a \in OnContainers -> "container"
             [] a = "Config"       -> "config"
             [] a = "Nodes"        -> "nodes"
             [] a = "Depends"      -> "depends"

HttpKey(a, r) ==
  CASE a = "Podgroup"    -> GeneralPodGroupKey(r)
    [] a = "Apps"        -> AppsDataKey(r)
    [] a = "Coreinfo"    -> GeneralCoreInfoKey(r)
    [] a = "Rebellion"   -> RebellionAPIProviderKey(r)
    [] a = "Streamprocs" -> StreamRouterInfoKey(r)
    [] a = "Ports"       -> PortsKey(r)
    [] a = "Webrouter"   -> WebrouterInfoKey(r)
    [] a = "Proxy"       -> ProxyDataKey(r)
    [] a = "Backupctl"   -> CoreInfoForBackupctlKey(r)
    [] a = "Containers"  -> GeneralContainersKey(r)
    [] a = "Localspec"   -> LocalSpecKey(r)
    [] a = "Config"      -> GeneralConfigKey(r)
    [] a = "Nodes"       -> GeneralNodesKey(r)
    [] a = "Depends"     -> DependsKey(r)

RpcKey(a, r) ==
  CASE a = "Podgroup"    -> PodgroupGetKey(r)
    [] a = "Apps"        -> AppsGetKey(r)
    [] a = "Coreinfo"    -> CoreinfoGetKey(r)
    [] a = "Rebellion"   -> RebellionLocalprocsGetKey(r)
    [] a = "Streamprocs" -> StreamrouterStreamprocsGetKey(r)
    [] a = "Ports"       -> StreamrouterPortsGetKey(r)
    [] a = "Webrouter"   -> WebrouterWebprocsGetKey(r)
    [] a = "Proxy"       -> ProxyGetKey(r)
    [] a = "Backupctl"   -> BackupctlGetKey(r)
    [] a = "Containers"  -> ContainersGetKey(r)
    [] a = "Localspec"   -> LocalspecGetKey(r)
    [] a = "Config"      -> ConfigGetKey(r)
    [] a = "Nodes"       -> NodesGetKey(r)
    [] a = "Depends"     -> DependsGetKey(r)

(* In which order what Make appends to its lists comes out of the map, or  *)
(* out of the set of procs of Localspec, when there is such a list.        *)
Orders(a, d) ==
  CASE a = "Podgroup"    -> SetToSeqs(DOMAIN d)
    [] a = "Streamprocs" -> StreamOrders(d)
    [] a = "Ports"       -> PortOrders(d)
    [] a = "Localspec"   -> SetToSeqs(ProcsOf(d))
    [] OTHER             -> {<<>>}

HttpContent(a, d, order) ==
  CASE a = "Podgroup"    -> GeneralPodGroup(d, order)
    [] a = "Apps"        -> AppsData(d)
    [] a = "Coreinfo"    -> GeneralCoreInfo(d)
    [] a = "Rebellion"   -> RebellionAPIProvider(d)
    [] a = "Streamprocs" -> StreamRouterInfo(d, order)
    [] a = "Ports"       -> Ports(d, order)
    [] a = "Webrouter"   -> WebrouterInfo(d)
    [] a = "Proxy"       -> ProxyData(d)
    [] a = "Backupctl"   -> CoreInfoForBackupctl(d)
    [] a = "Containers"  -> GeneralContainers(d)
    [] a = "Localspec"   -> LocalSpec(d, order)
    [] a = "Config"      -> GeneralConfig(d)
    [] a = "Nodes"       -> GeneralNodes(d)
    [] a = "Depends"     -> Depends(d)

RpcReply(a, d, order) ==
  CASE a = "Podgroup"    -> PodgroupReply(d, order)
    [] a = "Apps"        -> AppsReply(d)
    [] a = "Coreinfo"    -> CoreinfoReply(d)
    [] a = "Rebellion"   -> RebellionLocalprocsReply(d)
    [] a = "Ports"       -> StreamrouterPortsReply(d, order)
    [] a = "Webrouter"   -> WebrouterWebprocsReply(d)
    [] a = "Proxy"       -> ProxyReply(d)
    [] a = "Backupctl"   -> BackupctlReply(d)
    [] a = "Containers"  -> ContainersReply(d)
    [] a = "Localspec"   -> LocalspecReply(d, order)
    [] a = "Config"      -> ConfigReply(d)
    [] a = "Nodes"       -> NodesReply(d)
    [] a = "Depends"     -> DependsReply(d)
    [] a = "Streamprocs" -> StreamrouterStreamprocsReply

(* Make indexes past the end of a slice, or takes nil for a container. *)
MakePanics(a, d) ==
  CASE a = "Podgroup"                -> IndexesFirst(d, DOMAIN d)
    [] a = "Streamprocs"             -> IndexesFirst(d, StreamGroups(d))
    [] a = "Webrouter"               -> IndexesSpec(d, WebGroups(d))
    [] a \in {"Coreinfo", "Proxy"}   -> IndexesSpec(d, DOMAIN d)
    [] a = "Localspec"               -> \E k \in DOMAIN d : d[k] = Gone
    [] OTHER                         -> FALSE

MakeRefuses(a, d) ==
  \/ a = "Webrouter" /\ TooManyDead(d, WebGroups(d))
  \/ a = "Streamprocs" /\ TooManyDead(d, StreamGroups(d))

\* Slip: the endpoint does not count the dead.
OutcomeUncounted(s, a, d) ==
  CASE MakePanics(a, d)                                        -> "panics"
    [] s = "grpc" /\ a = "Streamprocs" /\ StreamprocsPanics(d) -> "panics"
    [] s = "http" /\ MakeRefuses(a, d)                         -> "refused"
    [] s = "grpc" /\ a = "Nodes" /\ NodesUnsendable(d)         -> "unsendable"
    [] OTHER                                                   -> "ok"

Outcome(s, a, d) ==
  CASE MakePanics(a, d)                                        -> "panics"
    [] s = "grpc" /\ a = "Streamprocs" /\ StreamprocsPanics(d) -> "panics"
    [] MakeRefuses(a, d)                                       -> "refused"
    [] s = "grpc" /\ a = "Nodes" /\ NodesUnsendable(d)         -> "unsendable"
    [] OTHER                                                   -> "ok"

Make(s, a, d, order) ==
  IF s = "http" THEN HttpContent(a, d, order) ELSE RpcReply(a, d, order)

-----------------------------------------------------------------------------
(* Cacher.Get: the name a key of the cache begins with, and the part under *)
(* the key of the request.                                                 *)

Owner(a, d, k) == IF a \in OnGroups THEN d[k].app ELSE k[1]

Under(a, d) ==
  IF key = Star THEN d
  ELSE IF ~key.whole /\ a \notin OnGroups /\ <<key.name>> \in DOMAIN d
       THEN Restrict(d, {<<key.name>>})
  ELSE Restrict(d, {k \in DOMAIN d : IF key.whole
                                     THEN Owner(a, d, k) = key.name
                                     ELSE Owner(a, d, k) \in Longer[key.name]})

Init ==
  /\ api \in APIs \union {"Appname"} /\ side \in {"http", "grpc"}
  /\ request \in Requests
  /\ key = Unset
  /\ data = <<>>
  /\ outcome = "asked"
  /\ instance = <<>> /\ changed = FALSE

(* Key or getKey. *)
Ask ==
  /\ key = Unset /\ api # "Appname"
  /\ key' = IF side = "http" THEN HttpKey(api, request) ELSE RpcKey(api, request)
  /\ outcome' = IF key' = Denied THEN "denied" ELSE "asked"
  /\ UNCHANGED <<api, side, request, data, instance, changed>>

(* Appname is all lookups, and reads nothing under a key. *)
Appname ==
  /\ api = "Appname" /\ outcome = "asked"
  /\ instance' = AppnameOf(request)
  /\ outcome' = IF instance' \in {Denied, Unknown} THEN "denied" ELSE "ok"
  /\ UNCHANGED <<api, side, request, key, data, changed>>

(* Make over the data under the key; an instance that was made before is   *)
(* what the new one is compared with.  Containers always says changed.     *)
Remake(order) ==
  /\ outcome' = Outcome(side, api, Under(api, data'))
  /\ IF outcome' = "ok"
     THEN /\ instance' = Make(side, api, Under(api, data'), order)
          /\ changed' = (api = "Containers" \/ instance' # instance)
     ELSE UNCHANGED <<instance, changed>>
  /\ UNCHANGED <<api, side, request, key>>

Readable == key \notin {Unset, Denied}

(* Get, and the first event of a watch. *)
First ==
  /\ Readable /\ outcome = "asked"
  /\ data' \in Samples[Kind(api)]
  /\ \E order \in Orders(api, Under(api, data')) : Remake(order)

(* An event of a watch, which Localspec does not offer.  The data may be   *)
(* the same: a broadcast says that something under the key was written.    *)
Event ==
  /\ Readable /\ outcome = "ok" /\ api # "Localspec"
  /\ data' \in Samples[Kind(api)]
  /\ \E order \in Orders(api, Under(api, data')) : Remake(order)

Next == Ask \/ Appname \/ First \/ Event

Spec == Init /\ [][Next]_vars

-----------------------------------------------------------------------------
(* A watcher is not woken by an event that leaves its data as it was,      *)
(* whatever order the map is ranged in, except by Podgroup, whose list has *)
(* the order of the map, and Containers, which never compares (maker.go:33 *)
(* and the sorts of streamrouter_streamprocs.go and streamrouter_ports.go).*)
SilentWhenUnchanged ==
  [][(/\ Event /\ outcome' = "ok"
      /\ Under(api, data') = Under(api, data)
      /\ api \notin {"Podgroup", "Containers"}) => ~changed']_vars

(* A request for one app, node or container host gets nothing of another   *)
(* whose name only begins alike: the key ends with its separator before    *)
(* Cacher.Get matches it as a prefix (fixPrefix, cacher.go 66-81).         *)
OnlyAsked ==
  /\ key # Unset /\ Readable /\ outcome = "ok"
  /\ request.asked \notin {Unset, Star}
  /\ api \notin {"Apps", "Config", "Depends"}
  => \A k \in DOMAIN Under(api, data) : Owner(api, data, k) = request.asked

(* A web router that is answered has an address to route to, however many  *)
(* of the pods are gone (webrouter_webprocs.go 89-91).                     *)
WebUpstream ==
  outcome = "ok" /\ api = "Webrouter" =>
    \E k \in WebGroups(Under(api, data)) :
      \E i \in DOMAIN data[k].pods : \E j \in DOMAIN data[k].pods[i].containers :
        data[k].pods[i].containers[j].ip # NoIp

(* The same of the stream router, in what it is answered.                  *)
StreamUpstream ==
  outcome = "ok" /\ api = "Streamprocs" =>
    \E a \in DOMAIN instance : \E i \in DOMAIN instance[a] :
      \E j \in DOMAIN instance[a][i].upstreams :
        instance[a][i].upstreams[j].host # NoIp

(* Neither router is ever left with nowhere to route to by an answer.      *)
HasUpstream == WebUpstream /\ StreamUpstream

(* The pods of what a router is answered, by where they stand in it, and   *)
(* those of them that have an address.                                     *)
Content == IF side = "http" THEN instance ELSE instance.Data

WebPods == UNION {{k} \X DOMAIN Content[k] : k \in DOMAIN Content}
WebAlive == {p \in WebPods : LET boxes == Content[p[1]][p[2]].containers
                             IN  boxes # <<>> /\ boxes[1].ip # NoIp}

StreamProcs == UNION {{a} \X DOMAIN Content[a] : a \in DOMAIN Content}
StreamPods ==
  UNION {{p} \X DOMAIN Content[p[1]][p[2]].upstreams : p \in StreamProcs}
StreamAlive ==
  {u \in StreamPods : Content[u[1][1]][u[1][2]].upstreams[u[2]].host # NoIp}

(* At least half of the pods a router is answered have an address, in the  *)
(* lists it is given and not only in the counts of Make                    *)
(* (webrouter_webprocs.go 71-91, streamrouter_streamprocs.go 83-110).      *)
HalfAlive ==
  outcome = "ok" =>
    /\ api = "Webrouter" => 2 * Cardinality(WebAlive) >= Cardinality(WebPods)
    /\ api = "Streamprocs" =>
         2 * Cardinality(StreamAlive) >= Cardinality(StreamPods)

-----------------------------------------------------------------------------
(* The invariant of the proofs (ApisProofs): what was answered was made of *)
(* the data under the key of this API and this request.                    *)
KeyOf == IF side = "http" THEN HttpKey(api, request) ELSE RpcKey(api, request)

IInv ==
  /\ api \in APIs \union {"Appname"} /\ side \in {"http", "grpc"}
  /\ request \in Requests
  /\ key # Unset => api # "Appname" /\ key = KeyOf
  /\ data # <<>> => data \in Samples[Kind(api)]
  /\ outcome = "ok" /\ api # "Appname" =>
       /\ Readable /\ Outcome(side, api, Under(api, data)) = "ok"
       /\ \E order \in Orders(api, Under(api, data)) :
            instance = Make(side, api, Under(api, data), order)
  /\ OnlyAsked /\ WebUpstream
=============================================================================
