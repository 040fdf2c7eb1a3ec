------------------------------ MODULE Contents ------------------------------
(***************************************************************************)
(* What each HTTP API makes of cached data (the Make functions of api/v2). *)
(*                                                                         *)
(* A map of Go is a function on the keys that are present; a loop over one *)
(* visits the keys in an order nobody chooses, which `order` gives where   *)
(* the result depends on it.  Keys of pod groups are numbers that compare  *)
(* as the names do: Spec.Name is unique.                                   *)
(*                                                                         *)
(* A pod group (spec/spec.go, PodGroupWithSpec) is a record:               *)
(*   app      Spec.Namespace                                               *)
(*   web      Spec.Name has the form of a web proc                         *)
(*   note     Spec.Pod.Annotation, and ports, what it decodes to           *)
(*   version  LAIN_APP_RELEASE_VERSION of the first container's Env        *)
(*   specs    Spec.Pod.Containers: expose, and rest for the other fields   *)
(*   deps     Spec.Pod.Dependencies                                        *)
(*   pods     Pods: no (InstanceNo) and containers, each with id, ip, port *)
(*            node (name and address of the node) and proc, its            *)
(*            LAIN_PROCNAME                                                *)
(***************************************************************************)
EXTENDS Integers, Sequences, FiniteSets, SequencesExt

CONSTANTS
  Host,      \* the node this process runs on
  NoIp,      \* the address of a container that lost it
  Gone       \* the nil value the container watcher may leave for a key

Each(seq, Op(_)) == [i \in DOMAIN seq |-> Op(seq[i])]

-----------------------------------------------------------------------------
(* APIs over pod groups. *)

GeneralPodGroup(data, order) ==
  LET PodOf(pod) == LET c == pod.containers[1]
                    IN  [no |-> pod.no, ip |-> c.ip, port |-> c.port,
                         proc |-> c.proc]
  IN  Each(order, LAMBDA k : Each(data[k].pods, PodOf))

AppsOf(data) == {data[k].app : k \in DOMAIN data}

AppsData(data) == [a \in AppsOf(data) |-> [appname |-> a]]

GeneralCoreInfo(data) ==
  [k \in DOMAIN data |->
     Each(data[k].pods, LAMBDA pod :
       [note |-> data[k].note, no |-> pod.no, deps |-> data[k].deps,
        containers |-> [j \in DOMAIN pod.containers |->
          <<pod.containers[j].id, pod.containers[j].ip,
            pod.containers[j].node, data[k].specs[j]>>]])]

RebellionAPIProvider(data) ==
  LET Local(g) == SelectSeq(g.pods, LAMBDA pod :
                    \E j \in DOMAIN pod.containers :
                      pod.containers[j].node = Host)
      near == {k \in DOMAIN data : Local(data[k]) # <<>>}
  IN  [k \in near |-> Each(Local(data[k]), LAMBDA pod :
         [note |-> data[k].note, no |-> pod.no,
          version |-> data[k].version])]

StreamGroups(data) == {k \in DOMAIN data : data[k].ports # <<>>}

(* sort.Slice: in which order the elements of a list with these keys come  *)
(* to stand.  Elements with the same key come in any order, though always  *)
(* in the same one when the keys are the same.                             *)
Sortings(key) ==
  {p \in [DOMAIN key -> DOMAIN key] :
     \A i, j \in DOMAIN key : i < j => p[i] # p[j] /\ key[p[i]] <= key[p[j]]}

Sorting(key) == CHOOSE p \in Sortings(key) : TRUE

SortBy(seq, key) == [i \in DOMAIN key |-> seq[Sorting(key)[i]]]

(* One proc of a stream router; its lists are sorted by number. *)
StreamProcOf(data, k) ==
  LET pods == data[k].pods
      ports == data[k].ports
  IN  [name |-> k,
       upstreams |-> SortBy(Each(pods, LAMBDA pod :
                              [host |-> pod.containers[1].ip, no |-> pod.no]),
                            Each(pods, LAMBDA pod : pod.no)),
       services |-> SortBy(Each(ports, LAMBDA p :
                             [upstream |-> p.dst, listen |-> p.src]),
                           Each(ports, LAMBDA p : p.src))]

StreamApps(data) == {data[k].app : k \in StreamGroups(data)}

StreamsOf(data, a) == {k \in StreamGroups(data) : data[k].app = a}

(* In which order the loop appends to the list of each app. *)
StreamOrders(data) ==
  {order \in [StreamApps(data) -> UNION {SetToSeqs(StreamsOf(data, a)) : a \in StreamApps(data)}] :
     \A a \in StreamApps(data) : order[a] \in SetToSeqs(StreamsOf(data, a))}

\* Slip: the procs of an app stay in the order of the map.
StreamRouterUnsorted(data, order) ==
  [a \in StreamApps(data) |-> Each(order[a], LAMBDA k : StreamProcOf(data, k))]

StreamRouterInfo(data, order) ==
  [a \in StreamApps(data) |->
     Each(SortBy(order[a], order[a]), LAMBDA k : StreamProcOf(data, k))]

(* The ports, by group and place. *)
PortsOf(data) == UNION {{k} \X DOMAIN data[k].ports : k \in DOMAIN data}

(* The loop takes group after group, and the ports of each as they come. *)
PortOrders(data) ==
  {order \in SetToSeqs(PortsOf(data)) :
     \A i, j \in DOMAIN order : i < j /\ order[i][1] = order[j][1] =>
       /\ order[i][2] < order[j][2]
       /\ \A h \in i..j : order[h][1] = order[i][1]}

Ports(data, order) ==
  LET srcs == Each(order, LAMBDA p : data[p[1]].ports[p[2]].src)
  IN  SortBy(srcs, srcs)

WebGroups(data) == {k \in DOMAIN data : data[k].web}

WebrouterInfo(data) ==
  [k \in WebGroups(data) |->
     Each(data[k].pods, LAMBDA pod :
       [note |-> data[k].note,
        containers |-> [j \in DOMAIN pod.containers |->
          [ip |-> pod.containers[j].ip, expose |-> data[k].specs[j].expose]]])]

ProxyData(data) ==
  [k \in DOMAIN data |->
     FlattenSeq(Each(data[k].pods, LAMBDA pod :
       [j \in DOMAIN pod.containers |->
          [ip |-> pod.containers[j].ip, port |-> data[k].specs[j].expose]]))]

CoreInfoForBackupctl(data) ==
  [k \in DOMAIN data |->
     Each(data[k].pods, LAMBDA pod :
       [note |-> data[k].note, no |-> pod.no,
        containers |-> Each(pod.containers, LAMBDA c :
          [id |-> c.id, ip |-> c.ip, node |-> c.node])])]

-----------------------------------------------------------------------------
(* APIs over other data. *)

\* data[k] is a string.
GeneralConfig(data) == data

\* data[k] is a map from names to strings and maps.
GeneralNodes(data) == data

\* data[k] maps a node to apps, and each to a pod and its specification.
Depends(data) ==
  [k \in DOMAIN data |-> [n \in DOMAIN data[k] |-> [a \in DOMAIN data[k][n] |->
     [note |-> data[k][n][a].note,
      containers |-> Each(data[k][n][a].containers, LAMBDA c :
        [id |-> c.id, ip |-> c.ip, port |-> c.port, node |-> c.node])]]]]

\* data[k] describes one container, with its app and proc, or is Gone.
GeneralContainers(data) == RestrictValues(data, LAMBDA v : v # Gone)

ProcsOf(data) ==
  LET infos == GeneralContainers(data)
  IN  {<<infos[k].app, infos[k].proc>> : k \in DOMAIN infos}

\* `order` is the order of the set of procs.
LocalSpec(data, order) == Each(order, LAMBDA p : p)

-----------------------------------------------------------------------------
(* When Make gives no content. *)

\* Containers[0] of a pod without one.
IndexesFirst(data, ks) ==
  \E k \in ks : \E i \in DOMAIN data[k].pods : data[k].pods[i].containers = <<>>

\* Spec.Pod.Containers[j] of a container that has no specification.
IndexesSpec(data, ks) ==
  \E k \in ks : \E i \in DOMAIN data[k].pods :
    Len(data[k].pods[i].containers) > Len(data[k].specs)

(* The pods of these groups, by group and place. *)
PodsOf(data, ks) == UNION {{k} \X DOMAIN data[k].pods : k \in ks}

AlivePods(data, ks) ==
  {p \in PodsOf(data, ks) : LET boxes == data[p[1]].pods[p[2]].containers
                            IN  boxes # <<>> /\ boxes[1].ip # NoIp}

\* Slip: nothing to route is not an error.
TooManyDeadOnly(data, ks) ==
  2 * Cardinality(AlivePods(data, ks)) < Cardinality(PodsOf(data, ks))

\* Slip: half of three pods is one.
TooManyDeadRounded(data, ks) ==
  \/ PodsOf(data, ks) = {}
  \/ Cardinality(AlivePods(data, ks)) < Cardinality(PodsOf(data, ks)) \div 2

(* No pod at all, or less than half of them alive. *)
TooManyDead(data, ks) ==
  \/ PodsOf(data, ks) = {}
  \/ 2 * Cardinality(AlivePods(data, ks)) < Cardinality(PodsOf(data, ks))
=============================================================================
