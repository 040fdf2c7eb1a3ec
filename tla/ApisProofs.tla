------------------------------ MODULE ApisProofs ------------------------------
(***************************************************************************)
(* What TLAPS proves of the requests: that the part of a cache a request   *)
(* reads is of what it asked for, that routers are left with somewhere to  *)
(* route to, and that equal data wakes nobody, whatever the caches hold    *)
(* and whoever asks.                                                       *)
(***************************************************************************)
EXTENDS Apis, SortingProofs

(* A key that names what was asked for.  *)
Exactly(r) == [name |-> r.asked, whole |-> TRUE]

-----------------------------------------------------------------------------
(* The keys. *)

LEMMA WholeKeys ==
  ASSUME NEW n \in Names
  PROVE  LET x == [name |-> n, whole |-> TRUE]
         IN  x # Unset /\ x # Star /\ x # Denied /\ fixPrefix(n) = x
<1>1. n # Star
  BY AccessAssumption
<1>2. \A w \in BOOLEAN : [name |-> n, whole |-> w] \notin {Unset, Star, Denied}
  BY AccessAssumption
<1>. QED  BY <1>1, <1>2 DEF fixPrefix

(* Whoever asks by name for an app, a node or the containers of a host     *)
(* gets the key of that name, with its separator, or is refused (the Key   *)
(* functions of api/v2).                                                   *)
LEMMA HttpKeyWhole ==
  ASSUME NEW a \in APIs, NEW r \in Requests, r.asked \notin {Unset, Star},
         a \notin {"Apps", "Config", "Depends"}
  PROVE  HttpKey(a, r) \in {Denied, Exactly(r)}
<1>1. r.asked \in Names
  BY ApisAssumption
<1>2. /\ Default(r.asked) = r.asked
      /\ fixPrefix(r.asked) = Exactly(r) /\ r.asked # Star
  BY <1>1, WholeKeys DEF Default, Exactly
<1>3. OwnAppKey(r) \in {Denied, Exactly(r)}
  BY <1>2 DEF OwnAppKey
<1>4. CASE a \in OwnApp
  BY <1>3, <1>4 DEF HttpKey, OwnApp, GeneralCoreInfoKey, StreamRouterInfoKey,
     RebellionAPIProviderKey, PortsKey, WebrouterInfoKey, ProxyDataKey
<1>5. CASE a \in {"Podgroup", "Backupctl", "Containers", "Nodes"}
  BY <1>2, <1>5 DEF HttpKey, GeneralPodGroupKey, CoreInfoForBackupctlKey,
     GeneralContainersKey, GeneralNodesKey
<1>6. CASE a = "Localspec"
  BY <1>6 DEF HttpKey, LocalSpecKey, Exactly
<1>. QED  BY <1>4, <1>5, <1>6 DEF APIs, OnGroups, OnContainers, OwnApp

(* The same of getKey (endpoints). *)
LEMMA RpcKeyWhole ==
  ASSUME NEW a \in APIs, NEW r \in Requests, r.asked \notin {Unset, Star},
         a \notin {"Apps", "Config", "Depends"}
  PROVE  RpcKey(a, r) \in {Denied, Exactly(r)}
<1>1. r.asked \in Names
  BY ApisAssumption
<1>2. /\ Default(r.asked) = r.asked
      /\ fixPrefix(r.asked) = Exactly(r) /\ r.asked # Star
  BY <1>1, WholeKeys DEF Default, Exactly
<1>3. OwnAppKey(r) \in {Denied, Exactly(r)}
  BY <1>2 DEF OwnAppKey
<1>4. CASE a \in OwnApp
  BY <1>3, <1>4 DEF RpcKey, OwnApp, CoreinfoGetKey, RebellionLocalprocsGetKey,
     StreamrouterStreamprocsGetKey, StreamrouterPortsGetKey,
     WebrouterWebprocsGetKey, ProxyGetKey
<1>5. CASE a \in {"Podgroup", "Backupctl", "Containers", "Nodes"}
  BY <1>2, <1>5 DEF RpcKey, PodgroupGetKey, BackupctlGetKey, ContainersGetKey,
     NodesGetKey
<1>6. CASE a = "Localspec"
  BY <1>6 DEF RpcKey, LocalspecGetKey, Exactly
<1>. QED  BY <1>4, <1>5, <1>6 DEF APIs, OnGroups, OnContainers, OwnApp

-----------------------------------------------------------------------------
(* The part of the cache under a key. *)

(* Under a whole key is what belongs to its name (Cacher.Get). *)
LEMMA UnderWhole ==
  ASSUME NEW a, NEW d, NEW n \in Names, key = [name |-> n, whole |-> TRUE]
  PROVE  \A k \in DOMAIN Under(a, d) : Owner(a, Under(a, d), k) = n
<1>. DEFINE S == {k \in DOMAIN d : Owner(a, d, k) = n}
<1>1. key # Star /\ key.whole /\ key.name = n
  BY WholeKeys
<1>2. Under(a, d) = Restrict(d, S)
  BY <1>1 DEF Under
<1>3. DOMAIN Restrict(d, S) = S /\ \A k \in S : Restrict(d, S)[k] = d[k]
  BY DEF Restrict
<1>4. \A k \in S : Owner(a, Restrict(d, S), k) = Owner(a, d, k)
  BY <1>3 DEF Owner
<1>. QED  BY <1>2, <1>3, <1>4

(* Nothing is under a key that the cache has not. *)
LEMMA UnderPart ==
  ASSUME NEW a, NEW d
  PROVE  LET u == Under(a, d)
         IN  DOMAIN u \subseteq DOMAIN d /\ \A k \in DOMAIN u : u[k] = d[k]
<1>1. ASSUME NEW S
      PROVE  DOMAIN Restrict(d, S) = S /\ \A k \in S : Restrict(d, S)[k] = d[k]
  BY DEF Restrict
<1>. DEFINE one == {<<key.name>>}
            whole == {k \in DOMAIN d : IF key.whole
                                       THEN Owner(a, d, k) = key.name
                                       ELSE Owner(a, d, k) \in Longer[key.name]}
<1>2. \/ Under(a, d) = d
      \/ <<key.name>> \in DOMAIN d /\ Under(a, d) = Restrict(d, one)
      \/ Under(a, d) = Restrict(d, whole)
  BY DEF Under
<1>3. CASE Under(a, d) = d
  BY <1>3
<1>4. CASE <<key.name>> \in DOMAIN d /\ Under(a, d) = Restrict(d, one)
  <2>1. one \subseteq DOMAIN d
    BY <1>4
  <2>. QED  BY <1>1, <1>4, <2>1
<1>5. CASE Under(a, d) = Restrict(d, whole)
  <2>1. whole \subseteq DOMAIN d
    OBVIOUS
  <2>. HIDE DEF whole
  <2>. QED  BY <1>1, <1>5, <2>1
<1>. QED  BY <1>2, <1>3, <1>4, <1>5

-----------------------------------------------------------------------------
(* The pod groups that are cached. *)

(* Places in finitely many slices are finitely many.                       *)
LEMMA PlacesFinite ==
  ASSUME NEW ks, IsFiniteSet(ks), NEW places, \A k \in ks : IsFiniteSet(places[k])
  PROVE  IsFiniteSet(UNION {{k} \X places[k] : k \in ks})
<1>. DEFINE f == [k \in ks |-> {k} \X places[k]]
            T == {f[k] : k \in ks}
<1>1. f \in Surjection(ks, T)
  BY DEF Surjection
<1>2. IsFiniteSet(T)
  BY <1>1, FS_Surjection
<1>3. ASSUME NEW t \in T PROVE IsFiniteSet(t)
  <2>1. PICK k \in ks : t = {k} \X places[k]
    OBVIOUS
  <2>2. IsFiniteSet({k}) /\ IsFiniteSet(places[k])
    BY FS_Singleton
  <2>3. IsFiniteSet({k} \X places[k])
    BY <2>2, FS_Product
  <2>. QED  BY <2>1, <2>3
<1>4. T = {{k} \X places[k] : k \in ks}
  OBVIOUS
<1>. HIDE DEF T
<1>. QED  BY <1>2, <1>3, <1>4, FS_UNION

LEMMA SliceFinite ==
  ASSUME NEW s, IsSlice(s)
  PROVE  IsFiniteSet(DOMAIN s)
BY FS_Interval DEF IsSlice

LEMMA PodsFinite ==
  ASSUME NEW d, ArePodGroups(d), NEW ks \in SUBSET DOMAIN d
  PROVE  IsFiniteSet(PodsOf(d, ks))
<1>. DEFINE places == [k \in ks |-> DOMAIN d[k].pods]
<1>1. IsFiniteSet(ks)
  BY FS_Subset DEF ArePodGroups
<1>2. \A k \in ks : IsFiniteSet(places[k])
  BY SliceFinite DEF ArePodGroups
<1>3. PodsOf(d, ks) = UNION {{k} \X places[k] : k \in ks}
  BY DEF PodsOf
<1>. HIDE DEF places
<1>. QED  BY <1>1, <1>2, <1>3, PlacesFinite

LEMMA PortsFinite ==
  ASSUME NEW d, ArePodGroups(d)
  PROVE  IsFiniteSet(PortsOf(d))
<1>. DEFINE places == [k \in DOMAIN d |-> DOMAIN d[k].ports]
<1>1. IsFiniteSet(DOMAIN d)
  BY DEF ArePodGroups
<1>2. \A k \in DOMAIN d : IsFiniteSet(places[k])
  BY SliceFinite DEF ArePodGroups
<1>3. PortsOf(d) = UNION {{k} \X places[k] : k \in DOMAIN d}
  BY DEF PortsOf
<1>. HIDE DEF places
<1>. QED  BY <1>1, <1>2, <1>3, PlacesFinite

(* What is under a key of the watcher of pod groups. *)
LEMMA UnderGroups ==
  ASSUME api \in OnGroups, NEW d, d = <<>> \/ d \in Samples[Kind(api)]
  PROVE  ArePodGroups(Under(api, d))
<1>1. Kind(api) = "podgroup"
  BY DEF Kind, OnGroups, OnContainers, OwnApp
<1>2. ArePodGroups(d)
  <2>1. CASE d = <<>>
    <3>1. DOMAIN d = {}
      BY <2>1
    <3>. QED  BY <3>1, FS_EmptySet DEF ArePodGroups
  <2>2. CASE d \in Samples["podgroup"]
    BY <2>2, ApisAssumption
  <2>. QED  BY <1>1, <2>1, <2>2
<1>3. DOMAIN Under(api, d) \subseteq DOMAIN d
      /\ \A k \in DOMAIN Under(api, d) : Under(api, d)[k] = d[k]
  BY UnderPart
<1>4. IsFiniteSet(DOMAIN Under(api, d))
  BY <1>2, <1>3, FS_Subset DEF ArePodGroups
<1>. QED  BY <1>2, <1>3, <1>4 DEF ArePodGroups

-----------------------------------------------------------------------------
(* The web router. *)

(* When the dead are not too many, one pod is alive (webrouter_webprocs.go *)
(* 71-91).                                                                 *)
LEMMA OneAlive ==
  ASSUME NEW d, NEW ks, IsFiniteSet(PodsOf(d, ks)), ~TooManyDead(d, ks)
  PROVE  \E k \in ks : \E i \in DOMAIN d[k].pods :
           /\ d[k].pods[i].containers # <<>>
           /\ d[k].pods[i].containers[1].ip # NoIp
<1>1. PodsOf(d, ks) # {} /\ ~(2 * Cardinality(AlivePods(d, ks)) < Cardinality(PodsOf(d, ks)))
  BY DEF TooManyDead
<1>2. Cardinality(PodsOf(d, ks)) \in Nat \ {0}
  BY <1>1, FS_CardinalityType, FS_EmptySet
<1>3. AlivePods(d, ks) # {}
  BY <1>1, <1>2, FS_EmptySet
<1>4. PICK p \in AlivePods(d, ks) : TRUE
  BY <1>3
<1>. QED  BY <1>4 DEF AlivePods, PodsOf

(* What was answered was made of what the watcher of the API holds, and    *)
(* was no error of Make.                                                   *)
Served ==
  /\ api \in APIs \union {"Appname"}
  /\ data # <<>> => data \in Samples[Kind(api)]
  /\ outcome = "ok" /\ api # "Appname" => Outcome(side, api, Under(api, data)) = "ok"

LEMMA Routes == Served => WebUpstream
<1>. SUFFICES ASSUME Served, outcome = "ok", api = "Webrouter"
              PROVE  \E k \in WebGroups(Under(api, data)) :
                       \E i \in DOMAIN data[k].pods :
                         \E j \in DOMAIN data[k].pods[i].containers :
                           data[k].pods[i].containers[j].ip # NoIp
  BY DEF WebUpstream
<1>. DEFINE d == Under(api, data)
<1>1. DOMAIN d \subseteq DOMAIN data /\ \A k \in DOMAIN d : d[k] = data[k]
  BY UnderPart
<1>2. Outcome(side, api, d) = "ok"
  BY DEF Served
<1>. HIDE DEF d
<1>3. ~TooManyDead(d, WebGroups(d))
  BY <1>2 DEF Outcome, MakeRefuses
<1>4. ArePodGroups(d)
  BY UnderGroups DEF Served, OnGroups, OwnApp, d
<1>5. WebGroups(d) \subseteq DOMAIN d
  BY DEF WebGroups
<1>6. IsFiniteSet(PodsOf(d, WebGroups(d)))
  BY <1>4, <1>5, PodsFinite
<1>7. PICK k \in WebGroups(d) : \E i \in DOMAIN d[k].pods :
        d[k].pods[i].containers # <<>> /\ d[k].pods[i].containers[1].ip # NoIp
  BY <1>3, <1>6, OneAlive
<1>8. PICK i \in DOMAIN d[k].pods :
        d[k].pods[i].containers # <<>> /\ d[k].pods[i].containers[1].ip # NoIp
  BY <1>7
<1>9. d[k] = data[k] /\ 1 \in DOMAIN data[k].pods[i].containers
  BY <1>1, <1>4, <1>5, <1>8 DEF ArePodGroups
<1>. QED  BY <1>8, <1>9 DEF d

-----------------------------------------------------------------------------
(* The stream router. *)

(* The groups of an app are listed, in whatever order, each once.          *)
LEMMA StreamsListed ==
  ASSUME NEW d, ArePodGroups(d), NEW order \in StreamOrders(d), NEW a \in StreamApps(d)
  PROVE  LET S == StreamsOf(d, a)
             n == Cardinality(S)
         IN  /\ S \subseteq DOMAIN d /\ S \subseteq Int
             /\ IsFiniteSet(S) /\ n \in Nat
             /\ order[a] \in Listings(n, S)
<1>. DEFINE S == StreamsOf(d, a)
<1>1. S \subseteq DOMAIN d
  BY DEF StreamsOf, StreamGroups
<1>2. S \subseteq Int
  BY <1>1 DEF ArePodGroups
<1>3. IsFiniteSet(S)
  BY <1>1, FS_Subset DEF ArePodGroups
<1>4. order[a] \in SetToSeqs(S)
  BY DEF StreamOrders
<1>. HIDE DEF S
<1>5. Cardinality(S) \in Nat /\ order[a] \in Listings(Cardinality(S), S)
  BY <1>3, <1>4, Listed
<1>. QED  BY <1>1, <1>2, <1>3, <1>5 DEF S

(* The groups of an app, as they come in its list of procs, and the pods of *)
(* a group, as they come in its list of upstreams.                         *)
ProcNames(order, a) == SortBy(order[a], order[a])
PodPlaces(d, k) == Sorting([x \in DOMAIN d[k].pods |-> d[k].pods[x].no])

(* Sorted by name, every group of the app is in the list, and once.        *)
LEMMA StreamPlaces ==
  ASSUME NEW d, ArePodGroups(d), NEW order \in StreamOrders(d), NEW a \in StreamApps(d)
  PROVE  LET list == StreamRouterInfo(d, order)[a]
             names == ProcNames(order, a)
         IN  /\ DOMAIN list = DOMAIN names
             /\ \A m \in DOMAIN list : /\ names[m] \in StreamsOf(d, a)
                                       /\ list[m] = StreamProcOf(d, names[m])
             /\ \A i, j \in DOMAIN list : i # j => names[i] # names[j]
             /\ \A k \in StreamsOf(d, a) : \E m \in DOMAIN list : names[m] = k
<1>. DEFINE S == StreamsOf(d, a)
            n == Cardinality(S)
            list == order[a]
            num == [x \in S |-> x]
            sorted == SortBy(list, list)
<1>1. /\ S \subseteq Int /\ IsFiniteSet(S) /\ n \in Nat /\ list \in Listings(n, S)
  BY StreamsListed
<1>2. n = Cardinality(S)
  OBVIOUS
<1>3. StreamRouterInfo(d, order)[a] = [m \in DOMAIN sorted |-> StreamProcOf(d, sorted[m])]
  BY DEF StreamRouterInfo, Each
<1>. HIDE DEF n, list
<1>4. /\ num \in [S -> Int] /\ list \in [1..n -> Int]
      /\ \A i \in 1..n : list[i] = num[list[i]]
  BY <1>1 DEF Listings
<1>. HIDE DEF S, num
<1>5. sorted \in Listings(n, S)
  BY <1>1, <1>4, SortedListing
<1>6. ProcNames(order, a) = sorted
  BY DEF ProcNames, list
<1>. HIDE DEF sorted
<1>7. \A k \in S : \E m \in 1..n : sorted[m] = k
  BY <1>1, <1>2, <1>5, ListingOnto
<1>8. /\ sorted \in [1..n -> S]
      /\ \A i, j \in 1..n : i # j => sorted[i] # sorted[j]
  BY <1>5 DEF Listings
<1>. QED  BY <1>3, <1>6, <1>7, <1>8 DEF S

(* Sorted by number, every pod is among the upstreams, and once.           *)
LEMMA UpstreamPlaces ==
  ASSUME NEW d, ArePodGroups(d), NEW k \in DOMAIN d
  PROVE  LET ups == StreamProcOf(d, k).upstreams
             places == PodPlaces(d, k)
             pods == d[k].pods
         IN  /\ DOMAIN ups = DOMAIN pods
             /\ \A j \in DOMAIN pods : /\ places[j] \in DOMAIN pods
                                       /\ ups[j].host = pods[places[j]].containers[1].ip
             /\ \A i, j \in DOMAIN pods : i # j => places[i] # places[j]
             /\ \A i \in DOMAIN pods : \E j \in DOMAIN pods : places[j] = i
<1>. DEFINE pods == d[k].pods
            n == Len(pods)
            seq == [x \in DOMAIN pods |-> [host |-> pods[x].containers[1].ip, no |-> pods[x].no]]
            nos == [x \in DOMAIN pods |-> pods[x].no]
<1>1. StreamProcOf(d, k).upstreams = SortBy(seq, nos) /\ PodPlaces(d, k) = Sorting(nos)
  BY DEF StreamProcOf, Each, PodPlaces
<1>2. n \in Nat /\ DOMAIN pods = 1..n /\ \A x \in DOMAIN pods : pods[x].no \in Int
  BY DEF ArePodGroups, IsSlice
<1>3. \A i \in DOMAIN pods : seq[i].host = d[k].pods[i].containers[1].ip
  OBVIOUS
<1>. HIDE DEF n
<1>4. nos \in [1..n -> Int]
  BY <1>2
<1>5. DOMAIN d[k].pods = 1..n
  BY <1>2
<1>. HIDE DEF nos, seq, pods
<1>6. /\ Sorting(nos) \in [1..n -> 1..n]
      /\ \A i, j \in 1..n : i # j => Sorting(nos)[i] # Sorting(nos)[j]
      /\ \A i \in 1..n : \E j \in 1..n : Sorting(nos)[j] = i
  BY <1>2, <1>4, SortingMoves
<1>7. /\ DOMAIN SortBy(seq, nos) = 1..n
      /\ \A j \in 1..n : SortBy(seq, nos)[j] = seq[Sorting(nos)[j]]
  BY <1>4 DEF SortBy
<1>8. \A j \in 1..n : SortBy(seq, nos)[j].host = d[k].pods[Sorting(nos)[j]].containers[1].ip
  BY <1>2, <1>3, <1>6, <1>7
<1>. QED  BY <1>1, <1>5, <1>6, <1>7, <1>8

(* A pod's address is where its place in the list of upstreams says.       *)
LEMMA UpstreamAt ==
  ASSUME NEW d, ArePodGroups(d), NEW k \in DOMAIN d, NEW i \in DOMAIN d[k].pods
  PROVE  \E j \in DOMAIN StreamProcOf(d, k).upstreams :
           /\ j \in DOMAIN d[k].pods /\ PodPlaces(d, k)[j] = i
           /\ StreamProcOf(d, k).upstreams[j].host = d[k].pods[i].containers[1].ip
<1>1. PICK j \in DOMAIN d[k].pods : PodPlaces(d, k)[j] = i
  BY UpstreamPlaces
<1>2. /\ j \in DOMAIN StreamProcOf(d, k).upstreams
      /\ StreamProcOf(d, k).upstreams[j].host =
           d[k].pods[PodPlaces(d, k)[j]].containers[1].ip
  BY UpstreamPlaces
<1>. QED  BY <1>1, <1>2

(* The answered stream router has an address to route to, in the lists it  *)
(* is given (streamrouter_streamprocs.go 83-110).                          *)
LEMMA Streams == IInv => StreamUpstream
<1>. SUFFICES ASSUME IInv, outcome = "ok", api = "Streamprocs"
              PROVE  \E a \in DOMAIN instance : \E i \in DOMAIN instance[a] :
                       \E j \in DOMAIN instance[a][i].upstreams :
                         instance[a][i].upstreams[j].host # NoIp
  BY DEF StreamUpstream
<1>. DEFINE d == Under(api, data)
<1>1. ArePodGroups(d)
  BY UnderGroups DEF IInv, OnGroups, OwnApp
<1>2. Outcome(side, api, d) = "ok"
      /\ \E order \in Orders(api, d) : instance = Make(side, api, d, order)
  BY DEF IInv
<1>3. side \in {"http", "grpc"}
  BY DEF IInv
<1>. HIDE DEF d
<1>4. ~TooManyDead(d, StreamGroups(d))
  BY <1>2 DEF Outcome, MakeRefuses
<1>5. StreamGroups(d) \subseteq DOMAIN d
  BY DEF StreamGroups
<1>6. IsFiniteSet(PodsOf(d, StreamGroups(d)))
  BY <1>1, <1>5, PodsFinite
<1>7. PICK k \in StreamGroups(d) : \E i \in DOMAIN d[k].pods :
        d[k].pods[i].containers # <<>> /\ d[k].pods[i].containers[1].ip # NoIp
  BY <1>4, <1>6, OneAlive
<1>8. PICK i \in DOMAIN d[k].pods : d[k].pods[i].containers[1].ip # NoIp
  BY <1>7
<1>9. side = "http"
  BY <1>2, <1>3, <1>7 DEF Outcome, StreamprocsPanics
<1>10. PICK order \in StreamOrders(d) : instance = StreamRouterInfo(d, order)
  BY <1>2, <1>9 DEF Orders, Make, HttpContent
<1>. DEFINE a == d[k].app
<1>11. a \in StreamApps(d) /\ k \in StreamsOf(d, a) /\ a \in DOMAIN instance
  BY <1>10 DEF StreamApps, StreamsOf, StreamRouterInfo
<1>. HIDE DEF a
<1>12. PICK m \in DOMAIN instance[a] : instance[a][m] = StreamProcOf(d, k)
  BY <1>1, <1>10, <1>11, StreamPlaces
<1>13. PICK j \in DOMAIN StreamProcOf(d, k).upstreams :
         StreamProcOf(d, k).upstreams[j].host = d[k].pods[i].containers[1].ip
  BY <1>1, <1>5, UpstreamAt
<1>. QED  BY <1>8, <1>11, <1>12, <1>13

-----------------------------------------------------------------------------
(* Half of the pods. *)

(* When one set is led into another and a part of it onto a part that is   *)
(* at least half of the other, the part is at least half of it.            *)
LEMMA HalfLed ==
  ASSUME NEW T, IsFiniteSet(T), NEW S, NEW g \in Injection(S, T),
         NEW A \in SUBSET S, NEW B \in SUBSET T,
         \A b \in B : \E u \in A : g[u] = b,
         ~(2 * Cardinality(B) < Cardinality(T))
  PROVE  2 * Cardinality(A) >= Cardinality(S)
<1>. DEFINE h == [u \in A |-> g[u]]
            I == {g[u] : u \in A}
<1>1. IsFiniteSet(S) /\ Cardinality(S) <= Cardinality(T)
  BY FS_Injection
<1>2. IsFiniteSet(A)
  BY <1>1, FS_Subset
<1>3. h \in Surjection(A, I)
  BY DEF Surjection
<1>4. IsFiniteSet(I) /\ Cardinality(I) <= Cardinality(A)
  BY <1>2, <1>3, FS_Surjection
<1>5. B \subseteq I
  OBVIOUS
<1>. HIDE DEF I
<1>6. IsFiniteSet(B) /\ Cardinality(B) <= Cardinality(I)
  BY <1>4, <1>5, FS_Subset
<1>7. /\ Cardinality(S) \in Nat /\ Cardinality(T) \in Nat /\ Cardinality(A) \in Nat
      /\ Cardinality(B) \in Nat /\ Cardinality(I) \in Nat
  BY <1>1, <1>2, <1>4, <1>6, FS_CardinalityType
<1>. QED  BY <1>1, <1>4, <1>6, <1>7

(* The web router is given the pods that Make counts.                      *)
LEMMA WebHalf ==
  ASSUME NEW d, ArePodGroups(d), Content = WebrouterInfo(d), ~TooManyDead(d, WebGroups(d))
  PROVE  2 * Cardinality(WebAlive) >= Cardinality(WebPods)
<1>. DEFINE ks == WebGroups(d)
<1>1. ks \subseteq DOMAIN d
  BY DEF WebGroups
<1>2. DOMAIN Content = ks
  BY DEF WebrouterInfo
<1>3. ASSUME NEW k \in ks
      PROVE  /\ DOMAIN Content[k] = DOMAIN d[k].pods
             /\ \A i \in DOMAIN d[k].pods :
                  LET boxes == Content[k][i].containers
                      cached == d[k].pods[i].containers
                  IN  (boxes # <<>> /\ boxes[1].ip # NoIp)
                        <=> (cached # <<>> /\ cached[1].ip # NoIp)
  <2>1. Content[k] = [i \in DOMAIN d[k].pods |->
          [note |-> d[k].note,
           containers |-> [j \in DOMAIN d[k].pods[i].containers |->
             [ip |-> d[k].pods[i].containers[j].ip, expose |-> d[k].specs[j].expose]]]]
    BY DEF WebrouterInfo, Each
  <2>2. ASSUME NEW i \in DOMAIN d[k].pods
        PROVE  LET boxes == Content[k][i].containers
                   cached == d[k].pods[i].containers
               IN  (boxes # <<>> /\ boxes[1].ip # NoIp)
                     <=> (cached # <<>> /\ cached[1].ip # NoIp)
    <3>. DEFINE boxes == Content[k][i].containers
                cached == d[k].pods[i].containers
    <3>1. cached # <<>> => 1 \in DOMAIN cached
      BY <1>1 DEF ArePodGroups
    <3>2. boxes = [j \in DOMAIN cached |-> [ip |-> cached[j].ip, expose |-> d[k].specs[j].expose]]
      BY <2>1
    <3>. HIDE DEF boxes, cached
    <3>3. DOMAIN boxes = DOMAIN cached /\ \A j \in DOMAIN cached : boxes[j].ip = cached[j].ip
      BY <3>2
    <3>4. cached = <<>> => boxes = <<>>
      BY <3>2
    <3>5. 1 \in DOMAIN boxes => boxes # <<>>
      OBVIOUS
    <3>6. (boxes # <<>> /\ boxes[1].ip # NoIp) <=> (cached # <<>> /\ cached[1].ip # NoIp)
      BY <3>1, <3>3, <3>4, <3>5
    <3>. QED  BY <3>6 DEF boxes, cached
  <2>. QED  BY <2>1, <2>2
<1>. HIDE DEF ks
<1>4. WebPods = PodsOf(d, ks)
  BY <1>2, <1>3 DEF WebPods, PodsOf
<1>5. WebAlive = AlivePods(d, ks)
  BY <1>2, <1>3 DEF WebAlive, AlivePods, WebPods, PodsOf
<1>6. IsFiniteSet(PodsOf(d, ks))
  BY <1>1, PodsFinite
<1>7. AlivePods(d, ks) \subseteq PodsOf(d, ks)
  BY DEF AlivePods
<1>8. Cardinality(PodsOf(d, ks)) \in Nat /\ Cardinality(AlivePods(d, ks)) \in Nat
  BY <1>6, <1>7, FS_Subset, FS_CardinalityType
<1>9. ~(2 * Cardinality(AlivePods(d, ks)) < Cardinality(PodsOf(d, ks)))
  BY DEF TooManyDead, ks
<1>. QED  BY <1>4, <1>5, <1>8, <1>9

(* The stream router is given the pods that Make counts, each once, in the *)
(* sorted lists of its procs.                                              *)
LEMMA StreamHalf ==
  ASSUME NEW d, ArePodGroups(d), NEW order \in StreamOrders(d),
         Content = StreamRouterInfo(d, order), ~TooManyDead(d, StreamGroups(d))
  PROVE  2 * Cardinality(StreamAlive) >= Cardinality(StreamPods)
<1>. DEFINE T == PodsOf(d, StreamGroups(d))
            B == AlivePods(d, StreamGroups(d))
            GroupAt(u) == ProcNames(order, u[1][1])[u[1][2]]
            g == [u \in StreamPods |-> <<GroupAt(u), PodPlaces(d, GroupAt(u))[u[2]]>>]
<1>1. IsFiniteSet(T)
  BY PodsFinite DEF StreamGroups
<1>2. DOMAIN Content = StreamApps(d)
  BY DEF StreamRouterInfo
<1>3. \A a \in StreamApps(d) : StreamsOf(d, a) \subseteq StreamGroups(d)
  BY DEF StreamsOf
<1>4. StreamGroups(d) \subseteq DOMAIN d
  BY DEF StreamGroups
<1>5. ASSUME NEW u \in StreamPods
      PROVE  /\ u = <<<<u[1][1], u[1][2]>>, u[2]>>
             /\ u[1][1] \in StreamApps(d) /\ u[1][2] \in DOMAIN Content[u[1][1]]
             /\ GroupAt(u) \in StreamGroups(d) /\ d[GroupAt(u)].app = u[1][1]
             /\ Content[u[1][1]][u[1][2]] = StreamProcOf(d, GroupAt(u))
             /\ u[2] \in DOMAIN d[GroupAt(u)].pods
             /\ PodPlaces(d, GroupAt(u))[u[2]] \in DOMAIN d[GroupAt(u)].pods
  <2>1. PICK p \in StreamProcs : \E j \in DOMAIN Content[p[1]][p[2]].upstreams : u = <<p, j>>
    BY DEF StreamPods
  <2>2. PICK a \in DOMAIN Content : \E m \in DOMAIN Content[a] : p = <<a, m>>
    BY DEF StreamProcs
  <2>3. PICK m \in DOMAIN Content[a] :
          \E j \in DOMAIN Content[a][m].upstreams : u = <<<<a, m>>, j>>
    BY <2>1, <2>2
  <2>. PICK j \in DOMAIN Content[a][m].upstreams : u = <<<<a, m>>, j>>
    BY <2>3
  <2>4. a \in StreamApps(d) /\ ProcNames(order, a)[m] \in StreamsOf(d, a)
        /\ Content[a][m] = StreamProcOf(d, ProcNames(order, a)[m])
    BY <1>2, StreamPlaces
  <2>5. GroupAt(u) = ProcNames(order, a)[m]
    BY <2>3
  <2>. DEFINE k == ProcNames(order, a)[m]
  <2>6. k \in StreamGroups(d) /\ k \in DOMAIN d /\ d[k].app = a
    BY <1>4, <2>4 DEF StreamsOf
  <2>. HIDE DEF k
  <2>7. j \in DOMAIN d[k].pods /\ PodPlaces(d, k)[j] \in DOMAIN d[k].pods
    <3>1. j \in DOMAIN StreamProcOf(d, k).upstreams
      BY <2>4 DEF k
    <3>. QED  BY <3>1, <2>6, UpstreamPlaces
  <2>. QED  BY <2>3, <2>4, <2>5, <2>6, <2>7 DEF k
<1>6. g \in [StreamPods -> T]
  <2>. SUFFICES ASSUME NEW u \in StreamPods PROVE g[u] \in T
    OBVIOUS
  <2>1. GroupAt(u) \in StreamGroups(d) /\ PodPlaces(d, GroupAt(u))[u[2]] \in DOMAIN d[GroupAt(u)].pods
    BY <1>5
  <2>2. g[u] = <<GroupAt(u), PodPlaces(d, GroupAt(u))[u[2]]>>
    OBVIOUS
  <2>. HIDE DEF GroupAt, g
  <2>. QED  BY <2>1, <2>2 DEF PodsOf
<1>7. ASSUME NEW u \in StreamPods, NEW v \in StreamPods, g[u] = g[v]
      PROVE  u = v
  <2>1. GroupAt(u) = GroupAt(v) /\ PodPlaces(d, GroupAt(u))[u[2]] = PodPlaces(d, GroupAt(v))[v[2]]
    BY <1>7
  <2>2. u[1][1] = v[1][1] /\ u[1][1] \in StreamApps(d)
        /\ u[1][2] \in DOMAIN Content[u[1][1]] /\ v[1][2] \in DOMAIN Content[u[1][1]]
    <3>. HIDE DEF GroupAt
    <3>. QED  BY <1>5, <2>1
  <2>3. ProcNames(order, u[1][1])[u[1][2]] = ProcNames(order, u[1][1])[v[1][2]]
    BY <2>1, <2>2
  <2>4. u[1][2] = v[1][2]
    <3>1. \A i, j \in DOMAIN Content[u[1][1]] :
            i # j => ProcNames(order, u[1][1])[i] # ProcNames(order, u[1][1])[j]
      BY <2>2, StreamPlaces
    <3>. QED  BY <3>1, <2>2, <2>3
  <2>5. u[2] = v[2]
    <3>. DEFINE k == GroupAt(u)
    <3>1. k \in DOMAIN d /\ u[2] \in DOMAIN d[k].pods /\ v[2] \in DOMAIN d[k].pods
          /\ PodPlaces(d, k)[u[2]] = PodPlaces(d, k)[v[2]]
      <4>. HIDE DEF GroupAt
      <4>. QED  BY <1>4, <1>5, <2>1
    <3>. HIDE DEF k
    <3>2. \A i, j \in DOMAIN d[k].pods : i # j => PodPlaces(d, k)[i] # PodPlaces(d, k)[j]
      BY <3>1, UpstreamPlaces
    <3>. QED  BY <3>1, <3>2
  <2>6. u = <<<<u[1][1], u[1][2]>>, u[2]>> /\ v = <<<<v[1][1], v[1][2]>>, v[2]>>
    BY <1>5
  <2>. QED  BY <2>2, <2>4, <2>5, <2>6
<1>8. ASSUME NEW b \in B PROVE \E u \in StreamAlive : g[u] = b
  <2>. PICK k \in StreamGroups(d) : \E i \in DOMAIN d[k].pods :
         b = <<k, i>> /\ d[k].pods[i].containers[1].ip # NoIp
    BY DEF AlivePods, PodsOf
  <2>1. PICK i \in DOMAIN d[k].pods : b = <<k, i>> /\ d[k].pods[i].containers[1].ip # NoIp
    OBVIOUS
  <2>. DEFINE a == d[k].app
  <2>2. a \in StreamApps(d) /\ k \in StreamsOf(d, a) /\ k \in DOMAIN d
    BY <1>4 DEF StreamApps, StreamsOf
  <2>. HIDE DEF a
  <2>3. PICK m \in DOMAIN Content[a] :
          ProcNames(order, a)[m] = k /\ Content[a][m] = StreamProcOf(d, k)
    BY <2>2, StreamPlaces
  <2>4. PICK j \in DOMAIN d[k].pods :
          /\ PodPlaces(d, k)[j] = i /\ j \in DOMAIN StreamProcOf(d, k).upstreams
          /\ StreamProcOf(d, k).upstreams[j].host = d[k].pods[i].containers[1].ip
    BY <2>2, UpstreamAt
  <2>. DEFINE u == <<<<a, m>>, j>>
  <2>5. u \in StreamPods
    <3>1. <<a, m>> \in StreamProcs
      BY <1>2, <2>2 DEF StreamProcs
    <3>2. u \in {<<a, m>>} \X DOMAIN Content[<<a, m>>[1]][<<a, m>>[2]].upstreams
      BY <2>3, <2>4
    <3>. QED  BY <3>1, <3>2 DEF StreamPods
  <2>6. u \in StreamAlive
    BY <2>1, <2>3, <2>4, <2>5 DEF StreamAlive
  <2>7. g[u] = <<k, i>>
    BY <2>3, <2>4, <2>5
  <2>. QED  BY <2>1, <2>6, <2>7
<1>9. StreamAlive \in SUBSET StreamPods /\ B \in SUBSET T
  BY DEF StreamAlive, AlivePods
<1>10. ~(2 * Cardinality(B) < Cardinality(T))
  BY DEF TooManyDead
<1>. HIDE DEF T, B, g, GroupAt
<1>11. g \in Injection(StreamPods, T)
  BY <1>6, <1>7 DEF Injection, IsInjective
<1>. QED  BY <1>1, <1>8, <1>9, <1>10, <1>11, HalfLed

(* Routers are given at least as many pods with an address as without.     *)
LEMMA Half == IInv => HalfAlive
<1>. SUFFICES ASSUME IInv, outcome = "ok"
              PROVE  /\ api = "Webrouter" => 2 * Cardinality(WebAlive) >= Cardinality(WebPods)
                     /\ api = "Streamprocs" =>
                          2 * Cardinality(StreamAlive) >= Cardinality(StreamPods)
  BY DEF HalfAlive
<1>. DEFINE d == Under(api, data)
<1>1. api \in {"Webrouter", "Streamprocs"} => ArePodGroups(d)
  BY UnderGroups DEF IInv, OnGroups, OwnApp
<1>2. api # "Appname" =>
        /\ Outcome(side, api, d) = "ok"
        /\ \E order \in Orders(api, d) : instance = Make(side, api, d, order)
  BY DEF IInv
<1>3. side \in {"http", "grpc"}
  BY DEF IInv
<1>. HIDE DEF d
<1>4. ASSUME api = "Webrouter"
      PROVE  2 * Cardinality(WebAlive) >= Cardinality(WebPods)
  <2>1. ~TooManyDead(d, WebGroups(d))
    BY <1>2, <1>4 DEF Outcome, MakeRefuses
  <2>2. Content = WebrouterInfo(d)
    BY <1>2, <1>3, <1>4
       DEF Make, HttpContent, RpcReply, WebrouterWebprocsReply, Content
  <2>. QED  BY <1>1, <1>4, <2>1, <2>2, WebHalf
<1>5. ASSUME api = "Streamprocs"
      PROVE  2 * Cardinality(StreamAlive) >= Cardinality(StreamPods)
  <2>1. ~TooManyDead(d, StreamGroups(d))
    BY <1>2, <1>5 DEF Outcome, MakeRefuses
  <2>2. StreamGroups(d) # {}
    BY <2>1 DEF TooManyDead, PodsOf
  <2>3. side = "http"
    BY <1>2, <1>3, <1>5, <2>2 DEF Outcome, StreamprocsPanics
  <2>4. PICK order \in StreamOrders(d) : Content = StreamRouterInfo(d, order)
    BY <1>2, <1>5, <2>3 DEF Orders, Make, HttpContent, Content
  <2>. QED  BY <1>1, <1>5, <2>1, <2>4, StreamHalf
<1>. QED  BY <1>4, <1>5

-----------------------------------------------------------------------------
(* Make of the same data. *)

LEMMA StreamsSame ==
  ASSUME NEW d, ArePodGroups(d), NEW o \in StreamOrders(d), NEW w \in StreamOrders(d)
  PROVE  StreamRouterInfo(d, o) = StreamRouterInfo(d, w)
<1>1. ASSUME NEW a \in StreamApps(d)
      PROVE  SortBy(o[a], o[a]) = SortBy(w[a], w[a])
  <2>. DEFINE S == StreamsOf(d, a)
  <2>1. /\ S \subseteq Int /\ IsFiniteSet(S) /\ Cardinality(S) \in Nat
        /\ o[a] \in Listings(Cardinality(S), S) /\ w[a] \in Listings(Cardinality(S), S)
    BY <1>1, StreamsListed
  <2>. HIDE DEF S
  <2>. QED  BY <2>1, SortedSetSame
<1>. QED  BY <1>1 DEF StreamRouterInfo

LEMMA PortsSame ==
  ASSUME NEW d, ArePodGroups(d), NEW o \in PortOrders(d), NEW w \in PortOrders(d)
  PROVE  Ports(d, o) = Ports(d, w)
<1>. DEFINE S == PortsOf(d)
            n == Cardinality(S)
            num == [p \in S |-> d[p[1]].ports[p[2]].src]
            a == [i \in DOMAIN o |-> d[o[i][1]].ports[o[i][2]].src]
            b == [i \in DOMAIN w |-> d[w[i][1]].ports[w[i][2]].src]
<1>1. Ports(d, o) = SortBy(a, a) /\ Ports(d, w) = SortBy(b, b)
  BY DEF Ports, Each
<1>2. IsFiniteSet(S)
  BY PortsFinite
<1>3. n = Cardinality(S)
  OBVIOUS
<1>4. o \in SetToSeqs(S) /\ w \in SetToSeqs(S)
  BY DEF PortOrders
<1>5. \A p \in S : d[p[1]].ports[p[2]].src \in Int
  BY DEF PortsOf, ArePodGroups
<1>. HIDE DEF S, n
<1>6. n \in Nat /\ o \in Listings(n, S) /\ w \in Listings(n, S)
  BY <1>2, <1>3, <1>4, Listed
<1>7. /\ o \in [1..n -> S] /\ w \in [1..n -> S]
      /\ DOMAIN o = 1..n /\ DOMAIN w = 1..n
  BY <1>6 DEF Listings
<1>8. num \in [S -> Int]
  BY <1>5
<1>9. Numbers(a, n, num, o)
  BY <1>5, <1>7 DEF Numbers
<1>10. Numbers(b, n, num, w)
  BY <1>5, <1>7 DEF Numbers
<1>. HIDE DEF num, a, b
<1>. QED  BY <1>1, <1>2, <1>3, <1>6, <1>8, <1>9, <1>10, SortedSame

(* But for Podgroup's list, which is not sorted, and Localspec's, Make of  *)
(* the same data is the same, whatever order the map is ranged in.         *)
LEMMA MakeSame ==
  ASSUME NEW a \in APIs \ {"Podgroup", "Localspec"}, NEW s \in {"http", "grpc"},
         NEW d, a \in OnGroups => ArePodGroups(d),
         NEW o \in Orders(a, d), NEW w \in Orders(a, d)
  PROVE  Make(s, a, d, o) = Make(s, a, d, w)
<1>1. CASE a = "Streamprocs"
  <2>1. o \in StreamOrders(d) /\ w \in StreamOrders(d) /\ ArePodGroups(d)
    BY <1>1 DEF Orders, OnGroups, OwnApp
  <2>2. StreamRouterInfo(d, o) = StreamRouterInfo(d, w)
    BY <2>1, StreamsSame
  <2>. QED  BY <1>1, <2>2 DEF Make, HttpContent, RpcReply
<1>2. CASE a = "Ports"
  <2>1. o \in PortOrders(d) /\ w \in PortOrders(d) /\ ArePodGroups(d)
    BY <1>2 DEF Orders, OnGroups, OwnApp
  <2>2. Ports(d, o) = Ports(d, w)
    BY <2>1, PortsSame
  <2>. QED  BY <1>2, <2>2 DEF Make, HttpContent, RpcReply, StreamrouterPortsReply
<1>3. CASE a \notin {"Streamprocs", "Ports"}
  <2>1. o = w
    BY <1>3 DEF Orders
  <2>. QED  BY <2>1
<1>. QED  BY <1>1, <1>2, <1>3

(* An event after which the data is the same compares what was made of it  *)
(* with what is made of it.                                                *)
LEMMA EventSilent ==
  IInv /\ [Next]_vars =>
    [(/\ Event /\ outcome' = "ok"
      /\ Under(api, data') = Under(api, data)
      /\ api \notin {"Podgroup", "Containers"}) => ~changed']_vars
<1>. SUFFICES ASSUME IInv, Event, outcome' = "ok",
                     Under(api, data') = Under(api, data),
                     api \notin {"Podgroup", "Containers"}
              PROVE  ~changed'
  OBVIOUS
<1>. DEFINE d == Under(api, data)
<1>1. /\ Readable /\ outcome = "ok" /\ api # "Localspec"
      /\ \E order \in Orders(api, Under(api, data')) : Remake(order)
  BY DEF Event
<1>2. key # Unset /\ api \in APIs /\ api # "Appname" /\ side \in {"http", "grpc"}
  BY <1>1 DEF IInv, Readable
<1>3. api \in OnGroups => ArePodGroups(d)
  BY UnderGroups DEF IInv
<1>4. PICK o \in Orders(api, d) : instance = Make(side, api, d, o)
  BY <1>1, <1>2 DEF IInv
<1>5. PICK w \in Orders(api, d) : Remake(w)
  BY <1>1
<1>6. /\ instance' = Make(side, api, d, w)
      /\ changed' = (api = "Containers" \/ instance' # instance)
  BY <1>5 DEF Remake
<1>. HIDE DEF d
<1>7. instance' = instance
  BY <1>1, <1>2, <1>3, <1>4, <1>6, MakeSame
<1>. QED  BY <1>6, <1>7

-----------------------------------------------------------------------------
(* The key decides: what was read is of what was asked for.                *)
Keyed ==
  request \in Requests /\ (key # Unset => api \in APIs /\ key = KeyOf)

LEMMA Asked == Keyed => OnlyAsked
<1>. SUFFICES ASSUME Keyed, key # Unset, Readable, request.asked \notin {Unset, Star},
                     api \notin {"Apps", "Config", "Depends"}
              PROVE  \A k \in DOMAIN Under(api, data) :
                       Owner(api, Under(api, data), k) = request.asked
  <2>1. \A k \in DOMAIN Under(api, data) : Under(api, data)[k] = data[k]
    BY UnderPart
  <2>2. \A k \in DOMAIN Under(api, data) :
          Owner(api, data, k) = Owner(api, Under(api, data), k)
    BY <2>1 DEF Owner
  <2>. QED  BY <2>2 DEF OnlyAsked
<1>1. KeyOf \in {Denied, Exactly(request)}
  BY HttpKeyWhole, RpcKeyWhole DEF Keyed, KeyOf
<1>2. key = [name |-> request.asked, whole |-> TRUE]
  BY <1>1 DEF Keyed, Readable, Exactly
<1>3. request.asked \in Names
  BY ApisAssumption DEF Keyed
<1>. QED  BY <1>2, <1>3, UnderWhole

-----------------------------------------------------------------------------
(* The invariant. *)

LEMMA InitInv == Init => IInv
<1>. SUFFICES ASSUME Init PROVE IInv
  OBVIOUS
<1>1. /\ api \in APIs \union {"Appname"} /\ side \in {"http", "grpc"}
      /\ request \in Requests /\ key = Unset /\ data = <<>> /\ outcome = "asked"
  BY DEF Init
<1>2. OnlyAsked /\ WebUpstream
  BY <1>1 DEF OnlyAsked, WebUpstream, Readable
<1>. QED  BY <1>1, <1>2 DEF IInv

(* What Make was given and made, after a reading of the cache. *)
LEMMA RemakeInv ==
  ASSUME IInv, Readable, NEW order \in Orders(api, Under(api, data')),
         data' \in Samples[Kind(api)], Remake(order)
  PROVE  IInv'
<1>1. UNCHANGED <<api, side, request, key>>
  BY DEF Remake
<1>2. Under(api, data)' = Under(api, data')
  BY <1>1 DEF Under, Owner
<1>3. Readable' /\ KeyOf' = KeyOf
  BY <1>1 DEF Readable, KeyOf
<1>4. key # Unset /\ api \in APIs /\ key = KeyOf
  BY DEF IInv, Readable
<1>5. outcome' = "ok" =>
        /\ Outcome(side', api', Under(api, data)') = "ok"
        /\ \E o \in Orders(api', Under(api, data)') :
             instance' = Make(side', api', Under(api, data)', o)
  BY <1>1, <1>2 DEF Remake
<1>6. OnlyAsked'
  <2>1. Keyed'
    BY <1>1, <1>3, <1>4 DEF IInv, Keyed
  <2>. QED  BY <2>1, Asked, PTL
<1>7. WebUpstream'
  <2>1. api' # "Appname" /\ (outcome' = "ok" => Outcome(side', api', Under(api, data)') = "ok")
    BY <1>1, <1>4, <1>5 DEF IInv
  <2>2. Served'
    BY <1>1, <1>4, <2>1 DEF Served
  <2>. QED  BY <2>2, Routes, PTL
<1>. QED  BY <1>1, <1>3, <1>4, <1>5, <1>6, <1>7 DEF IInv

LEMMA StepInv == IInv /\ [Next]_vars => IInv'
<1>. SUFFICES ASSUME IInv, [Next]_vars PROVE IInv'
  OBVIOUS
<1>1. CASE Ask
  <2>1. /\ UNCHANGED <<api, side, request, data, instance, changed>>
        /\ outcome' # "ok" /\ api \in APIs /\ key' = KeyOf
    BY <1>1 DEF Ask, IInv, KeyOf
  <2>2. KeyOf' = KeyOf
    BY <2>1 DEF KeyOf
  <2>3. request' \in Requests /\ api' \in APIs /\ api' # "Appname"
    BY <1>1, <2>1 DEF IInv, Ask
  <2>4. data' # <<>> => data' \in Samples[Kind(api')]
    BY <2>1 DEF IInv
  <2>5. OnlyAsked'
    <3>1. Keyed'
      BY <2>1, <2>2, <2>3 DEF Keyed
    <3>. QED  BY <3>1, Asked, PTL
  <2>6. WebUpstream'
    BY <2>1 DEF WebUpstream
  <2>. QED  BY <2>1, <2>2, <2>3, <2>4, <2>5, <2>6 DEF IInv
<1>2. CASE Appname
  <2>1. UNCHANGED <<api, side, request, key, data>> /\ api = "Appname"
    BY <1>2 DEF Appname
  <2>2. key = Unset
    BY <2>1 DEF IInv
  <2>3. OnlyAsked' /\ WebUpstream'
    BY <2>1, <2>2 DEF OnlyAsked, WebUpstream, Readable
  <2>. QED  BY <2>1, <2>2, <2>3 DEF IInv
<1>3. CASE First
  BY <1>3, RemakeInv DEF First
<1>4. CASE Event
  BY <1>4, RemakeInv DEF Event
<1>5. CASE UNCHANGED vars
  <2>1. UNCHANGED <<api, side, request, key, data, outcome, instance>>
    BY <1>5 DEF vars
  <2>2. Under(api, data)' = Under(api, data) /\ KeyOf' = KeyOf /\ Readable' = Readable
    BY <2>1 DEF Under, Owner, KeyOf, Readable
  <2>3. OnlyAsked' /\ WebUpstream'
    BY <2>1, <2>2 DEF IInv, OnlyAsked, WebUpstream, Owner
  <2>. QED  BY <2>1, <2>2, <2>3 DEF IInv
<1>. QED  BY <1>1, <1>2, <1>3, <1>4, <1>5 DEF Next

-----------------------------------------------------------------------------
(* What a request was answered is made of the data under the key of its    *)
(* API, side and parameters, in one of the orders of the map (handleGet,   *)
(* handleWatch, Get and Watch of the endpoints).                           *)
THEOREM Invariant == Spec => []IInv
<1>1. Init => IInv
  BY InitInv
<1>2. IInv /\ [Next]_vars => IInv'
  BY StepInv
<1>. QED  BY <1>1, <1>2, PTL DEF Spec

(* A request for one name is answered with nothing of another, whatever    *)
(* names begin alike and whatever the tables of auth hold (fixPrefix,      *)
(* cacher.go 66-81).                                                       *)
THEOREM NamedOnly == Spec => []OnlyAsked
<1>1. IInv => OnlyAsked
  BY DEF IInv
<1>. QED  BY <1>1, Invariant, PTL

(* Neither router is answered with nowhere to route to: however many pods  *)
(* are gone, some address is in what the web router reads, and in the      *)
(* sorted lists the stream router is given (webrouter_webprocs.go 71-91,   *)
(* streamrouter_streamprocs.go 83-110).                                    *)
THEOREM RoutersRoute == Spec => []HasUpstream
<1>1. IInv => HasUpstream
  BY Streams DEF IInv, HasUpstream
<1>. QED  BY <1>1, Invariant, PTL

(* Nor is either answered with more dead pods than live ones: what Make    *)
(* counts over the map is what the router is given, though the stream      *)
(* router's pods are sorted twice on the way (webrouter_webprocs.go 71-91, *)
(* streamrouter_streamprocs.go 83-110).                                    *)
THEOREM RoutersHalf == Spec => []HalfAlive
<1>1. IInv => HalfAlive
  BY Half
<1>. QED  BY <1>1, Invariant, PTL

(* An event that left the data under the key as it was wakes no client,    *)
(* although every Make ranges over the map in an order of its own and may  *)
(* list what has the same port in any order (maker.go:33, the sorts of     *)
(* streamrouter_streamprocs.go and streamrouter_ports.go).                 *)
THEOREM Silent == Spec => SilentWhenUnchanged
<1>1. IInv /\ [Next]_vars =>
        [(/\ Event /\ outcome' = "ok"
          /\ Under(api, data') = Under(api, data)
          /\ api \notin {"Podgroup", "Containers"}) => ~changed']_vars
  BY EventSilent
<1>. QED  BY <1>1, Invariant, PTL DEF Spec, SilentWhenUnchanged
=============================================================================
