------------------------------- MODULE MCApis -------------------------------
(* Two apps, one of whose names begins with the other's, with groups that  *)
(* are served, route streams, are dead or mostly dead, have a pod without  *)
(* containers or more containers than specifications.                      *)
EXTENDS Apis

CONSTANTS vip, vips, here, there, noIp

MCLonger == [n \in {vip, vips} |-> IF n = vip THEN {vip, vips} ELSE {vips}]

Box(id, addr, node) ==
  [id |-> id, ip |-> addr, port |-> 80, node |-> node, proc |-> "web"]

Group(app, web, ports, pods) ==
  [app |-> app, web |-> web, note |-> "note", ports |-> ports,
   version |-> "1", specs |-> <<[expose |-> 80, rest |-> "image"]>>,
   deps |-> <<"dep">>, pods |-> pods]

PodAt(no, boxes) == [no |-> no, containers |-> boxes]

TwoPorts == <<[src |-> 9, dst |-> 80], [src |-> 8, dst |-> 81]>>

Live(app) == Group(app, TRUE, <<>>, <<PodAt(1, <<Box(1, "ip1", here)>>)>>)
Routed(app) ==
  Group(app, FALSE, TwoPorts, <<PodAt(2, <<Box(2, "ip2", there)>>),
                                PodAt(1, <<Box(3, noIp, here)>>)>>)
DeadWeb == Group(vip, TRUE, <<>>, <<PodAt(1, <<Box(4, noIp, there)>>)>>)
Bare == Group(vip, FALSE, TwoPorts, <<PodAt(1, <<>>)>>)
Wide == Group(vips, TRUE, <<>>,
              <<PodAt(1, <<Box(5, "ip5", here), Box(6, "ip6", here)>>)>>)
Dying ==
  Group(vip, TRUE, TwoPorts, <<PodAt(1, <<Box(7, noIp, here)>>),
                               PodAt(2, <<Box(8, noIp, there)>>),
                               PodAt(3, <<Box(9, "ip9", there)>>)>>)

Groups == {Live(vip), Live(vips), Routed(vip), DeadWeb, Dying, Bare, Wide}

Info(proc) == [app |-> vip, proc |-> proc]

MCSamples ==
  [podgroup  |-> UNION {[S -> Groups] : S \in SUBSET {1, 2}},
   container |-> UNION {[S -> {Info("web"), Info("worker"), Gone}] :
                          S \in SUBSET {<<vip, 1>>, <<vips, 2>>}},
   config    |-> UNION {[S -> {"a", "b"}] : S \in SUBSET {<<vip>>, <<vips>>}},
   nodes     |-> UNION {[S -> {[n \in {"cpu"} |-> v] : v \in {"a", "b"} \union Maps}] :
                          S \in SUBSET {<<vip, 1>>, <<vips, 2>>}},
   depends   |-> UNION {[S -> {[n \in {here} |-> [a \in {vip} |->
                           [note |-> x, containers |-> <<Box(1, "ip1", here)>>]]] :
                             x \in {"a", "b"}}] : S \in SUBSET {<<vip>>, <<vips>>}}]

Asks(asked, local, own, services, supers, depends) ==
  [asked |-> asked, local |-> local, own |-> own, services |-> services,
   supers |-> supers, depends |-> depends, ownLater |-> own,
   servicesLater |-> services]

MCRequests ==
  {Asks(x, TRUE, Unknown, <<>>, {}, <<>>) : x \in {Unset, Star, vip}}
  \union {Asks(x, FALSE, vip, <<>>, {}, <<>>) : x \in {Unset, vip, vips}}
  \union {Asks(vips, FALSE, vip, <<>>, {}, <<vips>>),
          Asks(Unset, FALSE, Unknown, <<vips>>, {}, <<vips>>),
          [Asks(Unset, FALSE, vip, <<>>, {}, <<>>) EXCEPT !.ownLater = vips],
          Asks(vip, FALSE, vips, <<>>, {vips}, <<>>),
          Asks(Unset, FALSE, Unknown, <<>>, {}, <<>>)}
=============================================================================
