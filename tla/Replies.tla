------------------------------ MODULE Replies ------------------------------
(***************************************************************************)
(* The gRPC endpoints' keys and replies (getKey and the first part of make *)
(* in endpoints).  A reply message wraps the content of the HTTP API in    *)
(* its field Data, but for StreamrouterStreamprocs and Nodes.              *)
(***************************************************************************)
EXTENDS Contents, Access

CONSTANT Maps   \* the values of a node that are maps; the others are strings

PodgroupReply(data, order) ==
  [Data |-> Each(GeneralPodGroup(data, order), LAMBDA pods : [Pods |-> pods])]

AppsReply(data) == [Data |-> AppsData(data)]

CoreinfoReply(data) == [Data |-> GeneralCoreInfo(data)]

RebellionLocalprocsReply(data) == [Data |-> RebellionAPIProvider(data)]

StreamrouterPortsReply(data, order) == [Data |-> Ports(data, order)]

WebrouterWebprocsReply(data) == [Data |-> WebrouterInfo(data)]

ProxyReply(data) == [Data |-> ProxyData(data)]

BackupctlReply(data) ==
  [Data |-> [k \in DOMAIN data |-> [Pods |-> CoreInfoForBackupctl(data)[k]]]]

ConfigReply(data) == [Data |-> GeneralConfig(data)]

(* A value is a string, or a map that is lost: decoding JSON gives no      *)
(* map[string]string, so that neither test of its type succeeds.           *)
NodesReply(data) ==
  [Data |-> [k \in DOMAIN data |-> [V |-> [n \in DOMAIN data[k] |->
     IF data[k][n] \in Maps THEN Gone
     ELSE [Vtype |-> "STRING", Sval |-> data[k][n]]]]]]

DependsReply(data) ==
  [Data |-> [k \in DOMAIN data |-> [Nodes |-> [n \in DOMAIN data[k] |->
     [Apps |-> Depends(data)[k][n]]]]]]

ContainersReply(data) == [Data |-> GeneralContainers(data)]

LocalspecReply(data, order) == [Data |-> LocalSpec(data, order)]

(* The list of an app is appended to through a nil pointer, the first time *)
(* a group with ports is met.                                              *)
StreamprocsPanics(data) == StreamGroups(data) # {}

(* What is left to reply when no group has ports. *)
StreamrouterStreamprocsReply == [Data |-> <<>>]

(* A map with a nil message cannot be marshalled. *)
NodesUnsendable(data) ==
  \E k \in DOMAIN data : \E n \in DOMAIN data[k] :
    NodesReply(data).Data[k].V[n] = Gone

-----------------------------------------------------------------------------
(* getKey. *)

PodgroupGetKey(r) ==
  IF r.asked # Unset /\ Pass(r, r.asked) THEN fixPrefix(r.asked) ELSE Denied

AppsGetKey(r) == IF IsSuper(r) THEN Star ELSE Denied

CoreinfoGetKey(r) == OwnAppKey(r)

RebellionLocalprocsGetKey(r) == OwnAppKey(r)

StreamrouterStreamprocsGetKey(r) == OwnAppKey(r)

StreamrouterPortsGetKey(r) == OwnAppKey(r)

WebrouterWebprocsGetKey(r) == OwnAppKey(r)

ProxyGetKey(r) == OwnAppKey(r)

BackupctlGetKey(r) ==
  IF IsSuper(r) THEN fixPrefix(Default(r.asked)) ELSE Denied

ContainersGetKey(r) ==
  IF IsSuper(r) THEN fixPrefix(Default(r.asked)) ELSE Denied

NodesGetKey(r) == IF IsSuper(r) THEN fixPrefix(Default(r.asked)) ELSE Denied

DependsGetKey(r) == IF IsSuper(r) THEN Name(Default(r.asked)) ELSE Denied

ConfigGetKey(r) ==
  LET target == Default(r.asked)
  IN  IF target \in Secret \union {Star} /\ ~IsSuper(r) THEN Denied
      ELSE Name(target)

(* The constructor drops the address it is given, and "" is no key. *)
LocalspecGetKey(r) ==
  IF IsSuper(r) /\ r.asked # Unset THEN [name |-> r.asked, whole |-> TRUE]
                                   ELSE Denied
=============================================================================
