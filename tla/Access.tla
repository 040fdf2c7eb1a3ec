------------------------------- MODULE Access -------------------------------
(***************************************************************************)
(* Who may read what (auth/auth.go), and the key each HTTP API reads       *)
(* (the Key functions of api/v2).                                          *)
(*                                                                         *)
(* Three watchers keep the tables of the package, and every lookup is a    *)
(* Get of its own: the tables may change between two lookups of one        *)
(* request.  A request r is a record of what it asked for and of what each *)
(* of its lookups found:                                                   *)
(*   asked         the app, name or target, Unset when there is none       *)
(*   local         it comes from this host                                 *)
(*   own, services what AppName's lookups found for its address: the app   *)
(*                 of the container there, and the services that run there *)
(*   supers        the names in the super apps configuration               *)
(*   depends       the services Pass found for its address                 *)
(*   ownLater, servicesLater  the lookups of a later call of AppName       *)
(***************************************************************************)
EXTENDS Sequences, FiniteSets

CONSTANTS
  Active,    \* authorisation is switched on
  Names,     \* names of apps, nodes and targets
  Unset,     \* a parameter that was not given
  Star,      \* "*"
  Denied,    \* Key returned an error
  Unknown,   \* an address that belongs to no container
  Longer,    \* Longer[s]: the names that begin with the name s
  Secret,    \* the targets that begin with the name of a secret
  LocalName  \* the address of this node

ASSUME AccessAssumption ==
  /\ Active \in BOOLEAN
  /\ {Unset, Star, Denied, Unknown} \intersect Names = {}
  /\ Secret \subseteq Names /\ LocalName \in Names
  /\ Longer \in [Names -> SUBSET Names]
  /\ \A n \in Names : n \in Longer[n]
  /\ \A n \in Names, w \in BOOLEAN :
       [name |-> n, whole |-> w] \notin {Unset, Star, Denied}

-----------------------------------------------------------------------------
(* auth.go. *)

AppNameOf(own, services) ==
  IF own # Unknown THEN own
  ELSE IF services # <<>> THEN services[1] ELSE Unknown

(* Get finds the exact name, or every name that begins with it. *)
isSuperApp(r, app) ==
  \/ ~Active
  \/ app \in r.supers
  \/ Cardinality(Longer[app] \intersect r.supers) = 1

IsSuper(r) ==
  \/ ~Active \/ r.local
  \/ r.own # Unknown /\ isSuperApp(r, r.own)

Pass(r, app) ==
  \/ ~Active \/ r.local
  \/ LET who == AppNameOf(r.own, r.services)
     IN  /\ who # Unknown
         /\ \/ who = app
            \/ isSuperApp(r, who)
            \/ \E i \in DOMAIN r.depends : r.depends[i] = app

(* The appname API: of the address asked for, which only super may ask.   *)
AppnameOf(r) ==
  IF IsSuper(r) THEN AppNameOf(r.ownLater, r.servicesLater) ELSE Denied

-----------------------------------------------------------------------------
(* A key is Star, or a string: a name, with its separator when it is whole. *)

Default(asked) == IF asked = Unset THEN Star ELSE asked

Name(n) == IF n = Star THEN Star ELSE [name |-> n, whole |-> FALSE]

\* Slip: the separator is forgotten.
fixPrefixNot(n) == IF n = Star THEN Star ELSE [name |-> n, whole |-> FALSE]

fixPrefix(n) == IF n = Star THEN Star ELSE [name |-> n, whole |-> TRUE]

(* An app, or everything for those who may, or the app of the request. *)
OwnAppKey(r) ==
  LET app == Default(r.asked)
      who == AppNameOf(r.ownLater, r.servicesLater)
  IN  IF Pass(r, app) THEN fixPrefix(app)
      ELSE IF app = Star /\ who # Unknown THEN fixPrefix(who)
      ELSE Denied

GeneralPodGroupKey(r) ==
  IF r.asked # Unset /\ Pass(r, r.asked) THEN fixPrefix(r.asked) ELSE Denied

AppsDataKey(r) == IF IsSuper(r) THEN Star ELSE Denied

GeneralCoreInfoKey(r) == OwnAppKey(r)

RebellionAPIProviderKey(r) == OwnAppKey(r)

StreamRouterInfoKey(r) == OwnAppKey(r)

PortsKey(r) == OwnAppKey(r)

WebrouterInfoKey(r) == OwnAppKey(r)

ProxyDataKey(r) == OwnAppKey(r)

CoreInfoForBackupctlKey(r) ==
  IF IsSuper(r) THEN fixPrefix(Default(r.asked)) ELSE Denied

GeneralContainersKey(r) ==
  IF IsSuper(r) THEN fixPrefix(Default(r.asked)) ELSE Denied

GeneralNodesKey(r) ==
  IF IsSuper(r) THEN fixPrefix(Default(r.asked)) ELSE Denied

DependsKey(r) == IF IsSuper(r) THEN Name(Default(r.asked)) ELSE Denied

GeneralConfigKey(r) ==
  LET target == Default(r.asked)
  IN  IF target \in Secret \union {Star} /\ ~IsSuper(r) THEN Denied
      ELSE Name(target)

\* "*" is no different here.
LocalSpecKey(r) ==
  IF ~IsSuper(r) THEN Denied
  ELSE [name |-> IF r.asked = Unset THEN LocalName ELSE r.asked, whole |-> TRUE]
=============================================================================
