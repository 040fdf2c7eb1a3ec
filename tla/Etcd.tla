-------------------------------- MODULE Etcd --------------------------------
(***************************************************************************)
(* The etcd v2 key space below the root of one watcher (external, modelled *)
(* from how store/etcd/etcd.go uses it) and the goroutine started by       *)
(* Etcd.Watch, which turns etcd's long polls into a channel of events.     *)
(*                                                                         *)
(* A leaf holds a value, a directory only other paths.  Every modification *)
(* gets the next index: event number i of the log has ModifiedIndex i.     *)
(* Modifications elsewhere in etcd use up indices too.                     *)
(***************************************************************************)
EXTENDS Integers, Sequences

CONSTANTS
  Leaves,    \* the keys below the watched root that can hold a value
  Dirs,      \* the directories below the root, and the root itself
  Vals,      \* the values a client of etcd may store
  Absent,    \* what a leaf reads as when it is not there
  Below,     \* Below[p]: the leaves etcd removes when p is deleted
  MaxRev,    \* bound: the number of modifications in a behaviour
  Window     \* the number of recent events etcd can still replay

Paths == Leaves \union Dirs

ASSUME EtcdAssumption ==
  /\ Leaves \intersect Dirs = {}
  /\ Absent \notin Vals
  /\ Below \in [Paths -> SUBSET Leaves]
  /\ \A k \in Leaves : Below[k] = {k}
  /\ MaxRev \in Nat
  /\ Window \in Nat \ {0}

VARIABLES
  kv,        \* the current value of every leaf
  log,       \* every modification so far
  st,        \* the state of the channel: "none", "open" or "failed"
  waitIdx,   \* the index the next long poll asks for, 0 meaning "from now"
  reg,       \* the index etcd holds the poll at, 0 before the poll arrives
  held       \* the event the goroutine is sending on the channel, 0 for none

storeVars == <<kv, log>>
streamVars == <<st, waitIdx, reg, held>>

Contents == [Leaves -> Vals \union {Absent}]

\* actionMap folds etcd's seven actions into these; "other" is a change
\* outside the watched root, which only moves the index.
Event == [act : {"set"}, key : Leaves, val : Vals]
         \union [act : {"delete"}, key : Paths, val : {Absent}]
         \union [act : {"other"}, key : {Absent}, val : {Absent}]

Rev == Len(log)

(* Event e changed the leaf k of the store. *)
Touches(e, k) == /\ e.act # "other"
                 /\ k \in Below[e.key]

-----------------------------------------------------------------------------
(* etcd's clients. *)

EtcdSet(k, v) ==
  /\ Rev < MaxRev
  /\ kv' = [kv EXCEPT ![k] = v]
  /\ log' = Append(log, [act |-> "set", key |-> k, val |-> v])

EtcdDelete(p) ==
  /\ Rev < MaxRev
  /\ \E k \in Below[p] : kv[k] # Absent
  /\ kv' = [k \in Leaves |-> IF k \in Below[p] THEN Absent ELSE kv[k]]
  /\ log' = Append(log, [act |-> "delete", key |-> p, val |-> Absent])

EtcdOther ==
  /\ Rev < MaxRev
  /\ log' = Append(log, [act |-> "other", key |-> Absent, val |-> Absent])
  /\ UNCHANGED kv

-----------------------------------------------------------------------------
(* The goroutine of Etcd.Watch. *)

\* Slip: the client adds one to AfterIndex, and so does the caller.
OpenStreamPast(index) ==
  /\ st' = "open"
  /\ waitIdx' = IF index = 0 THEN 0 ELSE index + 2
  /\ reg' = 0
  /\ held' = 0

(* Etcd.Watch(key, ctx, true, index): AfterIndex 0 asks for "from now". *)
OpenStream(index) ==
  /\ st' = "open"
  /\ waitIdx' = IF index = 0 THEN 0 ELSE index + 1
  /\ reg' = 0
  /\ held' = 0

Polling == st = "open" /\ held = 0

(* A poll without an index reaches etcd and is held from the next index. *)
PollFromNow ==
  /\ Polling /\ reg = 0 /\ waitIdx = 0
  /\ reg' = Rev + 1
  /\ UNCHANGED <<st, waitIdx, held>>

(* A poll with an index etcd still remembers is held at that index. *)
PollFromIndex ==
  /\ Polling /\ reg = 0 /\ waitIdx > 0
  /\ waitIdx + Window > Rev
  /\ reg' = waitIdx
  /\ UNCHANGED <<st, waitIdx, held>>

(* The index left etcd's event window: Next returns an error. *)
PollOutdated ==
  /\ Polling /\ reg = 0 /\ waitIdx > 0
  /\ waitIdx + Window <= Rev
  /\ st' = "failed"
  /\ UNCHANGED <<waitIdx, reg, held>>

(* One endpoint drops the poll and the client sends it to the next one. *)
PollMoves ==
  /\ Polling /\ reg > 0
  /\ reg' = 0
  /\ UNCHANGED <<st, waitIdx, held>>

(* Next returns the first event at or after the index the poll is held at. *)
Fetch ==
  /\ Polling /\ reg > 0
  /\ \E i \in reg .. Rev :
        /\ log[i].act # "other"
        /\ \A j \in reg .. i - 1 : log[j].act = "other"
        /\ held' = i
        /\ waitIdx' = i + 1
  /\ reg' = 0
  /\ UNCHANGED st

(* Next returns an error: the goroutine sends it and closes the channel. *)
PollFails ==
  /\ Polling
  /\ st' = "failed"
  /\ reg' = 0
  /\ UNCHANGED <<waitIdx, held>>
=============================================================================
