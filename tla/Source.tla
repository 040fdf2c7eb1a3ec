------------------------------- MODULE Source -------------------------------
(***************************************************************************)
(* What a watcher promises the Sender it feeds, whatever happens to etcd:  *)
(* an event changes the cache key by key, the announcement that follows    *)
(* names every key that changed or, after a new read of the tree, every    *)
(* key that is there, and no change goes unannounced except those of the   *)
(* first read and the keys a new read no longer finds.                     *)
(*                                                                         *)
(* BaseWatcher (Watcher!ImplementsSource) and ContainerWatcher             *)
(* (Inverted!FeedsSender) implement it, and Sender is driven by it.        *)
(***************************************************************************)
CONSTANTS
  Keys,      \* the keys a cache may hold
  Values,    \* the values a cache may hold
  Absent     \* what a key that is not in the map reads as

ASSUME SourceAssumption == Absent \notin Values

VARIABLES
  cache,     \* Cacher.data
  mode,      \* "loading", "idle" or "announcing"
  pending    \* the keys the next Broadcast is called with

sourceVars == <<cache, mode, pending>>

Caches == [Keys -> Values \union {Absent}]

Present(c) == {k \in Keys : c[k] # Absent}

SourceTypeOK ==
  /\ cache \in Caches
  /\ mode \in {"loading", "idle", "announcing"}
  /\ pending \subseteq Keys

SourceInit ==
  /\ cache = [k \in Keys |-> Absent]
  /\ mode = "loading"
  /\ pending = {}

(* The first read of the tree, which is not broadcast. *)
Load(new) ==
  /\ mode = "loading"
  /\ cache' = new
  /\ mode' = "idle"
  /\ UNCHANGED pending

(* An event is taken, or goes on: Put or Delete some keys, or none yet,    *)
(* and announce at least those.                                            *)
Change(new, keys) ==
  /\ mode # "loading"
  /\ \A k \in Keys : new[k] # cache[k] => k \in keys
  /\ cache' = new
  /\ mode' = "announcing"
  /\ pending' = pending \union keys

(* A new read after the stream broke: Reset, and announce what is there. *)
Replace(new) ==
  /\ mode = "idle"
  /\ cache' = new
  /\ mode' = "announcing"
  /\ pending' = Present(new)

(* Broadcast returns. *)
Announce ==
  /\ mode = "announcing"
  /\ mode' = "idle"
  /\ pending' = {}
  /\ UNCHANGED cache

SourceNext ==
  \/ \E new \in Caches : \/ Load(new)
                         \/ Replace(new)
                         \/ \E keys \in SUBSET Keys : Change(new, keys)
  \/ Announce

SourceSpec == SourceInit /\ [][SourceNext]_sourceVars
=============================================================================
