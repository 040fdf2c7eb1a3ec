------------------------------ MODULE Watcher ------------------------------
(***************************************************************************)
(* BaseWatcher (watcher/watcher.go): one goroutine per watched root that   *)
(* fills a cache with a read of the whole tree, then follows the channel   *)
(* of Etcd.Watch, and tells the receivers which keys changed.              *)
(*                                                                         *)
(* Keys of the cache are the leaves: ckey2skey is a bijection between them *)
(* for config, podgroup, depends and nodes.  A value of the cache is the   *)
(* converted value, so the unreadable value Bad never gets there.          *)
(***************************************************************************)
EXTENDS Etcd, FiniteSets

CONSTANTS
  Bad,       \* a stored value that convert cannot decode
  Strict,    \* TRUE: one Bad pair fails the whole convert (podgroup, depends)
             \* FALSE: convert skips it (nodes), or nothing is Bad (config)
  Matches    \* Matches[p]: the leaves whose name has the string p as a prefix

ASSUME WatcherAssumption ==
  /\ Strict \in BOOLEAN
  /\ Bad # Absent
  /\ Matches \in [Paths -> SUBSET Leaves]
  /\ \A p \in Paths : Below[p] \subseteq Matches[p]
  /\ \A p \in Paths : \A k \in Matches[p] : Matches[k] \subseteq Matches[p]

VARIABLES
  pc,        \* where watchStore stands
  bar,       \* its local broadcastAfterRefresh
  lastIndex, \* its local lastIndex
  changed,   \* its local keys: what the next Broadcast announces
  cache,     \* Cacher.data, Absent for a key that is not in the map
  \* History of the run, which the code does not keep:
  readAt,    \* the index of the store the last GetTree read
  base,      \* the stream delivers every event after this index
  pos,       \* the last event the loop took from the stream
  told       \* the value of each key when a Broadcast last announced it

loopVars == <<pc, bar, lastIndex, changed>>
histVars == <<readAt, base, pos, told>>
vars == <<storeVars, streamVars, loopVars, cache, histVars>>

Cached == [Leaves -> (Vals \ {Bad}) \union {Absent}]

TypeOK ==
  /\ kv \in Contents
  /\ log \in Seq(Event)
  /\ st \in {"none", "open", "failed"}
  /\ waitIdx \in Nat /\ reg \in Nat /\ held \in Nat
  /\ lastIndex \in Nat /\ readAt \in Nat /\ base \in Nat /\ pos \in Nat
  /\ pc \in {"refresh", "broadcast", "open", "select"}
  /\ bar \in BOOLEAN
  /\ changed \subseteq Leaves
  /\ cache \in Cached
  /\ told \in Cached

(* Go's zero values; New starts watchStore on an empty cache. *)
Init ==
  /\ kv = [k \in Leaves |-> Absent]
  /\ log = <<>>
  /\ st = "none" /\ waitIdx = 0 /\ reg = 0 /\ held = 0
  /\ pc = "refresh" /\ bar = FALSE /\ lastIndex = 0 /\ changed = {}
  /\ cache = [k \in Leaves |-> Absent]
  /\ readAt = 0 /\ base = 0 /\ pos = 0
  /\ told = [k \in Leaves |-> Absent]

-----------------------------------------------------------------------------
(* The converted form of what a leaf of the store holds. *)
Decode(v) == IF v = Bad THEN Absent ELSE v

(* refresh: GetTree, convert, Reset.  It is retried after three seconds    *)
(* until GetTree answers and convert accepts every pair.  GetTree and the  *)
(* Reset are one step: nothing else writes the cache, and the stream that  *)
(* could have advanced between them is not open.                           *)
ConvertAccepts == Strict => \A k \in Leaves : kv[k] # Bad

\* Slip: the new data is added to the old.
ResetMerges ==
  /\ cache' = [k \in Leaves |-> IF Decode(kv[k]) = Absent THEN cache[k]
                                                         ELSE Decode(kv[k])]
  /\ readAt' = Rev
  /\ base' = Rev
  /\ pos' = Rev

Reset ==
  /\ cache' = [k \in Leaves |-> Decode(kv[k])]
  /\ readAt' = Rev
  /\ base' = Rev
  /\ pos' = Rev

(* GetTree or convert fails: nothing changes, and the loop sleeps. *)
RefreshFails ==
  /\ pc = "refresh"
  /\ UNCHANGED vars

(* GetAllKeys of the cache that is given. *)
KeysOf(c) == {k \in Leaves : c[k] # Absent}

RefreshFirst ==
  /\ pc = "refresh" /\ ~bar
  /\ ConvertAccepts
  /\ Reset
  /\ told' = cache'
  /\ pc' = "open"
  /\ UNCHANGED <<storeVars, streamVars, bar, lastIndex, changed>>

\* Slip: nobody is told of the new data.
RefreshAgainSilent ==
  /\ pc = "refresh" /\ bar
  /\ ConvertAccepts
  /\ Reset
  /\ changed' = {}
  /\ pc' = "broadcast"
  /\ UNCHANGED <<storeVars, streamVars, bar, lastIndex, told>>

RefreshAgain ==
  /\ pc = "refresh" /\ bar
  /\ ConvertAccepts
  /\ Reset
  /\ changed' = KeysOf(cache')
  /\ pc' = "broadcast"
  /\ UNCHANGED <<storeVars, streamVars, bar, lastIndex, told>>

(* Store.Watch with what the loop remembers; it never fails. *)
OpenWatch ==
  /\ pc = "open"
  /\ OpenStream(lastIndex)
  /\ base' = lastIndex
  /\ pos' = lastIndex
  /\ pc' = "select"
  /\ UNCHANGED <<storeVars, bar, lastIndex, changed, cache, readAt, told>>

Receiving == pc = "select" /\ held > 0

(* The goroutine's send completes: the loop has event number held. *)
Receive ==
  /\ Receiving
  /\ held' = 0
  /\ pos' = held
  /\ UNCHANGED <<storeVars, st, waitIdx, reg, bar, readAt, base, told>>

\* Slip: the error of convert is not looked at.
HandleSetUnchecked ==
  /\ Receive
  /\ LET e == log[held] IN
       /\ e.act = "set"
       /\ cache' = [cache EXCEPT ![e.key] = e.val]
       /\ changed' = {e.key}
  /\ lastIndex' = held
  /\ pc' = "broadcast"

\* Slip: the key is not noted for the broadcast.
HandleSetUnnoted ==
  /\ Receive
  /\ LET e == log[held] IN
       /\ e.act = "set" /\ e.val # Bad
       /\ cache' = [cache EXCEPT ![e.key] = e.val]
  /\ lastIndex' = held
  /\ pc' = "broadcast"
  /\ UNCHANGED changed

(* SET, UPDATE: convert the pair and Put it. *)
HandleSet ==
  /\ Receive
  /\ LET e == log[held] IN
       /\ e.act = "set" /\ e.val # Bad
       /\ cache' = [cache EXCEPT ![e.key] = e.val]
       /\ changed' = {e.key}
  /\ lastIndex' = held
  /\ pc' = "broadcast"

(* convert fails, and the loop goes on without recording the index. *)
HandleUnreadable ==
  /\ Receive
  /\ Strict /\ log[held].act = "set" /\ log[held].val = Bad
  /\ UNCHANGED <<loopVars, cache>>

(* convert skips the pair, and an empty list of keys is broadcast. *)
HandleSkipped ==
  /\ Receive
  /\ ~Strict /\ log[held].act = "set" /\ log[held].val = Bad
  /\ changed' = {}
  /\ lastIndex' = held
  /\ pc' = "broadcast"
  /\ UNCHANGED cache

\* Slip: only the deleted key itself, not what was below it.
ConcernedExactly(p) == KeysOf(cache) \intersect {p}

(* The cached keys a DELETE of p is taken to concern. *)
Concerned(p) == {k \in KeysOf(cache) : k \in Matches[p]}

(* DELETE: Cacher.Delete removes every key that starts with a concerned one. *)
HandleDelete ==
  /\ Receive
  /\ LET e == log[held] IN
       /\ e.act = "delete"
       /\ cache' = [k \in Leaves |->
                      IF \E c \in Concerned(e.key) : k \in Matches[c]
                      THEN Absent ELSE cache[k]]
       /\ changed' = Concerned(e.key)
  /\ lastIndex' = held
  /\ pc' = "broadcast"

\* Slip: the index is lost with the session.
HandleClosedFromZero ==
  /\ pc = "select" /\ st = "failed"
  /\ st' = "none"
  /\ pc' = "refresh"
  /\ bar' = TRUE
  /\ lastIndex' = 0
  /\ UNCHANGED <<storeVars, waitIdx, reg, held, changed, cache, histVars>>

\* Slip: watch again without a new read of the tree.
HandleClosedUnread ==
  /\ pc = "select" /\ st = "failed"
  /\ st' = "none"
  /\ pc' = "open"
  /\ UNCHANGED <<storeVars, waitIdx, reg, held, bar, lastIndex, changed, cache,
                 histVars>>

(* The ERROR event, which the loop ignores, and then the closed channel:   *)
(* the loop sleeps three seconds and starts again with a broadcast owed.   *)
HandleClosed ==
  /\ pc = "select" /\ st = "failed"
  /\ st' = "none"
  /\ pc' = "refresh"
  /\ bar' = TRUE
  /\ UNCHANGED <<storeVars, waitIdx, reg, held, lastIndex, changed, cache,
                 histVars>>

\* Slip: the broadcast stays owed.
BroadcastOwed ==
  /\ pc = "broadcast"
  /\ told' = [k \in Leaves |-> IF k \in changed THEN cache[k] ELSE told[k]]
  /\ changed' = {}
  /\ pc' = IF bar THEN "open" ELSE "select"
  /\ UNCHANGED <<storeVars, streamVars, bar, lastIndex, cache, readAt, base,
                 pos>>

(* Broadcast(keys): every receiver of one of them is given the cache. *)
Broadcast ==
  /\ pc = "broadcast"
  /\ told' = [k \in Leaves |-> IF k \in changed THEN cache[k] ELSE told[k]]
  /\ changed' = {}
  /\ bar' = FALSE
  /\ pc' = IF bar THEN "open" ELSE "select"
  /\ UNCHANGED <<storeVars, streamVars, lastIndex, cache, readAt, base, pos>>

-----------------------------------------------------------------------------
(* The steps of the store and of the stream leave the loop alone. *)

Clients ==
  /\ \/ \E k \in Leaves, v \in Vals : EtcdSet(k, v)
     \/ \E p \in Paths : EtcdDelete(p)
     \/ EtcdOther
  /\ UNCHANGED <<streamVars, loopVars, cache, histVars>>

(* From here on the stream delivers what etcd does next. *)
Register ==
  /\ PollFromNow
  /\ base' = Rev
  /\ pos' = Rev
  /\ UNCHANGED <<storeVars, loopVars, cache, readAt, told>>

Stream(Step) == Step /\ UNCHANGED <<storeVars, loopVars, cache, histVars>>

Transport ==
  \/ Stream(PollFromIndex)
  \/ Stream(PollOutdated)
  \/ Stream(Fetch)

Trouble == Stream(PollMoves) \/ Stream(PollFails)

Loop ==
  \/ RefreshFirst \/ RefreshAgain \/ OpenWatch
  \/ HandleSet \/ HandleUnreadable \/ HandleSkipped \/ HandleDelete
  \/ HandleClosed \/ Broadcast

Next == Clients \/ Register \/ Transport \/ Trouble \/ RefreshFails \/ Loop

(* The goroutines run and etcd answers; nobody has to change the store,    *)
(* and no poll has to fail.                                                *)
Fairness ==
  /\ WF_vars(Register)
  /\ WF_vars(Transport)
  /\ WF_vars(Loop)

Spec == Init /\ [][Next]_vars

LiveSpec == Spec /\ Fairness

-----------------------------------------------------------------------------
(* What the cache promises. *)

(* Event e changes what the cache holds for k. *)
Affects(e, k) == \/ e.act = "set" /\ e.key = k /\ e.val # Bad
                 \/ e.act = "delete" /\ k \in Matches[e.key]

(* Nothing after event i concerns k, in the store or in the cache. *)
QuietAfter(i, k) == \A j \in 1..Rev : j > i => /\ ~Touches(log[j], k)
                                               /\ ~Affects(log[j], k)

(* The stream did not start too late to see a change of k. *)
Gapless(k) == \A j \in 1..Rev : readAt < j /\ j <= base => ~Touches(log[j], k)

(* The last change of k is one the stream delivers, at or before event n, *)
(* and that the loop can apply.                                           *)
LastChangeBy(n, k) ==
  \E i \in 1..Rev : /\ base < i /\ i <= n
                    /\ Touches(log[i], k) /\ Affects(log[i], k)
                    /\ QuietAfter(i, k)

(* Nothing happened to k since the stream began, nor in a gap before it. *)
Untouched(k) == Gapless(k) /\ QuietAfter(base, k)

(* Whatever the interleaving of modifications, refreshes, lost polls and   *)
(* replays (watchStore 89-173, Etcd.Watch 172-205): once the loop took the *)
(* last change of a key, or if nothing changed the key since the tree was  *)
(* read, the cache holds what the store holds.                             *)
Coherent ==
  \A k \in Leaves :
    LastChangeBy(pos, k) \/ Untouched(k) => cache[k] = Decode(kv[k])

(* Within a session no event below the root is skipped: between the last   *)
(* event the loop took and the one being sent, or the index the poll is    *)
(* held at, there are only changes made elsewhere (Etcd.Watch 181-200).    *)
NothingSkipped ==
  /\ held > 0 => /\ pos < held /\ held <= Rev
                 /\ \A j \in 1..Rev : pos < j /\ j < held => log[j].act = "other"
  /\ reg > 0 => \A j \in 1..Rev : pos < j /\ j < reg => log[j].act = "other"

(* A receiver of one key, given only what the broadcasts announced, has    *)
(* the cached value whenever the loop waits for an event, except for a key *)
(* that is no longer cached (watchStore 111-115, 142-168).                 *)
ToldOrGone == pc = "select" => \A k \in Leaves : cache[k] \in {told[k], Absent}

(* The index a new session resumes from never goes back, although events   *)
(* are replayed and some are consumed without being recorded (123-168).    *)
LastIndexMonotone == [][lastIndex' >= lastIndex]_vars

(* From some point on polls fail only for an index that left the window.   *)
Steady == <>[][Trouble => Stream(PollOutdated)]_vars

(* When etcd answers every poll from some point on, if only to say that    *)
(* the index is outdated, and every pair can be read if all must be, the   *)
(* loop ends with the store's value of every key whose last change the     *)
(* stream delivers or can no longer deliver (watchStore 89-173).           *)
EventuallyFresh ==
  Steady /\ <>[]ConvertAccepts =>
    \A k \in Leaves : <>[](LastChangeBy(Rev, k) => cache[k] = Decode(kv[k]))

-----------------------------------------------------------------------------
(* Why these hold: the inductive invariant. *)

(* Between a read of the tree and the session that follows it. *)
JustRead == pc = "open" \/ (pc = "broadcast" /\ bar)

LoopInv ==
  /\ pc = "refresh" \/ JustRead => st = "none"
  /\ JustRead => base = pos
  /\ pc = "refresh" /\ ~bar => lastIndex = 0
  /\ pc # "broadcast" => changed = {}
  /\ pc \in {"open", "select"} => ~bar

(* Where the stream is, against what the loop took from it. *)
StreamInv ==
  /\ lastIndex <= pos /\ base <= pos /\ pos <= Rev /\ readAt <= Rev
  /\ st # "open" => held = 0 /\ reg = 0
  /\ held > 0 => waitIdx = held + 1 /\ reg = 0 /\ log[held].act # "other"
  /\ st = "open" /\ held = 0 /\ waitIdx > 0 => waitIdx = pos + 1
  /\ st = "open" /\ waitIdx = 0 => base = pos
  /\ reg > 0 => reg = pos + 1

(* A leaf holds what the last event that touched it says. *)
StoreInv ==
  \A k \in Leaves : \A i \in 1..Rev :
    Touches(log[i], k) /\ (\A j \in 1..Rev : j > i => ~Touches(log[j], k))
      => kv[k] = log[i].val

(* As long as the stream delivered nothing, the cache is what was read. *)
ReadInv ==
  base = pos =>
    \A k \in Leaves :
      (\A j \in 1..Rev : j > readAt => ~Touches(log[j], k))
        => cache[k] = Decode(kv[k])

(* Outside the pending announcement, receivers know the cached values. *)
ToldInv == \A k \in Leaves : k \notin changed => cache[k] \in {told[k], Absent}

IInv == /\ TypeOK /\ LoopInv /\ StreamInv /\ StoreInv /\ ReadInv /\ ToldInv
        /\ NothingSkipped /\ Coherent

-----------------------------------------------------------------------------
(* What the receivers of the broadcasts may rely on. *)

ModeOf == CASE pc = "refresh" /\ ~bar -> "loading"
            [] pc = "broadcast"       -> "announcing"
            [] OTHER                  -> "idle"

Src == INSTANCE Source WITH
         Keys <- Leaves, Values <- Vals \ {Bad}, mode <- ModeOf,
         pending <- changed

(* Every step of the watcher is a step of Source or leaves the cache and   *)
(* the announcements alone (watchStore 89-173).                            *)
ImplementsSource == Src!SourceSpec

-----------------------------------------------------------------------------
(* What the comments say and the code does not do. *)

(* watcher.go:190 "Get function get the newest data": with the store left  *)
(* alone, the cache ends up equal to it.  A change between the first       *)
(* GetTree and the first poll, which asks for changes from now on, is lost *)
(* until another event of that key (watchStore 108-118 with lastIndex 0).  *)
NewestData ==
  Steady => \A k \in Leaves : <>[](cache[k] = Decode(kv[k]))

(* watcher.go:156 a DELETE removes the cached data "affected by this Key". *)
(* The test is on the prefix of a string, so that deleting one key removes *)
(* from the cache the keys whose names begin with its name (154-162).      *)
DeletesOnlyDeleted ==
  [][HandleDelete => \A k \in Leaves :
       cache'[k] # cache[k] => Touches(log[held], k)]_vars

(* sender.go:38 Broadcast is told "the changed keys in cache".  After a    *)
(* reconnection it is told the keys that are there, never those the        *)
(* refresh took away (watchStore 108-115).                                 *)
EveryChangeTold == pc = "select" => told = cache
=============================================================================
