------------------------------ MODULE Inverted ------------------------------
(***************************************************************************)
(* Watchers whose cached keys are made from what the stored values list:   *)
(* the containers of the pod groups (watcher/container), and the tables of *)
(* addresses that authorisation reads (auth: the apps of the pod groups,   *)
(* the services of the dependencies).  The way back, from a cached key to  *)
(* the key of the store, is a table that convert fills as it goes.         *)
(*                                                                         *)
(* The loop is that of Watcher, here with one step for each Put or Delete. *)
(* A container is cached under two keys that only differ in how they name  *)
(* its node; one stands for both.  Changes elsewhere in etcd, and polls    *)
(* that move to another endpoint, are left to Watcher.                     *)
(***************************************************************************)
EXTENDS Etcd

CONSTANTS
  Items,     \* the keys of the cache: containers, or addresses
  Lists,     \* Lists[v]: the items that the stored value v lists
  Bad,       \* a stored value that cannot be decoded; it lists nothing
  Sorted,    \* the leaves in the order GetTree returns them
  Matches,   \* Matches[p]: the leaves whose name has the string p as a prefix
  Longer,    \* Longer[i]: the items whose name begins with that of i
  Nil,       \* the value nil under a key of a map of Go
  Drop       \* a key the loop is going to Delete

ASSUME InvertedAssumption ==
  /\ Bad \in Vals /\ Lists \in [Vals -> SUBSET Items] /\ Lists[Bad] = {}
  /\ Sorted \in Seq(Leaves)
  /\ \A k \in Leaves : \E n \in DOMAIN Sorted : Sorted[n] = k
  /\ \A m, n \in DOMAIN Sorted : Sorted[m] = Sorted[n] => m = n
  /\ Matches \in [Paths -> SUBSET Leaves]
  /\ \A p \in Paths : Below[p] \subseteq Matches[p]
  /\ Longer \in [Items -> SUBSET Items] /\ \A i \in Items : i \in Longer[i]
  /\ Absent \notin Leaves /\ Nil # Absent /\ Drop \notin {Nil, Absent}
  /\ \A e \in (Leaves \X Vals) \union SUBSET Leaves : e \notin {Absent, Nil, Drop}

VARIABLES
  kind,      \* "container", "podgroup" or "depends": which convert
  table,     \* the inverts table: the leaf of an item, Absent without entry
  cache,     \* Cacher.data: Absent, Nil, or what is known of the item
  pc,        \* where watchStore stands
  bar,       \* its local broadcastAfterRefresh
  lastIndex, \* its local lastIndex
  todo,      \* what it still has to Put or Delete for the event
  changed,   \* its local keys
  \* History:
  readAt,    \* the index of the store the last GetTree read
  base,      \* the stream delivers every event after this index
  pos,       \* the last event the loop took from the stream
  told,      \* the value of each key when a Broadcast last announced it
  lost       \* the items deleted for what is not theirs: with a leaf or an
             \* item whose name that of theirs begins with

loopVars == <<kind, pc, bar, lastIndex, todo, changed>>
histVars == <<readAt, base, pos, told, lost>>
vars == <<storeVars, streamVars, loopVars, table, cache, histVars>>

Nothing == [i \in Items |-> Absent]

(* What is known of an item: the leaf and the value that list it, or for   *)
(* depends the services it may visit.                                      *)
Entries == IF kind = "depends" THEN (SUBSET Leaves) \ {{}}
                               ELSE Leaves \X (Vals \ {Bad})

TypeOK ==
  /\ kind \in {"container", "podgroup", "depends"}
  /\ kv \in Contents /\ log \in Seq(Event) /\ st \in {"none", "open", "failed"}
  /\ waitIdx \in Nat /\ reg \in Nat /\ held \in Nat
  /\ lastIndex \in Nat /\ readAt \in Nat /\ base \in Nat /\ pos \in Nat
  /\ pc \in {"refresh", "apply", "open", "select"} /\ bar \in BOOLEAN
  /\ table \in [Items -> Leaves \union {Absent}]
  /\ cache \in [Items -> Entries \union {Absent, Nil}]
  /\ todo \in [Items -> Entries \union {Absent, Nil, Drop}]
  /\ kind # "container" => \A i \in Items : Nil \notin {cache[i], todo[i]}
  /\ changed \subseteq Items /\ lost \subseteq Items
  /\ pc # "apply" => todo = Nothing /\ changed = {}

Init ==
  /\ kind \in {"container", "podgroup", "depends"}
  /\ kv = [k \in Leaves |-> Absent] /\ log = <<>>
  /\ st = "none" /\ waitIdx = 0 /\ reg = 0 /\ held = 0
  /\ table = Nothing /\ cache = Nothing
  /\ pc = "refresh" /\ bar = FALSE /\ lastIndex = 0
  /\ todo = Nothing /\ changed = {}
  /\ readAt = 0 /\ base = 0 /\ pos = 0 /\ told = Nothing /\ lost = {}

-----------------------------------------------------------------------------
(* convert: what it returns (Absent: not in the map), and the table, which *)
(* it changes pair by pair and does not restore when a later pair fails.   *)

\* Slip: the containers that the group no longer has are not looked for.
ContainerPairKeeps(acc, k, v) ==
  [ok    |-> TRUE,
   ret   |-> [i \in Items |-> IF i \in Lists[v] THEN <<k, v>> ELSE acc.ret[i]],
   table |-> [i \in Items |-> IF i \in Lists[v] THEN k ELSE acc.table[i]]]

(* ContainerWatcher.convert: first the group's containers of before.       *)
ContainerPair(acc, k, v) ==
  LET before == {i \in Items : acc.table[i] = k}
  IN  [ok    |-> TRUE,
       ret   |-> [i \in Items |-> IF i \in Lists[v] THEN <<k, v>>
                                  ELSE IF i \in before THEN Nil ELSE acc.ret[i]],
       table |-> [i \in Items |-> IF i \in Lists[v] THEN k
                                  ELSE IF i \in before THEN Absent
                                  ELSE acc.table[i]]]

(* podgroupConvert *)
PodgroupPair(acc, k, v) ==
  [ok    |-> TRUE,
   ret   |-> [i \in Items |-> IF i \in Lists[v] THEN <<k, v>> ELSE acc.ret[i]],
   table |-> [i \in Items |-> IF i \in Lists[v] THEN k ELSE acc.table[i]]]

\* Slip: only an address that is there already gets its entry.
DependsPairUntabled(acc, k, v) ==
  [ok    |-> TRUE,
   ret   |-> [i \in Items |->
                IF i \notin Lists[v] THEN acc.ret[i]
                ELSE IF acc.ret[i] = Absent THEN {k} ELSE acc.ret[i] \union {k}],
   table |-> [i \in Items |-> IF i \in Lists[v] /\ acc.ret[i] # Absent
                              THEN k ELSE acc.table[i]]]

(* dependsConvert, as a set of services *)
DependsPair(acc, k, v) ==
  [ok    |-> TRUE,
   ret   |-> [i \in Items |->
                IF i \notin Lists[v] THEN acc.ret[i]
                ELSE IF acc.ret[i] = Absent THEN {k} ELSE acc.ret[i] \union {k}],
   table |-> [i \in Items |-> IF i \in Lists[v] THEN k ELSE acc.table[i]]]

\* The pair of the leaf k, whose value is v.
ConvertPair(acc, k, v) ==
  IF ~acc.ok \/ v = Bad THEN [acc EXCEPT !.ok = FALSE]
  ELSE CASE kind = "container" -> ContainerPair(acc, k, v)
         [] kind = "podgroup"  -> PodgroupPair(acc, k, v)
         [] kind = "depends"   -> DependsPair(acc, k, v)

(* The pairs, a function from their keys to their values, one after the    *)
(* other in the order of the store: after[n] is what those among the first *)
(* n leaves made.                                                          *)
Convert(pairs) ==
  LET after[n \in 0 .. Len(Sorted)] ==
        IF n = 0 THEN [ok |-> TRUE, ret |-> Nothing, table |-> table]
        ELSE IF Sorted[n] \in DOMAIN pairs
        THEN ConvertPair(after[n - 1], Sorted[n], pairs[Sorted[n]])
        ELSE after[n - 1]
  IN  after[Len(Sorted)]

-----------------------------------------------------------------------------
(* refresh *)

travelNodes == {k \in Leaves : kv[k] # Absent}

(* Without the root in the store there is an error, which refresh takes    *)
(* for an empty list.                                                      *)
GetTree == [k \in travelNodes |-> kv[k]]

Tree == Convert(GetTree)

KeysOf(c) == {i \in Items : c[i] # Absent}

(* Reset takes the map as it is, with its nils. *)
Reset(to) ==
  /\ Tree.ok
  /\ cache' = Tree.ret /\ table' = Tree.table
  /\ readAt' = Rev /\ base' = Rev /\ pos' = Rev /\ lost' = {}
  /\ pc' = to
  /\ UNCHANGED <<storeVars, streamVars, kind, bar, lastIndex, todo>>

RefreshFirst ==
  /\ pc = "refresh" /\ ~bar
  /\ Reset("open")
  /\ told' = cache'
  /\ UNCHANGED changed

RefreshAgain ==
  /\ pc = "refresh" /\ bar
  /\ Reset("apply")
  /\ changed' = KeysOf(cache')
  /\ UNCHANGED told

(* A pair cannot be decoded: the table keeps what the pairs before it did, *)
(* and refresh is tried again after three seconds.                         *)
RefreshFails ==
  /\ pc = "refresh" /\ ~Tree.ok
  /\ table' = Tree.table
  /\ UNCHANGED <<storeVars, streamVars, loopVars, cache, histVars>>

OpenWatch ==
  /\ pc = "open"
  /\ OpenStream(lastIndex)
  /\ base' = lastIndex /\ pos' = lastIndex
  /\ pc' = "select"
  /\ UNCHANGED <<storeVars, kind, bar, lastIndex, todo, changed, table, cache,
                 readAt, told, lost>>

-----------------------------------------------------------------------------
(* An event of the store *)

Receive ==
  /\ pc = "select" /\ held > 0
  /\ held' = 0 /\ pos' = held
  /\ UNCHANGED <<storeVars, st, waitIdx, reg, kind, bar, changed, cache,
                 readAt, base, told>>

HandleSet ==
  /\ Receive
  /\ LET e    == log[held]
         conv == Convert([k \in {e.key} |-> e.val]) IN
       /\ e.act = "set" /\ conv.ok
       /\ todo' = conv.ret /\ table' = conv.table
  /\ lastIndex' = held
  /\ pc' = "apply"
  /\ UNCHANGED lost

HandleUnreadable ==
  /\ Receive
  /\ log[held].act = "set" /\ log[held].val = Bad
  /\ UNCHANGED <<pc, lastIndex, todo, table, lost>>

\* Slip: only the deleted key itself, not what was below it.
ConcernedExactly(p) == {i \in KeysOf(cache) : table[i] = p}

(* ckey2skey answers "" for an item without an entry. *)
Concerned(p) == {i \in KeysOf(cache) : table[i] \in Matches[p]}

HandleDelete ==
  /\ Receive
  /\ LET e == log[held] IN
       /\ e.act = "delete"
       /\ todo' = [i \in Items |-> IF i \in Concerned(e.key) THEN Drop ELSE Absent]
       /\ lost' = lost \union {i \in Concerned(e.key) : table[i] \notin Below[e.key]}
  /\ lastIndex' = held
  /\ pc' = "apply"
  /\ UNCHANGED table

Applying(i) ==
  /\ pc = "apply" /\ todo[i] # Absent
  /\ todo' = [todo EXCEPT ![i] = Absent]
  /\ UNCHANGED <<storeVars, streamVars, kind, pc, bar, lastIndex, table,
                 readAt, base, pos, told>>

\* Slip: the key is not noted for the broadcast.
PutUnnoted(i) ==
  /\ Applying(i) /\ todo[i] # Drop
  /\ cache' = [cache EXCEPT ![i] = IF todo[i] = Nil THEN Absent ELSE todo[i]]
  /\ lost' = lost \ {i}
  /\ UNCHANGED changed

(* Put deletes the key when the value is nil. *)
Put(i) ==
  /\ Applying(i) /\ todo[i] # Drop
  /\ cache' = [cache EXCEPT ![i] = IF todo[i] = Nil THEN Absent ELSE todo[i]]
  /\ lost' = lost \ {i}
  /\ changed' = changed \union {i}

(* Cacher.Delete(k, true), which goes by prefix. *)
Removed(i) == IF kind = "container" THEN {i} ELSE Longer[i]

Delete(i) ==
  /\ Applying(i) /\ todo[i] = Drop
  /\ cache' = [j \in Items |-> IF j \in Removed(i) THEN Absent ELSE cache[j]]
  /\ lost' = lost \union (Removed(i) \ {i})
  /\ changed' = changed \union {i}

\* Slip: the keys stay for the next broadcast.
BroadcastKeeps ==
  /\ pc = "apply" /\ todo = Nothing
  /\ told' = [i \in Items |-> IF i \in changed THEN cache[i] ELSE told[i]]
  /\ bar' = FALSE
  /\ pc' = IF bar THEN "open" ELSE "select"
  /\ UNCHANGED <<storeVars, streamVars, kind, lastIndex, todo, changed, table,
                 cache, readAt, base, pos, lost>>

Broadcast ==
  /\ pc = "apply" /\ todo = Nothing
  /\ told' = [i \in Items |-> IF i \in changed THEN cache[i] ELSE told[i]]
  /\ changed' = {}
  /\ bar' = FALSE
  /\ pc' = IF bar THEN "open" ELSE "select"
  /\ UNCHANGED <<storeVars, streamVars, kind, lastIndex, todo, table, cache,
                 readAt, base, pos, lost>>

HandleClosed ==
  /\ pc = "select" /\ st = "failed"
  /\ st' = "none"
  /\ pc' = "refresh"
  /\ bar' = TRUE
  /\ UNCHANGED <<storeVars, waitIdx, reg, held, kind, lastIndex, todo, changed,
                 table, cache, histVars>>

-----------------------------------------------------------------------------
(* deployd writes the groups and the dependencies.  No container and no    *)
(* address is in two groups at the same time; an address may be in the     *)
(* dependencies of several services.                                       *)
Holders(i) == {k \in Leaves : kv[k] # Absent /\ i \in Lists[kv[k]]}

Deployd ==
  /\ \/ \E k \in Leaves, v \in Vals :
          /\ kind # "depends" => \A i \in Lists[v] : Holders(i) \subseteq {k}
          /\ EtcdSet(k, v)
     \/ \E p \in Paths : EtcdDelete(p)
  /\ UNCHANGED <<streamVars, loopVars, table, cache, histVars>>

Register ==
  /\ PollFromNow
  /\ base' = Rev /\ pos' = Rev
  /\ UNCHANGED <<storeVars, loopVars, table, cache, readAt, told, lost>>

Stream(Step) == Step /\ UNCHANGED <<storeVars, loopVars, table, cache, histVars>>

Transport ==
  \/ Stream(PollFromIndex) \/ Stream(PollOutdated)
  \/ Stream(Fetch) \/ Stream(PollFails)

Loop ==
  \/ RefreshFirst \/ RefreshAgain \/ RefreshFails \/ OpenWatch
  \/ HandleSet \/ HandleUnreadable \/ HandleDelete
  \/ \E i \in Items : Put(i) \/ Delete(i)
  \/ Broadcast \/ HandleClosed

Next == Deployd \/ Register \/ Transport \/ Loop

Spec == Init /\ [][Next]_vars

-----------------------------------------------------------------------------
(* The loop took every event since the tree was read, no change fell into  *)
(* the gap before the first poll, and every value can be decoded.          *)
Settled == /\ pc = "select" /\ pos = Rev /\ base <= readAt
           /\ \A k \in Leaves : kv[k] # Bad

(* i was deleted for what is not its own, and no event listed it since.    *)
Taken(i) == i \in lost /\ cache[i] = Absent

(* The services whose dependencies ever listed i. *)
Ever(i) == {log[j].key : j \in {n \in 1 .. Rev : /\ log[n].act = "set"
                                                 /\ i \in Lists[log[n].val]}}

(* Once the loop is up to date, the containers in the cache are those that *)
(* the groups list, with what the groups say of them: none that an upgrade *)
(* or a deletion took away, whatever was replayed, and none hidden behind  *)
(* a nil that a re-read left (container.go 71-120).                        *)
ContainersExact ==
  kind = "container" /\ Settled =>
    \A i \in Items :
      /\ \A k \in Holders(i) : cache[i] = <<k, kv[k]>> \/ Taken(i)
      /\ Holders(i) = {} => cache[i] \in {Absent, Nil}

(* Once the loop is up to date, whoever holds an address now is known as   *)
(* the app that holds it, although addresses move between groups and       *)
(* convert forgets none of the old ones; only the deletion of a group may  *)
(* have taken with it an address that begins with one of the group's       *)
(* (auth.go 155-206, cacher.go 45-54).                                     *)
AddressKnown ==
  kind = "podgroup" /\ Settled =>
    \A i \in Items : \A k \in Holders(i) :
      cache[i] = <<k, kv[k]>> \/ Taken(i)

(* Once the loop is up to date, no address has the rights of a group that  *)
(* was deleted (auth.go 177-206).                                          *)
Revoked ==
  kind = "podgroup" /\ Settled =>
    \A i \in Items : cache[i] # Absent => kv[cache[i][1]] # Absent

(* An address that only ever depended on one service may visit it while it *)
(* depends on it, and no longer once the service's dependencies are gone,  *)
(* when the loop is up to date (auth.go 208-244).                          *)
DependsKnown ==
  kind = "depends" /\ Settled =>
    \A i \in Items : \A k \in Leaves : Ever(i) = {k} =>
      /\ Holders(i) = {k} => cache[i] = {k} \/ Taken(i)
      /\ kv[k] = Absent => cache[i] = Absent

(* Although an event becomes several Puts and Deletes, which readers may   *)
(* see one by one, once it was broadcast the receivers of every key know   *)
(* its value, unless it is no longer cached (watcher.go 149-168).          *)
Announced == pc = "select" => \A i \in Items : cache[i] \in {told[i], Absent}

-----------------------------------------------------------------------------
(* What the receivers of the container watcher rely on; the tables of      *)
(* addresses have none, auth only Gets from them.                          *)
ModeOf == CASE pc = "refresh" /\ ~bar -> "loading"
            [] pc = "apply"           -> "announcing"
            [] OTHER                  -> "idle"

Src == INSTANCE Source WITH
         Keys <- Items, Values <- (Leaves \X (Vals \ {Bad})) \union {Nil},
         mode <- ModeOf, pending <- changed

(* Every step of the container watcher is a step of Source or leaves the   *)
(* cache and the announcements alone, however many Puts and Deletes an     *)
(* event or a re-read becomes: the cache only ever shows a receiver a half *)
(* done event whose rest is going to be announced (watcher.go 99-173,      *)
(* container.go 71-120).                                                   *)
FeedsSender ==
  /\ Src!SourceInit
  /\ [][kind = "container" =>
          \/ Src!Load(cache') \/ Src!Replace(cache')
          \/ Src!Change(cache', changed') \/ Src!Announce]_(Src!sourceVars)

-----------------------------------------------------------------------------
(* Why these hold: the inductive invariant. *)

(* Between a read of the tree and the session that follows it. *)
JustRead == pc = "open" \/ (pc = "apply" /\ bar)

LoopInv ==
  /\ pc = "refresh" \/ JustRead => st = "none"
  /\ JustRead => base = pos /\ pos = readAt
  /\ pc \in {"open", "select"} => ~bar

(* Where the stream is, against what the loop took from it. *)
StreamInv ==
  /\ lastIndex <= pos /\ base <= pos /\ pos <= Rev /\ readAt <= Rev
  /\ st # "open" => held = 0 /\ reg = 0
  /\ held > 0 => /\ waitIdx = held + 1 /\ reg = 0 /\ pos < held /\ held <= Rev
                 /\ \A j \in 1..Rev : pos < j /\ j < held => log[j].act = "other"
  /\ st = "open" /\ held = 0 /\ waitIdx > 0 => waitIdx = pos + 1
  /\ st = "open" /\ waitIdx = 0 => base = pos
  /\ reg > 0 => reg = pos + 1

(* A leaf holds what the last event that touched it says. *)
StoreInv ==
  /\ \A k \in Leaves : \A n \in 1..Rev :
       Touches(log[n], k) /\ (\A j \in 1..Rev : j > n => ~Touches(log[j], k))
         => kv[k] = log[n].val
  /\ \A k \in Leaves : kv[k] # Absent =>
       \E n \in 1..Rev : log[n].act = "set" /\ log[n].key = k /\ log[n].val = kv[k]

(* Who holds an item now was written after all the others that listed it.  *)
HolderInv ==
  kind # "depends" =>
    \A i \in Items : \A k \in Holders(i) :
      /\ Holders(i) = {k}
      /\ \A n \in 1..Rev :
           log[n].act = "set" /\ log[n].key # k /\ i \in Lists[log[n].val]
             => \E j \in 1..Rev : j > n /\ Touches(log[j], k)

(* What the cache has for i once the loop did all that it has to do for    *)
(* the event at hand.                                                      *)
Due(i) == IF todo[i] = Absent THEN cache[i]
          ELSE IF todo[i] \in {Nil, Drop} THEN Absent ELSE todo[i]

(* The table goes back from every entry to where it came from. *)
TableInv ==
  /\ \A i \in Items : table[i] \in Ever(i) \union {Absent}
  /\ pc # "refresh" => \A i \in Items :
       /\ todo[i] = Nil => table[i] = Absent
       /\ Due(i) \notin {Absent, Nil} =>
            IF kind = "depends" THEN table[i] \in Due(i)
            ELSE Due(i)[1] = table[i] /\ i \in Lists[Due(i)[2]]

(* What of the store the cache and the pending work stand for. *)
Seen == IF pos = base THEN readAt ELSE pos
Later(k) == \E j \in 1..Rev : j > Seen /\ Touches(log[j], k)

(* The cache stands for every change so far, but for what is to come. *)
Whole == pc # "refresh" /\ base <= readAt

EntryOf(k) == IF kind = "depends" THEN {k} ELSE <<k, kv[k]>>

KnownInv ==
  Whole => \A i \in Items : \A k \in Holders(i) :
    ~Later(k) /\ (kind = "depends" => Ever(i) = {k}) =>
      /\ table[i] = k
      /\ Due(i) = EntryOf(k) \/ (i \in lost /\ Due(i) = Absent)

(* An entry is no older than what its leaf holds. *)
OwnInv ==
  Whole => \A i \in Items :
    Due(i) \notin {Absent, Nil} /\ ~Later(table[i]) =>
      /\ kv[table[i]] # Absent
      /\ kind = "container" => kv[table[i]] \in {Due(i)[2], Bad}

(* Outside the pending announcement, receivers know the cached values. *)
ToldInv == \A i \in Items : i \notin changed => cache[i] \in {told[i], Absent}

IInv == /\ TypeOK /\ LoopInv /\ StreamInv /\ StoreInv /\ HolderInv
        /\ TableInv /\ KnownInv /\ OwnInv /\ ToldInv
=============================================================================
