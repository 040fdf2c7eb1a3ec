# Lainlet in TLA+

Lainlet runs on every node of a Lain cluster.  It copies parts of etcd into
memory, keeps the copies current by watching etcd, and answers, over HTTP and
gRPC, what a part of the tree holds now and every change from then on.  This
directory models the path from a change in etcd to the event a client reads.
It says what is guaranteed along it, what is not, and why.

All paths below are relative to the root of the repository, `src/`.

## 1. Inventory

```
 etcd --long polls--> Etcd.Watch --chan--> BaseWatcher.watchStore --Broadcast--> Sender
      <---GetTree---------------------------'  | Put/Delete/Reset                  | chan of one
                                               v                                   v event each
                                             Cacher <------------Get------- handleWatch --> client
```

| Component | State | Operations | Interacts by |
|---|---|---|---|
| etcd stream, `store/etcd/etcd.go` | the poll's wait index, the event being sent | `Watch` (a goroutine), `GetTree` | long polls to etcd; an unbuffered channel to the watcher |
| BaseWatcher, `watcher/watcher.go`, with the converters of `watcher/{config,podgroup,depends,nodes}` | `lastIndex`, `broadcastAfterRefresh`, `keys`, status | `watchStore` (a goroutine), `refresh`, `Get`, `Watch` | calls the store, writes the Cacher, calls `Broadcast` |
| Cacher, `watcher/cacher.go` | a map under a lock | `Put`, `Delete`, `Reset`, `Get`, `GetAllKeys` | one writer, many readers |
| Sender, `watcher/sender.go` | a list of receivers under a lock, each with a channel of one event and a counter | `Broadcast`, `Watch`, `clearNilReceivers` (a goroutine) | events to the handlers |
| ContainerWatcher, `watcher/container/container.go` | `invertsTable`, on top of a BaseWatcher | `convert`, `invertKey` | is a converter of the BaseWatcher |
| HTTP sessions, `api/server.go`, `api/event.go` | per request: the instance last made, the connection, a context | `handleWatch`, `handleGet`, and goroutines for the heartbeat, the end of the connection and `CloseNotify` | reads Cacher and Sender, writes the socket |
| API instances, `api/v2/*.go` | none but the instance | `Make`, `Key`, `WatcherName`, `BanWatcher` | called by the handlers |
| gRPC endpoints, `endpoints/*.go` | a map from key to the last reply, shared by all streams | `Get`, `Watch` | as the HTTP sessions |
| Authorisation, `auth/auth.go` | three BaseWatchers and two invert tables | `Pass`, `IsSuper`, `AppName` | called by the handlers |
| Client library, `client/client.go` | a response being parsed, the body | `Get`, `Watch` (two goroutines) | reads what the HTTP sessions write |
| gRPC client, `grpcclient/client.go` | per watch: a channel and an error under a lock | `...Get`, `...Watch` (a goroutine), `Next`, 16 services | reads what the gRPC endpoints send |
| messages, data types, start-up | none that changes | generated code, flags | |

### What is hard in it, and what makes each part correct

* **The stream.**  A long poll sees nothing while it is not at etcd; etcd keeps
  a window of recent events only; a poll may fail or move to another endpoint
  at any moment.  *Correct*: within a session nothing is skipped or reordered.
* **BaseWatcher.**  Reading the tree and following it are two calls with a gap
  between them, and after a broken session the stream resumes from an index
  that is *older* than the tree just read, so that newer values are overwritten
  by replayed ones for a while.  One pair that cannot be decoded blocks an
  event or a whole read.  *Correct*: the cache still ends at the store's value
  of every key whose last change could be learned, receivers are told of what
  changed, and the resume index never goes back.
* **Sender.**  Receivers register, read and cancel while `Broadcast` walks the
  list; a slow reader must lose events and not block; another goroutine
  compacts the list.  *Correct*: no receiver is lost, served twice, or sent to
  after its channel was closed; who missed nothing has the cached data.
* **Sessions.**  Between `Get` and `Watch` the cache may change; the comparison
  with the last instance skips events; five goroutines end one another.
  *Correct*: what the client was shown is what the cache holds, IDs grow, and
  nothing outlives the connection.
* **ContainerWatcher and authorisation tables.**  One stored value lists several
  cached keys; the way back is a table that `convert` writes and nobody clears,
  and a nil means "delete" to `Put` but is a value to `Reset`.  *Correct*: the
  cache is what the groups list now, an address is known as the app that has
  it, and no right outlives the group it came from.
* **APIs.**  What a request reads depends on who asks, by lookups in tables that
  change between two of them; keys match by prefix; contents come from maps
  that are ranged in random order; some data is refused.  *Correct*: nobody
  gets what only begins like what was asked for, and equal data is silent.
* **gRPC endpoints.**  All calls with the same key compare with one remembered
  reply, in a map that no lock protects.  *Correct*: a stream never shows older
  data after newer and ends with its client; whether it shows the current data
  depends on the other calls.
* **Client libraries.**  Two goroutines and a caller end one another; the text of
  an event may be cut anywhere.  *Correct*: events arrive in order and whole,
  the channel closes, and an error is there when there is nothing else.

`PROJECT.json` lists each hazard at its line with the properties that cover it.

## 2. Modules

| Module | Models | State and actions against the code |
|---|---|---|
| `Etcd` | etcd v2 below one root (external), and the goroutine of `Etcd.Watch` | `kv`, `log`: the store and its modification indices.  `st`, `waitIdx`, `reg`, `held`: the channel, the index the next poll asks for, where etcd holds the poll, the event in the goroutine's hand.  `Fetch`, `PollFails`: the two results of `Next`. |
| `Source` | abstract: what any watcher promises its Sender | `Load`, `Change` (any number of them before an announcement), `Replace`, `Announce` |
| `Watcher` | `BaseWatcher.watchStore`, `refresh`, the converters, the Cacher's writers | `pc`, `bar` (`broadcastAfterRefresh`), `lastIndex`, `changed` (`keys`), `cache`.  One action per branch of the loop, from `RefreshFirst` to `HandleClosed`. |
| `WatcherProofs` | - | the theorems about `Watcher` (§6) |
| `Sender` | `sender.go`, `Cacher.Get` | `slots` (`receivers`), `walk` and `nils` (the loop of `Broadcast`), `clears`, `chan`, `open`, `counter`.  One action per branch of the loop. |
| `Session` | `handleWatch`, the middleware's goroutines, `EventSource` | `at` (where the handler stands), `made` (its instance), `conn`, `stalled`, `beat`.  One action per statement that blocks, reads or writes shared state. |
| `Inverted` | `watcher/container`, and the tables of `auth/auth.go`, under the loop of `watchStore` | `kind` (which converter), `table` (`invertsTable`, `ipInvertTable`, `dependsInvertTable`), `todo` (what an event still has to `Put` or `Delete`, one step each), `cache`, and the variables of `Etcd` and of the loop |
| `Contents` | the `Make` functions of `api/v2` | operators over pod groups, containers, nodes, dependencies and configurations; where a `Make` appends while it ranges over a map, the order is a parameter, and `SortBy` is `sort.Slice` |
| `Access` | `auth.Pass`, `IsSuper`, `AppName`, and the `Key` functions of `api/v2` | operators over a request and what its lookups found |
| `Replies` | `make` and `getKey` of `endpoints/`, where they are not `Rpc`'s | operators; most say the same as `Contents` and `Access`, and where one does not it differs in the code |
| `Apis` | one request to any API on either side | `Ask` (`Key`, `getKey`), `First` and `Event` (`Make`, `make`), `Appname` |
| `Rpc` | `Get` and `Watch` of the endpoints, with the part of `make` that remembers the reply | `at` (where each handler stands), `cached` (`ed.cache[key]`), `reply` (what it has in hand); one action per read or write of the shared map, send or wait |
| `Clients` | `client/client.go`, `grpcclient/client.go` | `wire` (lines or messages), `at` and `resp` (the reader and what it parses), `body`, `chan`, `err`, and the callers of `Next` |
| `SenderProofs`, `SessionProofs`, `InvertedProofs`, `RpcProofs`, `ApisProofs`, `ClientsProofs` | - | the theorems about each (§6) |
| `SortingProofs` | - | lemmas about the sorting of `Contents`, for `ApisProofs` |
| `MCWatcher`, `MCSender`, `MCSession`, `MCInverted`, `MCApis`, `MCRpc`, `MCClients` | - | the small instances |

`Session` extends `Sender`, which extends `Source`; `Watcher` and `Inverted`
extend `Etcd`, and both implement `Source`, `Inverted` when its converter is that
of the containers.  So the Sender and the sessions are checked over every
behaviour of `Source`, more than any watcher has, at a fraction of the states.
The tables of `auth.go` are only ever read with `Get`: no Sender waits for them.
`Apis` extends `Replies`, which extends `Contents` and `Access`.  `Rpc` takes from
the Sender only what the runs of `Sender` show: an event carries the data of its
broadcast, a full channel drops it, the channel of a canceled receiver is closed
by the next one.

### Abstractions worth knowing

* **Keys and values** are model values.  `Below[p]` is what etcd removes with
  `p`; `Matches[p]` is what `strings.HasPrefix` takes to be below it.  They
  differ for siblings such as `vip` and `vips`.
* **`GetTree`, `convert` and `Reset`** are one step.  No stream is open then,
  the goroutine is the only writer of the cache, and a reader that gets in
  between sees the cache before it.
* **An event** is handled in one step up to `Broadcast`.  The converters of
  the watchers in `Watcher` give one key per pair.  In `Inverted`, where a pair
  gives several, every `Put` and `Delete` is a step, in any order, and a receiver
  may register or read between two of them; `Source` therefore allows any number of
  `Change`s before an `Announce`, though never while `Broadcast` walks the list.
* **`base`, `pos`, `readAt`, `told`** in `Watcher` and **`clock`, `got`,
  `missed`, `doomed`** in `Sender` record the history of a run for the
  properties; no guard reads them, except that `clock` and the length of `log`
  bound the number of changes.
* **`HandleUnreadable`** keeps `lastIndex`, because the code `continue`s before
  its assignment; **`HandleSkipped`** moves it and broadcasts an empty list.
* **`Store.Watch`** never returns an error: `Etcd.Watch` has no path that does.
  The context of the watchers ends only with the process.
* **`MakeFails`** is the guard of the two router APIs, which refuse to answer
  when more than half of the containers have no address, or there are none.
  The other APIs never fail on data (`Guarded = FALSE`).
* **An item** of `Inverted` is a container or an address.  A container is cached
  under two keys that differ in how they name its node; one stands for both.
  What else etcd has, and polls that move to another endpoint, are left to
  `Watcher`.
* **`Lists`** are what stored values list, and deployd keeps its groups disjoint:
  no container and no address is in two groups at once.
* **A request** of `Apis` is a record of what it asked for and what each of its
  lookups finds, which two lookups need not agree on; how the tables get there
  is `Inverted`.  **A map** of Go is a function and `order` the order of a range
  over it, chosen anew every time.
* **The endpoints** of `Rpc` that go through the same steps are explored together
  (`alike`); each has its action, mapped to its own lines.  The same holds of the
  gRPC clients, which are one generated text.
* **The wire** of `Clients` is a sequence of lines, and a cut may take the end of
  the last one, or its colon too.
* **A client** of a watch sends its request and nothing more; it may stop
  reading, read again or leave at any point (`Stall`, `Disconnect`).

## 3. What is checked

### Properties that hold

| Property | Of | Says |
|---|---|---|
| `Coherent` | Watcher | once the loop took the last change of a key, or nothing touched the key since it was read, the cache holds what the store holds - through replays, lost polls, directory deletes and undecodable values |
| `NothingSkipped` | Watcher, Etcd | a session delivers every event below the root in order |
| `ToldOrGone` | Watcher | what broadcasts announced is what is cached, except for keys that are gone |
| `LastIndexMonotone` | Watcher | resuming never goes back |
| `ImplementsSource` | Watcher | refinement: every step is one of `Source` or stutters |
| `EventuallyFresh` | Watcher | when polls stop failing but for an outdated index, the cache reaches the store's value of every key whose last change comes after the index the session resumed from |
| `ListedOnce` | Sender | open channels are listed once, closed ones never: nothing is lost, and no send on or close of a closed channel |
| `DoomedClosed` | Sender | a `Broadcast` closes everything canceled before it |
| `CaughtUp` | Sender | notices by prefix and data by exact key first still agree, for everybody who missed nothing |
| `EventsInOrder` | Sender | numbers have no hole although events are dropped; data never goes back |
| `BroadcastNeverWaits` | Sender | a broadcast can always take its next step: no reader, however slow, holds it |
| `ShownIsCached` | Session | an idle session shows what is cached, up to a dropped or passed-over event and the gap before registration |
| `IdsGrow` | Session | content changes only with a larger ID |
| `SessionEnds` | Session | handler, context and heartbeat all end after the connection |
| `ContainersExact` | Inverted | once the loop is up to date the cached containers are those the groups list, whatever was upgraded, deleted, replayed or read again, and a nil left by a re-read hides none |
| `AddressKnown` | Inverted | whoever holds an address now is known as its app, although addresses move and no old entry is taken out |
| `Revoked` | Inverted | no address has the rights of a deleted group |
| `DependsKnown` | Inverted | an address that only ever depended on one service may visit it while it does, and no longer once the service's dependencies are gone; one that was dropped from dependencies which are still there is not spoken of: it keeps the right (§5) |
| `Announced` | Inverted | after an event of several `Put`s and `Delete`s, the receivers of every key it left cached know its value |
| `FeedsSender` | Inverted | refinement: every step of the container watcher is one of `Source` or leaves the cache and the announcements alone, half-done events included |
| `SilentWhenUnchanged` | Apis | an event that leaves the data as it was is no change, in whatever order maps are ranged, except for `Podgroup` and `Containers` |
| `OnlyAsked` | Apis | a request for a name is never answered with what belongs to a longer one |
| `HasUpstream` | Apis | an answered router has an address to route to |
| `HalfAlive` | Apis | of the pods a router is answered, in the lists it is given, at least half have an address |
| `NeverBack` | Rpc | a stream never shows older data after newer |
| `QuietCurrent` | Rpc | an idle stream shows the current data unless it missed an event or another call replaced the remembered reply |
| `CallEnds` | Rpc | a call ends when its client leaves, wherever it stands |
| `InOrder` | Clients | callers get the events in order and unmixed, but for the end of the last |
| `AllGiven` | Clients | after an orderly end, all that was written whole is delivered |
| `ChannelCloses` | Clients | the channel closes after a cancel or the end of the connection, while somebody listens |
| `NilMeansError` | Clients | `Next` never returns nil without an error |
| `GetReturns` | Clients | a time limit ends every call that has one |

`IInv` of each module, and `SessionInv`, are the inductive invariants of the
proofs (§6), types included: the runs check them on the small instances.  The
types say, in `Watcher` (`TypeOK`), that an undecodable value never enters the
cache, in `Sender` that a channel holds at most one event, and in `Inverted`
that a nil only occurs among containers and that nothing is left to apply
between two events.

### Runs

| Run | Question | Instance |
|---|---|---|
| `watcher_lenient` | is the cache right when convert skips bad pairs (nodes, config)? | two keys, one's name a prefix of the other's, in one directory; two values and a bad one; 4 modifications, a window of 2 |
| `watcher_strict` | does the invariant of the proofs, from which `Coherent` follows, hold when one bad pair refuses everything (podgroup, depends)?  The refinement; does the loop get there? | the same, without symmetry |
| `watcher_newest`, `watcher_deletes`, `watcher_told` | do three comments hold? No (§5). | two keys or one, 3 modifications |
| `sender` | does the list survive, do receivers of a key and of everything have the right data, can `Broadcast` always go on? | three receivers, two of them interchangeable, keys `vip` and `vips`, 3 changes |
| `session` | is the client shown the right thing, and does everything end? | one request, one key, two values, the router guard, 4 changes |
| `inverted` | are the containers and the tables right? | two groups whose names begin alike, two items that do too, every list of them and a bad value; 3 modifications, a window of 1 |
| `apis` | who is answered what, and what counts as a change? | every API on both sides, 11 requests, up to two groups out of seven kinds, containers, nodes, dependencies and configurations likewise |
| `rpc` | what do two calls of one key show, and do they end?  The invariant of the proofs. | every kind of endpoint, an ordinary value and one that is refused or cannot be sent, 3 values in a row |
| `client` | do the client libraries deliver and end? | three messages, cut anywhere, two callers |
| `session_ids` | are IDs consecutive? No (§5). | 3 changes |

Every property of a passing run has a mutant in `PROJECT.json`: an operator
(commented `Slip:` in the modules) that replaces a definition as a plausible
mistake would, under which TLC finds the property violated.

## 4. Bounds and fairness

`MaxRev`, `MaxClock`, `MaxSent` and `Window` are the only bounds.  For the
properties that §6 proves the bounds do not matter; what follows is why they
serve for the others, and why TLC would have found the proved ones false.

* *4 modifications with a window of 2*: enough for one before the first read,
  one in the gap before the first poll, one that moves `lastIndex`, and one
  while the stream is down, and for an index to fall out of the window: the
  first index asked for is at least 2, so it is out of a window of 2 after 4
  modifications.
* *Two keys*: one is deleted by its sibling's prefix, both by the directory;
  no rule of the code relates three keys.
* *4 changes of the cache* in `session`: the load, an event that is delivered,
  one that is dropped and one after the reader caught up.  In `sender`, 3: what
  `session` repeats needs no fourth there.
* *Three receivers* make the compaction of the list shift live receivers while
  others are nil; a fourth adds no new relation between neighbours.
* *One request* in `Session`: handlers share nothing but the Sender, whose own
  run has three receivers.
* *3 modifications with a window of 1* in `inverted`: two groups and a move or a
  deletion; a list, another list of the same group, and a replay of the first;
  the index out of the window.  Two items are the fewest of which a deletion by
  prefix takes one that is not its own.
* *Two groups per key* in `apis`: the fewest with an order, with a longer name,
  and with as many dead pods as live ones; every kind of group that `Make` treats
  differently is among the seven.
* *Two calls* in `rpc`: one replaces what the other remembered.  That a third
  changes nothing is proved (§6), but for `CallEnds`.  *3 values* are one before,
  one while and one after a stream is registered.
* *Three messages* in `client`: a heartbeat between two events, and an event
  after one that was cut short by the end; two callers of `Next` are the fewest
  that can be between its two statements together.
* Symmetry is used for values in `watcher_lenient` and for two receivers in
  `sender`, in runs without liveness.

**Deadlock** is not checked: modifications and changes are bounded, and clients
may all be done, after which the code waits for ever as it should.  `inverted`
does check it: its loop can always fail and start over.

**Fairness.**  Weak fairness for the goroutine of a watcher, for its stream,
for `Broadcast` and `clearNilReceivers` in `Session`, for the handlers, and for
the goroutines and time limits of the clients: goroutines run and etcd answers.
A caller of a client library that listens takes what is there; it may stop
listening at any time.  No fairness for clients of
etcd, for failures, for a successful retry of a read (`RefreshFails` may repeat
for ever; `Loop` only has to move when the tree can be read), or for clients of
lainlet.  `EventuallyFresh` assumes that from some point on polls fail only because their
index left etcd's window (`Steady`), and, for the strict converters, that all
pairs decode.  In `Session`,
`StartWatch` and the two `select`s that watch for the end are strongly fair: the
lock is free again and again, and a Go mutex and `select` choose fairly among
those that wait.  For the same reason registration is strongly fair in `Rpc`.

## 5. Where the comments and the code differ

1. **The first poll starts from now** (`watcher_newest`).  `lastIndex` is 0
   until an event arrives, and index 0 asks etcd for changes *from now on*, not
   from the tree just read.  A change in between stays invisible until the same
   key changes again or the stream breaks, against "get the newest data"
   (`watcher/watcher.go:190`).  `Coherent` states the guarantee that is left.
2. **DELETE goes by string prefix** (`watcher_deletes`).  Deleting
   `/lain/config/vip` also drops `vips` from the cache, and nothing puts it
   back until it changes or the tree is read again (`watcher/watcher.go:157`).
3. **Keys that vanish while the stream is down** (`watcher_told`) are missing
   from `GetAllKeys`, so no broadcast names them; receivers keep the old value
   (`watcher/watcher.go:113` against `watcher/sender.go:38`).
4. **IDs have holes** (`session_ids`).  An event whose content is unchanged for
   the API takes a number and is not sent (`api/server.go:197` against
   `README.md:55` and `client/client.go:68`).

Also seen while modelling, and not runs of their own:

* A canceled receiver's channel is closed by the next `Broadcast` that walks over
  it, and not "when context was canceled" (`watcher/sender.go:53` against line
  86): a watcher whose data stays as it is keeps the receivers of every client that
  left.  `DoomedClosed` states the guarantee that is left; the handlers and
  goroutines themselves end (`SessionEnds`).
* Calls of one key hide changes from each other.  The endpoints compare with one
  remembered reply per key.  Whichever call makes its reply of a change first, a
  `Get` or another stream, replaces it, and a stream that handles the same change
  later takes it for none and sends nothing (`endpoints/config.go:92`).
  `QuietCurrent` states the guarantee that is left, and says nothing of a stream
  that has such `rivals`.
* A nil stays in the container cache.  `convert` sets a key to nil to "let watcher
  delete it in cache" (`watcher/container/container.go:84`); `Put` does, but a
  re-read ends in `Reset`, which keeps it.  A container that left its group between
  two reads of the tree, unseen by the stream, is such a key, and `LocalSpec.Make`
  panics on it (`api/v2/localspec.go:44`; `MakePanics` of `Apis`).
* A replay after a refresh announces older values for a while
  (`watcher/watcher.go:149`).
* `Sender.Watch` sends no init event (`watcher/watcher.go:178`).
* A target equal to a key hides the longer keys that begin with it
  (`watcher/cacher.go:69` against `README.md:65`).
* An address that is dropped from dependencies which are still there keeps its
  right to the service: `dependsConvert` adds what the new value lists and takes
  nothing out (`auth/auth.go:217`).
* gRPC does not always answer where HTTP does.  A node with a map among its
  values has a reply that cannot be sent (`endpoints/nodes.go`, `NodesUnsendable`).
  The handler of the stream router's procs panics whenever there is one
  (`endpoints/streamrouter_streamprocs.go:97`, `StreamprocsPanics`).  `Localspec`
  without a `nodeip` is answered over HTTP with what runs on this node and refused
  over gRPC, whose constructor drops the address it is given
  (`endpoints/localspec.go:24`, `LocalspecGetKey`).
* `Lock` is followed by `Unlock` before the remembered replies are touched
  (`endpoints/config.go:89`), so that the runtime may end the process (`Abort` of
  `Rpc`).

## 6. What is proved

For every value of the constants that satisfies the assumptions named in the
modules (TLC evaluates each in a run), every run's safety property but
`BroadcastNeverWaits` is a theorem; that one, which is about ENABLED, is left to
TLC, as is liveness.
The bounds on the numbers of changes and messages (`MaxRev`, `MaxClock`,
`MaxSent`) are constants like any other, so that the theorems hold for all.

### The watcher

`WatcherProofs` proves for all keys, directories, values, windows and both kinds
of converter, from `EtcdAssumption` and `WatcherAssumption`:

| Theorem | Statement |
|---|---|
| `TypeCorrect` | `Spec => []TypeOK` |
| `Invariant` | `Spec => []IInv` |
| `CacheCoherent` | `Spec => []Coherent` |
| `StreamComplete` | `Spec => []NothingSkipped` |
| `ReceiversTold` | `Spec => []ToldOrGone` |
| `ResumeForward` | `Spec => LastIndexMonotone` |
| `WatcherImplementsSource` | `Spec => ImplementsSource` |

The assumptions say that `Below` and `Matches` are what they are called: a leaf
is below itself only, what etcd deletes with a path has the path as a prefix,
and having a prefix is transitive.

**The invariant.**  `Coherent` is not inductive: that event `pos` was the last to
touch a key says nothing of the cache unless the loop is known to have applied
everything before it.  `IInv` adds

* `LoopInv`: no stream is open between the closed channel and the next
  `Store.Watch`, a read that is not followed by an event leaves `base = pos`,
  and a broadcast is owed only on the way there;
* `StreamInv`: `lastIndex <= pos`, and the index that is asked for, held at etcd
  or in the goroutine's hand follows `pos` directly or over foreign events
  (`NothingSkipped`);
* `StoreInv`: a leaf holds what the last event that touched it says, which ties
  the log to the store;
* `ReadInv`: until the first event of a session, the cache is what was read,
  for every key nothing has touched since;
* `ToldInv`: outside the keys of the pending broadcast receivers know the cached
  values.

A step of the loop that takes event `e` then either touches a key, and the last
event of the key is `e` (`StoreInv` gives the value) or a later one (the
premise of `Coherent` is false); or it leaves the key, and the cached value was
right before.  That an event between two others cannot have been missed is
`NothingSkipped`, an induction of its own over `Fetch`.  The proofs are one
lemma per action; the stutters and the temporal steps are closed by `PTL`.

The refinement follows from `IInv`: an action of the stream leaves the mapped
state alone, `RefreshFirst` is `Load`, `RefreshAgain` is `Replace`, each
`Handle...` is `Change` or a stutter, and `Broadcast` is `Announce`.

### Calls of the gRPC endpoints

`RpcProofs` proves for all calls, values, refused values and numbers of changes:

| Theorem | Statement |
|---|---|
| `Invariant` | `Spec => []IInv` |
| `IdleStreamsCurrent` | `Spec => []QuietCurrent` |
| `StreamsForward` | `Spec => NeverBack` |

They are about `Rpc`, so they take the Sender as it is described there (§2).
The invariant has four parts besides the types:

* `ChannelInv`: who has a channel, and that one is closed only for a call whose
  client left;
* `OrderInv`: what a client was shown is no newer than what the handler has in
  hand, and that no newer than what is in the channel: `NeverBack` is the step
  from the first to the second in `Send`;
* `RememberInv`: the remembered reply is the one the call made last, unless it
  is among the `rivals`;
* `NewestInv`: the newest of the three is the current data, unless the call
  is `behind`.

When `SameAgain` drops a reply, `RememberInv` says that the client was shown
an equal one, so that `NewestInv` goes on to hold of what is shown; this is where
another call of the same key can break it, and why `QuietCurrent` excludes
`rivals`.  All handlers are one `Step` (`ServeSteps`), and each part of the
invariant has one lemma over the steps.

### The Sender and the sessions

`SenderProofs` proves for all receivers, keys, values and numbers of changes,
from `SenderAssumption` (a key is below itself) and `SourceAssumption`:

| Theorem | Statement |
|---|---|
| `Invariant` | `Spec => []IInv` |
| `ReceiversListedOnce` | `Spec => []ListedOnce` |
| `CanceledGetClosed` | `Spec => []DoomedClosed` |
| `ReceiversCaughtUp` | `Spec => []CaughtUp` |
| `EventsNumbered` | `Spec => EventsInOrder` |

`ListedOnce` is inductive with the types.  Its one hard step is
`clearNilReceivers`: the list is rebuilt while nobody walks it, and `newList` puts
each receiver that is left at the `Place` of its slot, the number of receivers at
or before it.  Counting gives that places of different slots differ and that
every one is taken (`Places`, `NewList`), hence that everybody is listed as often
as before.  The others need the position of the
walk: a doomed receiver, or one that has not the cached data, is `Ahead` of it
until it is closed, sent the data, or dropped (`DoomedInv`, `CaughtInv`); that
what is not announced did not change for a receiver is `GetUnchanged`, which
says that `Get`, by exact key first, depends on keys that `Concerns` covers.

`SessionProofs` proves from `SessionAssumption` and the same:

| Theorem | Statement |
|---|---|
| `SessionsUseSender` | `SessionSpec => Spec`, that of `Sender` |
| `SessionInvariant` | `SessionSpec => []SessionInv` |
| `IdleSessionsCurrent` | `SessionSpec => []ShownIsCached` |
| `ContentsNumbered` | `SessionSpec => IdsGrow` |

`Session` composes its handlers with the Sender's actions; the first theorem
says that it adds none of its own to the Sender's state, so that everything
proved of the Sender is at hand under the sessions.  `SessionInv` adds where the
handler stands to where its receiver does (`HandlerInv`), that IDs grow from the
client over the handler to the channel (`IdInv`), and that what was shown was
made of the last event or of a cache that has not changed since (`ShownInv`).

### The container watcher and the authorisation tables

`InvertedProofs` proves for all groups, lists, items and names, from
`EtcdAssumption` and `InvertedAssumption` (what has a path below it has it as a
prefix; the tree is listed in an order without repetition; the model values for
"nothing", "nil" and "to be removed" are none of the others):

| Theorem | Statement |
|---|---|
| `Invariant` | `Spec => []IInv` |
| `ContainersAreExact` | `Spec => []ContainersExact` |
| `AddressesKnown` | `Spec => []AddressKnown` |
| `AddressesRevoked` | `Spec => []Revoked` |
| `DependenciesKnown` | `Spec => []DependsKnown` |
| `ReceiversTold` | `Spec => []Announced` |
| `ContainersFeedSender` | `Spec => FeedsSender` |
| `ContainersImplementSource` | `Spec /\ kind = "container" => Src!SourceSpec` |

`convert` folds over the pairs of a tree with the table as its state.  What it
computes of a tree of any size is proved first, in closed form: induction on
the number of pairs, as a statement about the *set* of the numbers for which
the form holds (`SetInduction`), because the library's induction theorems take
an operator.  The invariant has `LoopInv`, `StreamInv` and `StoreInv` as the
watcher has, and

* `HolderInv`: deployd keeps groups disjoint, so the group that holds an item now
  was written after every other that ever listed it;
* `Due`: what the cache has for an item once the `Put`s and `Delete`s that an
  event still has to make are made; all that follows is about `Due`, so it holds
  between any two of them, in any order;
* `TableInv`: the table leads from every entry to the leaf it came from;
* `Seen`, `Later`: the index the cache and the pending work stand for, and whether
  the log touches a leaf after it;
* `KnownInv`: an item whose holder is not touched later has its holder's entry,
  unless a deletion by prefix took it; `OwnInv`: an entry whose leaf is not touched
  later has the leaf's value, or the leaf is unreadable now;
* `ToldInv`: outside the pending announcement receivers know the cached values.

Replays after a re-read are what makes this hard: while `base <= readAt` fails
the cache is ahead of `pos` for some keys and behind for others, and `KnownInv` and
`OwnInv` only speak when it does not (`Whole`).  `TableInv` holds throughout.

The refinement needs little of this: a `Put` or `Delete` changes one item and adds
it to `changed` (`Change`, like the start of an event, which changes nothing yet),
a re-read announces what it left in the cache (`Replace`), and `Broadcast` begins
only when nothing is left to apply.  With `SessionsUseSender` and the theorems of
`SenderProofs` it makes what is said of receivers hold of those of containers.

### Requests

`ApisProofs` proves for all requests, tables, names and contents of the caches,
from `AccessAssumption` (a key is not one of the special values) and
`ApisAssumption` (the pod groups a cache may hold are finitely many, their slices
are finite, and ports and instances are numbers):

| Theorem | Statement |
|---|---|
| `Invariant` | `Spec => []IInv` |
| `NamedOnly` | `Spec => []OnlyAsked` |
| `RoutersRoute` | `Spec => []HasUpstream` |
| `RoutersHalf` | `Spec => []HalfAlive` |
| `Silent` | `Spec => SilentWhenUnchanged` |

The invariant ties the answer to the request: the key is that of the API, the
side and the parameters, the data is of the API's watcher, and the content is
made of the part under the key, which `Make` does not refuse.  Every `Key`
function of a named API gives the whole key or refuses (`HttpKeyWhole`,
`RpcKeyWhole`), and `Get` under a whole key finds nothing else (`UnderWhole`).
That a router which is answered has a pod alive is a count of finitely many
pods (`OneAlive`); the list it is in is sorted, which loses nobody because a sorting
of finitely many numbers exists and is a permutation (`SortingProofs`).
For half of them, the places of pods in the answer are led into those that `Make`
counts, each to its own, and every live one is reached (`HalfLed`): the procs and
the pods of the stream router are sorted, and a sorting moves no two to one place
(`StreamPlaces`, `UpstreamPlaces`).

`Silent` has to say why equal data gives equal contents although `Make` ranges over
maps.  Most contents are functions on the keys, to which no order matters.  The
stream router's procs and its ports are gathered in lists and sorted.  `SortedSame`
says that however the elements of a finite set are listed, their numbers are
one list once sorted: where one of two sorted lists had the smaller number
(`NotBelow`), the elements with at most that number would have to fit in one place
less.  Names of pod groups are distinct, so the procs themselves, and not only their
names, come in one order; of ports the list holds nothing but the numbers.  The
lists within a proc come from slices, which have an order of their own.  `Podgroup`
does not sort and `Containers` does not compare, so `SilentWhenUnchanged` leaves
them out; `LocalSpec` does not sort either, but has no watch.

### The client libraries

`ClientsProofs` proves for all messages, callers and places of a cut, from
`ClientsAssumption` (nil is no number and no response; a part of an event's
name is not the heartbeat's):

| Theorem | Statement |
|---|---|
| `Invariant` | `Spec => []IInv` |
| `EventsInOrder` | `Spec => []InOrder` |
| `NilComesWithError` | `Spec => []NilMeansError` |

Nothing in the state says which message a line belongs to, so a history variable
`origin` does: of the line read last and of each on the wire, the message and the
place.  No guard reads it.  `WireInv` says that the wire goes on where the client
has read to, without a gap, up to the last message, and that only the last line
may be cut.  `ReadInv` says what the response being parsed is at each place: fresh
before the first line of a message, then its ID, then its kind, and given away at
the line that completes it.  A line cut short either leaves a response that nobody
is given or completes one with less data, which `InOrder` allows of the last.
`ErrorInv` says that the error is set before the channel is closed, whence a
caller that finds it closed finds the error.

### What is only model-checked

* **Liveness** (`EventuallyFresh`, `SessionEnds`, `CallEnds`, `ChannelCloses`,
  `AllGiven`, `GetReturns`) and `BroadcastNeverWaits`, which is about ENABLED: out of
  the provers' reach.

## 7. Not modelled

* `Version` and `Status` (`endpoints/lainlet.go`, the debug pages of
  `api/server.go`): they report constants and counters.
* JSON, URLs and the text of errors: `Decode`, `Encode`, the query string `Do`
  builds.
* `Put`, `Delete`, `List`, `Get`, `Exists`, `WatchTree` and `setTLS` of the
  etcd store: nothing in the program calls them.
* `message/`, `spec/`, `version/`, `main.go`, `server/`, `tools/`: generated code,
  data types, start-up; of `server/` only the registration of the endpoints.
* Restarts: nothing is persisted, a restart is `Init`.

## 8. Plan

Done: every module of §2 and every theorem of §6.  All the safety and action
properties of the runs are proved but for the one about ENABLED.  What would add
most next:

1. **One watcher with its Sender and sessions in one module**: `Watcher` composed
   with `Sender` over the refinement, so that a run follows a key from etcd to a
   client.  The refinements and the theorems of the Sender and the sessions stand
   side by side today; the composition itself is not stated.
2. **A nil from the container cache to the handler** (`localspec.go:44`):
   `Inverted` has re-reads that leave one and `Apis` says that `Make` panics
   on it; a module over both would say how long it may stay.
