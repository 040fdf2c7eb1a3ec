------------------------------- MODULE Sender -------------------------------
(***************************************************************************)
(* Sender (watcher/sender.go): the list of receivers of one watcher, each  *)
(* with a channel of one event.  Broadcast walks the list under the lock   *)
(* of the Sender while readers take events and cancel their contexts;      *)
(* Watch and clearNilReceivers wait for the lock.  Source says what the    *)
(* watcher's goroutine does to the cache and when it calls Broadcast.      *)
(***************************************************************************)
EXTENDS Source, Naturals, Sequences, FiniteSets

CONSTANTS
  Receivers, \* the calls of Watch
  Nil,       \* a slot of the list whose receiver was removed
  Watched,   \* Watched[r]: the key string receiver r asked for
  Under,     \* Under[s]: the keys that have the string s as a prefix
  MaxClock   \* bound: the number of changes of the cache in a behaviour

ASSUME SenderAssumption ==
  /\ Nil \notin Receivers
  /\ \A r \in Receivers :
       /\ Under[Watched[r]] \subseteq Keys
       /\ Watched[r] \in Keys => Watched[r] \in Under[Watched[r]]
  /\ MaxClock \in Nat

VARIABLES
  slots,     \* Sender.receivers
  walk,      \* Broadcast: the slot it looks at, 0 when it does not hold the lock
  nils,      \* Broadcast: its nilCounter
  clears,    \* the clearNilReceivers goroutines waiting for the lock
  chan,      \* chan[r]: the events in the channel of r
  open,      \* open[r]: "new" before Watch, "open", or "closed"
  canceled,  \* the receivers whose context is done
  counter,   \* counter[r]: the ID of the next event of r
  \* History of the run:
  clock,     \* the number of changes of the cache so far
  got,       \* got[r]: the last event put in the channel of r; before that,
             \* what Get would have answered when r was registered
  missed,    \* the receivers that missed a change since the last event sent
  doomed     \* the receivers found canceled when the Broadcast began

senderVars == <<slots, walk, nils, clears, chan, open, canceled, counter>>
receiverHist == <<clock, got, missed, doomed>>
allVars == <<sourceVars, senderVars, receiverHist>>

(* Cacher.Get: the key alone when the cache has it, else all it prefixes. *)
Get(c, s) ==
  LET found == IF s \in Present(c) THEN {s} ELSE Present(c) \intersect Under[s]
  IN  {<<k, c[k]>> : k \in found}

(* An event: its ID, and the part of the cache that Get returned. *)
EventFor(r, id) == [id |-> id, data |-> Get(cache, Watched[r]), at |-> clock]

Events == [id : Nat, data : SUBSET (Keys \X Values), at : Nat]

TypeOK ==
  /\ SourceTypeOK
  /\ slots \in Seq(Receivers \union {Nil})
  /\ {walk, nils, clears, clock} \subseteq Nat
  /\ chan \in [Receivers -> Seq(Events)]
  /\ \A r \in Receivers : Len(chan[r]) <= 1
  /\ open \in [Receivers -> {"new", "open", "closed"}]
  /\ canceled \subseteq Receivers
  /\ counter \in [Receivers -> Nat]
  /\ got \in [Receivers -> Events]
  /\ missed \union doomed \subseteq Receivers

\* Slip: the receiver does not leave number 1 to the init event.
InitFromOne ==
  /\ SourceInit
  /\ slots = <<>> /\ walk = 0 /\ nils = 0 /\ clears = 0
  /\ chan = [r \in Receivers |-> <<>>]
  /\ open = [r \in Receivers |-> "new"]
  /\ canceled = {}
  /\ counter = [r \in Receivers |-> 1]
  /\ clock = 0
  /\ got = [r \in Receivers |-> EventFor(r, 1)]
  /\ missed = {} /\ doomed = {}

Init ==
  /\ SourceInit
  /\ slots = <<>> /\ walk = 0 /\ nils = 0 /\ clears = 0
  /\ chan = [r \in Receivers |-> <<>>]
  /\ open = [r \in Receivers |-> "new"]
  /\ canceled = {}
  /\ counter = [r \in Receivers |-> 2]
  /\ clock = 0
  /\ got = [r \in Receivers |-> EventFor(r, 1)]
  /\ missed = {} /\ doomed = {}

-----------------------------------------------------------------------------
(* The watcher's goroutine changes the cache. *)

\* Slip: only the watched key itself.
ConcernsExactly(keys, r) == Watched[r] \in keys

Concerns(keys, r) == keys \intersect Under[Watched[r]] # {}

(* Receivers whose part of the cache a new read changes, and that the      *)
(* announcement of the keys it found will not concern.                     *)
PassedOver(new, keys) ==
  {r \in Receivers : /\ ~Concerns(keys, r)
                     /\ Get(new, Watched[r]) # Get(cache, Watched[r])}

CacheRead(new) ==
  /\ clock < MaxClock
  /\ Load(new) \/ Replace(new)
  /\ clock' = clock + 1
  /\ missed' = missed \union PassedOver(new, pending')
  /\ UNCHANGED <<senderVars, got, doomed>>

Lock == walk = 0   \* what Watch and clearNilReceivers wait for

(* Between two calls of Broadcast, so that nobody walks the list. *)
CacheEvent(new) ==
  /\ clock < MaxClock /\ Lock
  /\ \E keys \in SUBSET Keys : Change(new, keys)
  /\ clock' = clock + 1
  /\ UNCHANGED <<senderVars, got, missed, doomed>>

(* Broadcast takes the lock. *)
Broadcast ==
  /\ mode = "announcing" /\ Lock
  /\ walk' = 1
  /\ nils' = 0
  /\ doomed' = {r \in canceled : open[r] = "open"}
  /\ UNCHANGED <<sourceVars, slots, clears, chan, open, canceled, counter,
                 clock, got, missed>>

Visiting(r) ==
  /\ walk \in 1..Len(slots)
  /\ slots[walk] = r
  /\ walk' = walk + 1
  /\ UNCHANGED <<sourceVars, clears, canceled, clock, doomed>>

\* Slip: the loop ends at the first empty slot.
VisitNilStops ==
  /\ walk \in DOMAIN slots /\ slots[walk] = Nil
  /\ walk' = Len(slots) + 1
  /\ nils' = nils + 1
  /\ UNCHANGED <<sourceVars, clears, canceled, clock, doomed, slots, chan,
                 open, counter, got, missed>>

VisitNil ==
  /\ Visiting(Nil)
  /\ nils' = nils + 1
  /\ UNCHANGED <<slots, chan, open, counter, got, missed>>

\* Slip: the slot keeps the closed receiver.
VisitCanceledKeeps(r) ==
  /\ Visiting(r)
  /\ r \in canceled
  /\ open' = [open EXCEPT ![r] = "closed"]
  /\ UNCHANGED <<slots, nils, chan, counter, got, missed>>

(* The context is done: close the channel and empty the slot. *)
VisitCanceled(r) ==
  /\ Visiting(r)
  /\ r \in canceled
  /\ open' = [open EXCEPT ![r] = "closed"]
  /\ slots' = [slots EXCEPT ![walk] = Nil]
  /\ UNCHANGED <<nils, chan, counter, got, missed>>

\* Slip: a channel of two events.
VisitSendsTwo(r) ==
  /\ Visiting(r)
  /\ r \notin canceled
  /\ Concerns(pending, r)
  /\ Len(chan[r]) <= 1
  /\ LET e == EventFor(r, counter[r])
     IN  /\ chan' = [chan EXCEPT ![r] = Append(@, e)]
         /\ got' = [got EXCEPT ![r] = e]
  /\ counter' = [counter EXCEPT ![r] = @ + 1]
  /\ missed' = missed \ {r}
  /\ UNCHANGED <<slots, nils, open>>

(* The channel has room: send the receiver's part of the cache. *)
VisitSends(r) ==
  /\ Visiting(r)
  /\ r \notin canceled
  /\ Concerns(pending, r)
  /\ chan[r] = <<>>
  /\ LET e == EventFor(r, counter[r])
     IN  /\ chan' = [chan EXCEPT ![r] = <<e>>]
         /\ got' = [got EXCEPT ![r] = e]
  /\ counter' = [counter EXCEPT ![r] = @ + 1]
  /\ missed' = missed \ {r}
  /\ UNCHANGED <<slots, nils, open>>

\* Slip: the counter counts the dropped events too.
VisitDropsCounted(r) ==
  /\ Visiting(r)
  /\ r \notin canceled
  /\ Concerns(pending, r)
  /\ chan[r] # <<>>
  /\ counter' = [counter EXCEPT ![r] = @ + 1]
  /\ missed' = missed \union {r}
  /\ UNCHANGED <<slots, nils, chan, open, got>>

\* Slip: without a default branch Broadcast waits for the reader.
VisitDropsNever(r) ==
  /\ Visiting(r)
  /\ r \notin canceled
  /\ Concerns(pending, r)
  /\ FALSE
  /\ UNCHANGED <<slots, nils, chan, open, counter, got, missed>>

(* The channel is full: the event is dropped. *)
VisitDrops(r) ==
  /\ Visiting(r)
  /\ r \notin canceled
  /\ Concerns(pending, r)
  /\ chan[r] # <<>>
  /\ missed' = missed \union {r}
  /\ UNCHANGED <<slots, nils, chan, open, counter, got>>

VisitUnconcerned(r) ==
  /\ Visiting(r)
  /\ r \notin canceled
  /\ ~Concerns(pending, r)
  /\ UNCHANGED <<slots, nils, chan, open, counter, got, missed>>

(* The end of the walk: perhaps start clearNilReceivers, and unlock. *)
BroadcastReturns ==
  /\ walk > Len(slots)
  /\ Announce
  /\ clears' = IF nils > 0 /\ nils >= Len(slots) \div 2 THEN clears + 1
                                                      ELSE clears
  /\ walk' = 0
  /\ UNCHANGED <<slots, nils, chan, open, canceled, counter, receiverHist>>

(* The receivers that are left, in the order they had.                     *)
Kept == {i \in DOMAIN slots : slots[i] # Nil}

Place(i) == Cardinality({j \in Kept : j <= i})

newList ==
  [n \in 1 .. Cardinality(Kept) |-> slots[CHOOSE i \in Kept : Place(i) = n]]

ClearNilReceivers ==
  /\ clears > 0 /\ Lock
  /\ slots' = newList
  /\ clears' = clears - 1
  /\ UNCHANGED <<sourceVars, walk, nils, chan, open, canceled, counter,
                 receiverHist>>

-----------------------------------------------------------------------------
(* The handlers that watch. *)

Watch(r) ==
  /\ open[r] = "new" /\ Lock
  /\ slots' = Append(slots, r)
  /\ open' = [open EXCEPT ![r] = "open"]
  /\ got' = [got EXCEPT ![r] = EventFor(r, 1)]
  /\ missed' = missed \ {r}
  /\ UNCHANGED <<sourceVars, walk, nils, clears, chan, canceled, counter,
                 clock, doomed>>

Receive(r) ==
  /\ chan[r] # <<>>
  /\ chan' = [chan EXCEPT ![r] = Tail(@)]
  /\ UNCHANGED <<sourceVars, slots, walk, nils, clears, open, canceled,
                 counter, receiverHist>>

(* The connection behind r ends; the handler may already have left. *)
Cancel(r) ==
  /\ r \notin canceled
  /\ canceled' = canceled \union {r}
  /\ UNCHANGED <<sourceVars, slots, walk, nils, clears, chan, open, counter,
                 receiverHist>>

Walk ==
  \/ Broadcast \/ VisitNil \/ BroadcastReturns
  \/ \E r \in Receivers : \/ VisitCanceled(r) \/ VisitSends(r)
                          \/ VisitDrops(r) \/ VisitUnconcerned(r)

Next ==
  \/ \E new \in Caches : CacheRead(new) \/ CacheEvent(new)
  \/ Walk
  \/ ClearNilReceivers
  \/ \E r \in Receivers : Watch(r) \/ Receive(r) \/ Cancel(r)

Spec == Init /\ [][Next]_allVars

-----------------------------------------------------------------------------
(* The list holds each open channel exactly once and no closed one, so     *)
(* that clearNilReceivers, Watch and Broadcast together never lose a       *)
(* receiver, serve one twice, or send on or close a closed channel, which  *)
(* would panic (sender.go 40-83, 87-114).                                  *)
ListedOnce ==
  /\ \A i \in DOMAIN slots : slots[i] # Nil => open[slots[i]] = "open"
  /\ \A i, j \in DOMAIN slots : i # j /\ slots[i] # Nil => slots[i] # slots[j]
  /\ \A r \in Receivers :
       open[r] = "open" => \E i \in DOMAIN slots : slots[i] = r

(* Between broadcasts the last event of a live receiver is its part of the *)
(* cache, although notices go by prefix and Get by exact key first, unless *)
(* an event found the channel full or a new read passed the receiver over  *)
(* (sender.go 62-77, cacher.go 67-82).                                     *)
CaughtUp ==
  mode = "idle" =>
    \A r \in Receivers :
      open[r] = "open" /\ r \notin canceled \union missed =>
        got[r].data = Get(cache, Watched[r])

(* The events of a receiver are numbered without a hole even when some are *)
(* dropped, and never carry an older cache (sender.go 62-77, 87-100).      *)
EventsInOrder ==
  [][\A r \in Receivers : counter'[r] # counter[r] =>
       got'[r].id = got[r].id + 1 /\ got'[r].at >= got[r].at]_allVars

(* A Broadcast closes the channel of every receiver that was canceled when *)
(* it began, whatever happens to the list meanwhile (sender.go 48-61).     *)
DoomedClosed ==
  walk > Len(slots) => \A r \in doomed : open[r] = "closed"

(* The parts of the invariant that the proofs of these need.               *)
(* The lock is only held while the watcher's goroutine announces.          *)
WalkInv == mode # "announcing" => walk = 0 /\ pending = {}

(* What a channel holds is the last event sent; it is closed only for a    *)
(* receiver whose context is done.                                         *)
ChannelInv ==
  \A r \in Receivers :
    /\ chan[r] # <<>> => chan[r] = <<got[r]>>
    /\ open[r] = "new" => chan[r] = <<>>
    /\ open[r] = "closed" => r \in canceled

CountInv ==
  \A r \in Receivers :
    /\ got[r].id + 1 = counter[r] /\ got[r].at <= clock
    /\ open[r] = "new" => counter[r] = 2

\* The walk still comes by receiver r.
Ahead(r) == \E i \in walk .. Len(slots) : slots[i] = r

DoomedInv ==
  /\ doomed \subseteq canceled
  /\ walk > 0 => \A r \in doomed : open[r] = "closed" \/ Ahead(r)

(* A receiver that has not the data of the cache is going to be sent it.   *)
CaughtInv ==
  \A r \in Receivers : open[r] = "open" /\ r \notin canceled \union missed =>
    \/ got[r].data = Get(cache, Watched[r])
    \/ mode = "announcing" /\ Concerns(pending, r) /\ (walk = 0 \/ Ahead(r))

(* The invariant from which they follow (sender.go 40-114).                *)
IInv == /\ TypeOK /\ WalkInv /\ ListedOnce /\ ChannelInv /\ CountInv
        /\ DoomedInv /\ CaughtInv

(* A Broadcast that has begun, or that waits to begin, can always take its *)
(* next step by itself: it waits for nobody to read, to cancel or to       *)
(* compact the list, so that no reader keeps the watcher from going on     *)
(* (sender.go 40-83).                                                      *)
BroadcastNeverWaits == mode = "announcing" => ENABLED Walk
=============================================================================
