------------------------------ MODULE LocalBus ------------------------------
(***************************************************************************)
(* The in-process event bus, internal/core/local_bus.go, over the memory   *)
(* event store, event_store_memory.go: goroutines inside Publish, the      *)
(* dispatchLoop and cleanupLoop goroutines, a goroutine inside Replay,     *)
(* subscribers that come and go, and Close.                                *)
(*                                                                         *)
(* A subscriber's channel is modelled by how full it is.  It is first in,  *)
(* first out, so what was put into it is what its reader sees, in order.   *)
(***************************************************************************)
EXTENDS Integers, Sequences, FiniteSets

CONSTANTS
  Events,        \* the events producers publish, each once
  Type, Stamp,   \* the eventType and the timestamp of each event
  Subscribers,   \* one for each call of Subscribe
  Filter,        \* the event types each subscriber asks for; {} means all
  PublishBuffer, \* publishBufferSize
  SubBuffer,     \* SubscribeOptions.BufferSize
  MaxEvents,     \* StoreConfig.MaxEvents
  Limits         \* the values of ReplayOptions.Limit to try; 0 means none

ASSUME BusAssumption ==
  /\ IsFiniteSet(Events) /\ IsFiniteSet(Subscribers)
  /\ Stamp \in [Events -> Int]
  /\ DOMAIN Type = Events /\ DOMAIN Filter = Subscribers
  /\ PublishBuffer \in Nat \ {0} /\ SubBuffer \in Nat \ {0}
  /\ MaxEvents \in Nat \ {0}
  /\ Limits \subseteq Nat

VARIABLES
  pub,         \* how far the Publish of each event is, or how it ended
  entries,     \* the events in the store, in the order of Append
  written,     \* all events put into publishCh so far
  taken,       \* how many of them dispatchLoop has taken out
  dispatcher,  \* where dispatchLoop is
  fan,         \* per fanout: the subscribers of its snapshot still to serve
  replay,      \* the call of Replay: its state, what it has still to fan out,
               \* and the subscribers it shows everything that is stored
  cleaner,     \* cleanupLoop has not returned
  closeState,  \* Close: not called, done closed, returned
  sub,         \* whether each subscriber is subscribed
  buffered,    \* how many events its channel holds
  heard,       \* history: what dispatchLoop put into the channel
  got          \* history: the events sent to it, or dropped and counted

store == <<entries, cleaner>>
loop  == <<taken, dispatcher>>
subs  == <<sub, buffered, heard, got>>
vars  == <<pub, store, written, loop, fan, replay, closeState, subs>>

\* Publish returns an error before the event is persisted ("refused") or after
\* that ("abandoned").
PubStates == {"new", "checked", "stored", "ok", "refused", "abandoned"}
Fanouts   == {"live", "replay"}

Done      == closeState # "open"
publishCh == SubSeq(written, taken + 1, Len(written))
Active    == {s \in Subscribers : sub[s] = "on"}
InStore   == {entries[i] : i \in DOMAIN entries}
Persisted == {e \in Events : pub[e] \in {"stored", "ok", "abandoned"}}

-----------------------------------------------------------------------------
Init ==
  /\ pub = [e \in Events |-> "new"]
  /\ entries = << >> /\ cleaner = TRUE
  /\ written = << >> /\ taken = 0
  /\ dispatcher = "select"
  /\ fan = [f \in Fanouts |-> {}]
  /\ replay = [state |-> "none", todo |-> << >>, for |-> {}]
  /\ closeState = "open"
  /\ sub      = [s \in Subscribers |-> "none"]
  /\ buffered = [s \in Subscribers |-> 0]
  /\ heard    = [s \in Subscribers |-> << >>]
  /\ got      = [s \in Subscribers |-> {}]

-----------------------------------------------------------------------------
(* Publish, by a goroutine of its own for every event.                     *)

\* The bus is open and the schema accepts the event.
PublishCheck(e) ==
  /\ pub[e] = "new" /\ ~Done
  /\ pub' = [pub EXCEPT ![e] = "checked"]
  /\ UNCHANGED <<store, written, loop, fan, replay, closeState, subs>>

\* store.Append, under the store's mutex.
PublishAppend(e) ==
  /\ pub[e] = "checked" /\ closeState # "closed"
  /\ pub' = [pub EXCEPT ![e] = "stored"]
  /\ entries' = Append(entries, e)
  /\ UNCHANGED <<cleaner, written, loop, fan, replay, closeState, subs>>

\* The bus is closed, or the schema does not accept the event; the store is
\* closed, or fails, or the caller's context is cancelled.
PublishRefused(e) ==
  /\ pub[e] \in {"new", "checked"}
  /\ pub' = [pub EXCEPT ![e] = "refused"]
  /\ UNCHANGED <<store, written, loop, fan, replay, closeState, subs>>

\* The event is written, and appended to the store afterwards.
PublishSend_Early(e) ==
  /\ pub[e] = "checked" /\ Len(publishCh) < PublishBuffer
  /\ \A i \in DOMAIN written : written[i] # e
  /\ written' = Append(written, e)
  /\ UNCHANGED <<pub, store, loop, fan, replay, closeState, subs>>

\* The last select: room in publishCh, even if done is closed as well ...
PublishSend(e) ==
  /\ pub[e] = "stored" /\ Len(publishCh) < PublishBuffer
  /\ pub' = [pub EXCEPT ![e] = "ok"]
  /\ written' = Append(written, e)
  /\ UNCHANGED <<store, loop, fan, replay, closeState, subs>>

\* ... or done: an error for an event that is in the store.
PublishAbandon(e) ==
  /\ pub[e] = "stored" /\ Done
  /\ pub' = [pub EXCEPT ![e] = "abandoned"]
  /\ UNCHANGED <<store, written, loop, fan, replay, closeState, subs>>

Publish(e) ==
  \/ PublishCheck(e) \/ PublishAppend(e) \/ PublishRefused(e)
  \/ PublishSend(e) \/ PublishAbandon(e)

-----------------------------------------------------------------------------
(* fanout, called by dispatchLoop and by Replay: a snapshot of the         *)
(* subscribers under the read lock, then one send to each that matches.    *)
Wants(s, e) == Filter[s] = {} \/ Type[e] \in Filter[s]

Snapshot(f, e) == fan' = [fan EXCEPT ![f] = {s \in Active : Wants(s, e)}]

\* A full channel loses the event and nobody notes it.
Offer_Silent(f, s, e) ==
  /\ s \in fan[f]
  /\ fan' = [fan EXCEPT ![f] = @ \ {s}]
  /\ IF buffered[s] < SubBuffer
     THEN /\ buffered' = [buffered EXCEPT ![s] = @ + 1]
          /\ heard' = IF f = "live" THEN [heard EXCEPT ![s] = Append(@, e)] ELSE heard
          /\ got' = [got EXCEPT ![s] = @ \union {e}]
     ELSE UNCHANGED <<buffered, heard, got>>
  /\ UNCHANGED sub

\* The send never waits: with the channel full the event is dropped, counted.
Offer(f, s, e) ==
  /\ s \in fan[f]
  /\ fan' = [fan EXCEPT ![f] = @ \ {s}]
  /\ got' = [got EXCEPT ![s] = @ \union {e}]
  /\ \/ /\ buffered[s] < SubBuffer
        /\ buffered' = [buffered EXCEPT ![s] = @ + 1]
        /\ heard' = IF f = "live" THEN [heard EXCEPT ![s] = Append(@, e)] ELSE heard
     \/ /\ buffered[s] = SubBuffer
        /\ UNCHANGED <<buffered, heard>>
  /\ UNCHANGED sub

-----------------------------------------------------------------------------
(* dispatchLoop.                                                           *)

\* An event is taken from publishCh; before Close, and after it to drain.
Take ==
  /\ dispatcher # "exited" /\ fan["live"] = {} /\ publishCh # << >>
  /\ taken' = taken + 1
  /\ Snapshot("live", written[taken + 1])
  /\ UNCHANGED <<pub, store, written, dispatcher, replay, closeState, subs>>

OfferLive(s) ==
  /\ Offer("live", s, written[taken])
  /\ UNCHANGED <<pub, store, written, loop, replay, closeState>>

\* select takes done, whether or not publishCh is empty.
StartDrain ==
  /\ dispatcher = "select" /\ fan["live"] = {} /\ Done
  /\ dispatcher' = "drain"
  /\ UNCHANGED <<pub, store, written, taken, fan, replay, closeState, subs>>

\* The drain finds publishCh empty: dispatchLoop returns.
DrainEnds ==
  /\ dispatcher = "drain" /\ fan["live"] = {} /\ publishCh = << >>
  /\ dispatcher' = "exited"
  /\ UNCHANGED <<pub, store, written, taken, fan, replay, closeState, subs>>

Dispatch ==
  \/ Take \/ StartDrain \/ DrainEnds
  \/ \E s \in Subscribers : OfferLive(s)

-----------------------------------------------------------------------------
(* The store: Cleanup by cleanupLoop, and Query.                           *)

\* The oldest entries are past the TTL (any number of them), and of the rest
\* the newest MaxEvents stay.
Cleanup ==
  /\ cleaner
  /\ \E n \in 0..Len(entries) :
       LET fresh  == SubSeq(entries, n + 1, Len(entries))
           excess == Len(fresh) - MaxEvents
       IN  entries' = IF excess > 0 THEN SubSeq(fresh, excess + 1, Len(fresh))
                      ELSE fresh
  /\ UNCHANGED <<pub, cleaner, written, loop, fan, replay, closeState, subs>>

CleanupLoopExits_Never == FALSE /\ UNCHANGED vars

\* cleanupLoop takes done, sooner or later.
CleanupLoopExits ==
  /\ cleaner /\ Done
  /\ cleaner' = FALSE
  /\ UNCHANGED <<pub, entries, written, loop, fan, replay, closeState, subs>>

\* The ways to sort a set of events by timestamp, equal ones in any order.
ByTime(S) ==
  {q \in [1..Cardinality(S) -> S] :
     \A i, j \in DOMAIN q : i < j => q[i] # q[j] /\ Stamp[q[i]] <= Stamp[q[j]]}

\* What Query may return: the events of the types asked for (all, if none is
\* named), oldest first, no more than the limit.  The limits on time and
\* source are further filters of the same kind and are left out.
QueryResults(types, limit) ==
  LET found == {e \in InStore : types = {} \/ Type[e] \in types}
  IN  {IF limit > 0 /\ limit < Len(q) THEN SubSeq(q, 1, limit) ELSE q :
         q \in ByTime(found)}

-----------------------------------------------------------------------------
(* Replay, by the goroutine of a caller; one call of it is modelled.       *)

ReplayQuery(types, limit) ==
  /\ replay.state = "none" /\ closeState # "closed"
  /\ \E found \in QueryResults(types, limit) :
       replay' = [state |-> "running", todo |-> found,
                  for |-> IF types = {} /\ limit = 0 THEN Active ELSE {}]
  /\ UNCHANGED <<pub, store, written, loop, fan, closeState, subs>>

\* The next event of the result is fanned out, by this goroutine.
ReplayNext ==
  /\ replay.state = "running" /\ replay.todo # << >> /\ fan["replay"] = {}
  /\ Snapshot("replay", Head(replay.todo))
  /\ IF \E s \in Active : Wants(s, Head(replay.todo))
     THEN UNCHANGED replay
     ELSE replay' = [replay EXCEPT !.todo = Tail(@)]
  /\ UNCHANGED <<pub, store, written, loop, closeState, subs>>

OfferReplayed(s) ==
  /\ Offer("replay", s, Head(replay.todo))
  /\ replay' = IF fan["replay"] = {s} THEN [replay EXCEPT !.todo = Tail(@)]
               ELSE replay
  /\ UNCHANGED <<pub, store, written, loop, closeState>>

\* Replay returns.
ReplayEnds ==
  /\ replay.state = "running" /\ replay.todo = << >>
  /\ replay' = [replay EXCEPT !.state = "done"]
  /\ UNCHANGED <<pub, store, written, loop, fan, closeState, subs>>

Replay ==
  \/ \E types \in SUBSET {Type[e] : e \in Events}, limit \in Limits :
       ReplayQuery(types, limit)
  \/ ReplayNext \/ ReplayEnds
  \/ \E s \in Subscribers : OfferReplayed(s)

-----------------------------------------------------------------------------
(* Subscribers and Close.                                                  *)

Subscribe(s) ==
  /\ sub[s] = "none"
  /\ sub' = [sub EXCEPT ![s] = "on"]
  /\ UNCHANGED <<pub, store, written, loop, fan, replay, closeState, buffered,
                 heard, got>>

\* The subscriber leaves the map; snapshots taken before still have it, and
\* its channel stays open.
Unsubscribe(s) ==
  /\ sub[s] = "on"
  /\ sub' = [sub EXCEPT ![s] = "off"]
  /\ UNCHANGED <<pub, store, written, loop, fan, replay, closeState, buffered,
                 heard, got>>

\* The subscriber reads its channel.
Receive(s) ==
  /\ buffered[s] > 0
  /\ buffered' = [buffered EXCEPT ![s] = @ - 1]
  /\ UNCHANGED <<pub, store, written, loop, fan, replay, closeState, sub, heard,
                 got>>

\* Close, up to wg.Wait().
Close ==
  /\ closeState = "open"
  /\ closeState' = "closing"
  /\ UNCHANGED <<pub, store, written, loop, fan, replay, subs>>

\* Both loops have returned; the store is closed, which empties it.
CloseReturns ==
  /\ closeState = "closing" /\ dispatcher = "exited" /\ ~cleaner
  /\ closeState' = "closed"
  /\ entries' = << >>
  /\ UNCHANGED <<pub, cleaner, written, loop, fan, replay, subs>>

-----------------------------------------------------------------------------
Next ==
  \/ \E e \in Events : Publish(e)
  \/ Dispatch \/ Cleanup \/ CleanupLoopExits \/ Replay
  \/ \E s \in Subscribers : Subscribe(s) \/ Unsubscribe(s) \/ Receive(s)
  \/ Close \/ CloseReturns

Spec == Init /\ [][Next]_vars

(***************************************************************************)
(* The loops and the goroutines inside Publish and Close run on.  Nobody   *)
(* has to publish, subscribe, read a channel, replay or close.             *)
(***************************************************************************)
Fairness ==
  /\ WF_vars(Dispatch) /\ WF_vars(CleanupLoopExits) /\ WF_vars(CloseReturns)
  /\ \A e \in Events : WF_vars(pub[e] # "new" /\ Publish(e))

FairSpec == Spec /\ Fairness

-----------------------------------------------------------------------------
(* Properties.                                                             *)

TypeOK ==
  /\ pub \in [Events -> PubStates]
  /\ Len(publishCh) <= PublishBuffer
  /\ taken \in 0..Len(written)
  /\ InStore \subseteq Events /\ cleaner \in BOOLEAN
  /\ dispatcher \in {"select", "drain", "exited"}
  /\ fan \in [Fanouts -> SUBSET Subscribers]
  /\ replay.state \in {"none", "running", "done"} /\ replay.for \subseteq Subscribers
  /\ closeState \in {"open", "closing", "closed"}
  /\ sub \in [Subscribers -> {"none", "on", "off"}]
  /\ buffered \in [Subscribers -> 0..SubBuffer]
  /\ got \in [Subscribers -> SUBSET Events]

\* A subscriber that subscribes, then lets a full Replay run, misses nothing:
\* of the events still in the store, each that dispatchLoop is done with was
\* sent to it, live or replayed, or its loss was counted.  Append before the
\* write to publishCh, and the snapshot of fanout, make it so.
CatchUp ==
  replay.state = "done" => \A s \in replay.for \intersect Active :
    \A i \in 1..taken :
      \/ written[i] \in got[s] \/ written[i] \notin InStore
      \/ ~Wants(s, written[i])
      \/ i = taken /\ s \in fan["live"]

\* Neither a Publish that persisted its event nor Close waits for ever, with
\* publishCh full and dispatchLoop gone, with slow subscribers and replays.
CallsReturn ==
  /\ \A e \in Events : pub[e] = "stored" ~> pub[e] \in {"ok", "abandoned"}
  /\ closeState = "closing" ~> closeState = "closed"

Bus == INSTANCE MessageBus WITH
  stored <- Persisted, log <- written, heard <- heard

\* LocalBus keeps the contract of the interface: persisted first, one order
\* for all subscribers, each event at most once, replays aside.
ImplementsMessageBus == Bus!Spec

-----------------------------------------------------------------------------
(* The inductive invariant behind CatchUp and the refinement.              *)

\* What TypeOK leaves open about the sequences.
Shape ==
  /\ entries \in Seq(Events) /\ written \in Seq(Events)
  /\ replay \in [state : {"none", "running", "done"}, todo : Seq(Events),
                 for : SUBSET Subscribers]
  /\ heard \in [Subscribers -> Seq(Events)]

\* What is in publishCh, or was, is persisted, and was put there once.
WrittenOnce ==
  /\ \A i \in DOMAIN written : pub[written[i]] = "ok"
  /\ \A i, j \in DOMAIN written : written[i] = written[j] => i = j

\* What a subscriber heard was taken; and the event being fanned out is news to
\* those it has still to be offered to.
Hearing ==
  /\ fan["live"] # {} => taken > 0
  /\ \A s \in Subscribers : \A j \in DOMAIN heard[s] :
       \E k \in 1..taken :
         heard[s][j] = written[k] /\ (s \in fan["live"] => k < taken)

ToReplay == {replay.todo[i] : i \in DOMAIN replay.todo}

\* The event a Replay is fanning out was offered, or will be, to those that
\* wait for everything; and what such a subscriber misses is still to replay.
Replaying ==
  /\ \A s \in replay.for : sub[s] # "none"
  /\ fan["replay"] # {} =>
       /\ replay.state = "running" /\ replay.todo # << >>
       /\ \A s \in replay.for \intersect Active :
            \/ ~Wants(s, Head(replay.todo))
            \/ s \in fan["replay"] \/ Head(replay.todo) \in got[s]
  /\ \A s \in replay.for \intersect Active : \A i \in 1..taken :
       \/ written[i] \in got[s] \/ written[i] \notin InStore
       \/ ~Wants(s, written[i])
       \/ i = taken /\ s \in fan["live"]
       \/ replay.state = "running" /\ written[i] \in ToReplay

IndInv == TypeOK /\ Shape /\ WrittenOnce /\ Hearing /\ Replaying
=============================================================================
