------------------------------ MODULE NatsBus ------------------------------
(***************************************************************************)
(* NATSBus of internal/core/nats_bus.go: the MessageBus over a JetStream   *)
(* stream.  Publish hands the message to the connection and waits for the  *)
(* server; each subscription has a consumer at the server and a goroutine  *)
(* that moves messages from it into the channel of the subscriber;         *)
(* unsubscribe and Close stop them.  The server is external: it stores     *)
(* what it is sent, perhaps after Publish gave up, delivers the stream in  *)
(* order, and may fail any call.  It never deletes here (seven days).      *)
(***************************************************************************)
EXTENDS Naturals, Sequences, SequencesExt

CONSTANTS
  Events, Type,         \* numbers; Type[e]: the type of event e
  Client,               \* Client[e]: who publishes e, in order of the numbers
  Subscribers, Filter,  \* Filter[s]: the types s asks for, all when empty
  ChanBuffer,           \* capacity of a subscriber's channel
  Batch,                \* messages a fetch of Replay asks for at most
  Replays               \* the types and limits Replay may be called with

ASSUME NatsAssumption ==
  /\ DOMAIN Filter = Subscribers
  /\ ChanBuffer \in Nat \ {0} /\ Batch \in Nat \ {0}
  /\ \A r \in Replays : r.limit \in Nat

VARIABLES
  pub,        \* what became of each call of Publish
  flight,     \* messages handed to the connection and not stored
  stream,     \* the stream at the server
  sub,        \* each subscription; those of Known are in b.subscribers
  consumer,   \* where the goroutine of each subscription is
  start,      \* length of the stream when the consumer was created
  cursor,     \* messages of the stream that iter.Next has returned
  ch,         \* the channel of each subscription
  heard,      \* what was ever sent to it
  replay,     \* one call of Replay
  closeState,
  panicked    \* a send on a closed channel ended the process

pvars == <<pub, flight, stream>>
svars == <<sub, consumer, start, cursor, ch, heard>>
vars  == <<pvars, svars, replay, closeState, panicked>>

Init ==
  /\ pub = [e \in Events |-> "new"] /\ flight = {} /\ stream = << >>
  /\ sub = [s \in Subscribers |-> "none"]
  /\ consumer = [s \in Subscribers |-> "none"]
  /\ start = [s \in Subscribers |-> 0] /\ cursor = start
  /\ ch = [s \in Subscribers |-> << >>] /\ heard = ch
  /\ replay = [state |-> "none", types |-> {}, limit |-> 0, at |-> 0,
               out |-> << >>, due |-> {}]
  /\ closeState = "open" /\ panicked = FALSE

Done      == closeState # "open"      \* b.closed, and b.done closed
Connected == closeState # "closed"    \* before nc.Close()
Matches(types, e) == types = {} \/ Type[e] \in types

\* For each n, those of the first n events of q that match, in their order.
Kept(types, q) ==
  LET kept[n \in 0..Len(q)] ==
        IF n = 0 THEN << >>
        ELSE IF Matches(types, q[n]) THEN Append(kept[n - 1], q[n]) ELSE kept[n - 1]
  IN  kept

Matching(types, q) == Kept(types, q)[Len(q)]

-----------------------------------------------------------------------------
(* Publish.                                                                *)

\* Past the checks, made without the mutex: PublishMsg is called.
PublishSend(e) ==
  /\ pub[e] = "new" /\ ~Done
  /\ \A d \in Events : d < e /\ Client[d] = Client[e] => pub[d] \notin {"new", "sent"}
  /\ pub' = [pub EXCEPT ![e] = "sent"]
  /\ flight' = flight \union {e}
  /\ UNCHANGED <<stream, svars, replay, closeState, panicked>>

\* The bus is closed, the context cancelled, or the event invalid.
PublishRefused(e) ==
  /\ pub[e] = "new"
  /\ pub' = [pub EXCEPT ![e] = "failed"]
  /\ UNCHANGED <<flight, stream, svars, replay, closeState, panicked>>

\* A message whose Publish failed is sent again, with nothing to tell the
\* copies apart.
Store_Resent(e) ==
  /\ e \in flight /\ Connected
  /\ stream' = Append(stream, e)
  /\ flight' = IF pub[e] = "failed" THEN flight ELSE flight \ {e}
  /\ UNCHANGED <<pub, svars, replay, closeState, panicked>>

\* The server stores a message; the caller may have given up on it.
Store(e) ==
  /\ e \in flight /\ Connected
  /\ stream' = Append(stream, e)
  /\ flight' = flight \ {e}
  /\ UNCHANGED <<pub, svars, replay, closeState, panicked>>

PublishAcked(e) ==
  /\ pub[e] = "sent" /\ e \in ToSet(stream)
  /\ pub' = [pub EXCEPT ![e] = "ok"]
  /\ UNCHANGED <<flight, stream, svars, replay, closeState, panicked>>

\* No answer in five seconds, or no connection: an error either way.
PublishFails(e) ==
  /\ pub[e] = "sent"
  /\ pub' = [pub EXCEPT ![e] = "failed"]
  /\ UNCHANGED <<flight, stream, svars, replay, closeState, panicked>>

-----------------------------------------------------------------------------
(* Subscribe and unsubscribe.                                              *)

\* The subscriber is entered under the mutex ...
Register(s) ==
  /\ sub[s] = "none" /\ ~Done
  /\ sub' = [sub EXCEPT ![s] = "registered"]
  /\ UNCHANGED <<pvars, consumer, start, cursor, ch, heard, replay, closeState,
                 panicked>>

\* ... its consumer is created outside it: new messages only, one goroutine.
StartConsumer(s) ==
  /\ sub[s] = "registered" /\ Connected
  /\ sub' = [sub EXCEPT ![s] = "on"]
  /\ consumer' = [consumer EXCEPT ![s] = "loop"]
  /\ start' = [start EXCEPT ![s] = Len(stream)]
  /\ cursor' = [cursor EXCEPT ![s] = Len(stream)]
  /\ UNCHANGED <<pvars, ch, heard, replay, closeState, panicked>>

\* The bus is closed, or the consumer cannot be created: a nil channel.
SubscribeFails(s) ==
  /\ sub[s] = "registered" \/ (sub[s] = "none" /\ Done)
  /\ sub' = [sub EXCEPT ![s] = "nil"]
  /\ UNCHANGED <<pvars, consumer, start, cursor, ch, heard, replay, closeState,
                 panicked>>

\* unsubscribe: out of the map, iter.Stop(), close(ch).
UnsubscribeStep(s, from, to) ==
  /\ sub[s] = from
  /\ sub' = [sub EXCEPT ![s] = to]
  /\ UNCHANGED <<pvars, consumer, start, cursor, ch, heard, replay, closeState,
                 panicked>>

Delete(s)    == UnsubscribeStep(s, "on", "deleted")

StopIter(s)  == UnsubscribeStep(s, "deleted", "stopped")

CloseChan(s) == UnsubscribeStep(s, "stopped", "off")

-----------------------------------------------------------------------------
(* The goroutine of a subscription.                                        *)

At(s, p) == consumer' = [consumer EXCEPT ![s] = p]

\* The look at done, once per turn.
Loop(s) ==
  /\ consumer[s] = "loop"
  /\ At(s, IF Done THEN "gone" ELSE "next")
  /\ UNCHANGED <<pvars, sub, start, cursor, ch, heard, replay, closeState, panicked>>

\* iter.Next returns the next message; one of another type is passed over.
NextMessage(s) ==
  /\ consumer[s] = "next" /\ cursor[s] < Len(stream)
  /\ cursor' = [cursor EXCEPT ![s] = @ + 1]
  /\ At(s, IF Matches(Filter[s], stream[cursor[s] + 1]) THEN "send" ELSE "loop")
  /\ UNCHANGED <<pvars, sub, start, ch, heard, replay, closeState, panicked>>

\* The iterator is never stopped: the goroutine stays inside iter.Next.
NextStopped_Never(s) == FALSE /\ UNCHANGED vars

\* iter.Next returns because the iterator was stopped.
NextStopped(s) ==
  /\ consumer[s] = "next" /\ sub[s] \in {"stopped", "off"}
  /\ At(s, "gone")
  /\ UNCHANGED <<pvars, sub, start, cursor, ch, heard, replay, closeState, panicked>>

\* A timeout starts the next turn; any other error ends the subscription, of
\* which nobody is told: it stays in the map and its channel open.
NextFails(s) ==
  /\ consumer[s] = "next" /\ sub[s] \notin {"stopped", "off"}
  /\ \/ At(s, "loop") \/ At(s, "gone")
  /\ UNCHANGED <<pvars, sub, start, cursor, ch, heard, replay, closeState, panicked>>

\* The event is dropped when the channel is full, as LocalBus does.
Send_Drop(s) ==
  /\ consumer[s] = "send" /\ At(s, "loop")
  /\ LET e == stream[cursor[s]] IN
       IF Len(ch[s]) < ChanBuffer /\ sub[s] # "off"
       THEN /\ ch' = [ch EXCEPT ![s] = Append(@, e)]
            /\ heard' = [heard EXCEPT ![s] = Append(@, e)]
       ELSE UNCHANGED <<ch, heard>>
  /\ UNCHANGED <<pvars, sub, start, cursor, replay, closeState, panicked>>

\* The select: into the channel when it has room - a panic when unsubscribe
\* has closed it - or done.
Send(s) ==
  /\ consumer[s] = "send"
  /\ \/ /\ sub[s] # "off" /\ Len(ch[s]) < ChanBuffer
        /\ At(s, "loop")
        /\ ch' = [ch EXCEPT ![s] = Append(@, stream[cursor[s]])]
        /\ heard' = [heard EXCEPT ![s] = Append(@, stream[cursor[s]])]
        /\ UNCHANGED panicked
     \/ /\ sub[s] = "off" /\ panicked' = TRUE
        /\ UNCHANGED <<consumer, ch, heard>>
     \/ /\ Done /\ At(s, "gone")
        /\ UNCHANGED <<ch, heard, panicked>>
  /\ UNCHANGED <<pvars, sub, start, cursor, replay, closeState>>

\* The other end of the channel takes an event.
Take(s) ==
  /\ ch[s] # << >>
  /\ ch' = [ch EXCEPT ![s] = Tail(@)]
  /\ UNCHANGED <<pvars, sub, consumer, start, cursor, heard, replay, closeState,
                 panicked>>

-----------------------------------------------------------------------------
(* Replay: a consumer of its own over the whole stream, read in batches.   *)

ReplayStart(types, limit) ==
  /\ replay.state = "none" /\ ~Done
  /\ replay' = [state |-> "running", types |-> types, limit |-> limit, at |-> 0,
                out |-> << >>, due |-> {e \in Events : pub[e] = "ok"}]
  /\ UNCHANGED <<pvars, svars, closeState, panicked>>

BatchSize == IF replay.limit > 0 THEN Min({replay.limit, Batch}) ELSE Batch

\* A batch without a match is taken for the end of the history.
ReplayFetch_NoMatch ==
  /\ replay.state = "running" /\ Connected
  /\ LET upto  == Min({replay.at + BatchSize, Len(stream)})
         found == Matching(replay.types, SubSeq(stream, replay.at + 1, upto))
     IN  replay' = [replay EXCEPT !.at = upto, !.out = @ \o found,
                                  !.state = IF found = << >> THEN "done" ELSE @]
  /\ UNCHANGED <<pvars, svars, closeState, panicked>>

\* FetchNoWait: what the stream holds now, up to a batch; the matches are
\* kept, up to the limit; a batch with no message is the end.
ReplayFetch ==
  /\ replay.state = "running" /\ Connected
  /\ LET upto  == Min({replay.at + BatchSize, Len(stream)})
         out   == replay.out \o
                    Matching(replay.types, SubSeq(stream, replay.at + 1, upto))
         full  == replay.limit > 0 /\ Len(out) >= replay.limit
     IN  replay' = [replay EXCEPT
           !.at = upto,
           !.out = IF full THEN SubSeq(out, 1, replay.limit) ELSE out,
           !.state = IF full \/ upto = replay.at THEN "done" ELSE @]
  /\ UNCHANGED <<pvars, svars, closeState, panicked>>

\* A fetch that fails ends the loop too: what was read so far is returned,
\* without an error.  A cancelled context returns it with one.
ReplayCut ==
  /\ replay.state = "running"
  /\ replay' = [replay EXCEPT !.state = "cut"]
  /\ UNCHANGED <<pvars, svars, closeState, panicked>>

-----------------------------------------------------------------------------
(* Close.                                                                  *)

Close ==
  /\ closeState = "open"
  /\ closeState' = "closing"
  /\ UNCHANGED <<pvars, svars, replay, panicked>>

\* wg.Wait() returns; nc.Close().
CloseReturns ==
  /\ closeState = "closing"
  /\ \A s \in Subscribers : consumer[s] \in {"none", "gone"}
  /\ closeState' = "closed"
  /\ UNCHANGED <<pvars, svars, replay, panicked>>

-----------------------------------------------------------------------------
\* Everything but the reader of the channels, which is another component.
BusStep ==
  \/ \E e \in Events : \/ PublishSend(e) \/ PublishRefused(e) \/ Store(e)
                       \/ PublishAcked(e) \/ PublishFails(e)
  \/ \E s \in Subscribers : \/ Register(s) \/ StartConsumer(s) \/ SubscribeFails(s)
                            \/ Delete(s) \/ StopIter(s) \/ CloseChan(s)
                            \/ Loop(s) \/ NextMessage(s) \/ NextStopped(s)
                            \/ NextFails(s) \/ Send(s)
  \/ \E r \in Replays : ReplayStart(r.types, r.limit)
  \/ ReplayFetch \/ ReplayCut
  \/ Close \/ CloseReturns

\* The goroutines run on; what the server and the callers do is not assumed.
BusFairness ==
  /\ \A s \in Subscribers :
       /\ WF_vars(~panicked /\ (Loop(s) \/ NextStopped(s)))
       /\ WF_vars(~panicked /\ Send(s))
       /\ WF_vars(~panicked /\ (StartConsumer(s) \/ SubscribeFails(s)))
       /\ WF_vars(~panicked /\ (StopIter(s) \/ CloseChan(s)))
  /\ WF_vars(~panicked /\ CloseReturns)

-----------------------------------------------------------------------------
(* Properties.                                                             *)

TypeOK ==
  /\ pub \in [Events -> {"new", "sent", "ok", "failed"}]
  /\ flight \subseteq Events /\ ToSet(stream) \subseteq Events
  /\ sub \in [Subscribers -> {"none", "registered", "nil", "on", "deleted",
                              "stopped", "off"}]
  /\ consumer \in [Subscribers -> {"none", "loop", "next", "send", "gone"}]
  /\ \A s \in Subscribers :
       /\ start[s] <= cursor[s] /\ cursor[s] <= Len(stream)
       /\ Len(ch[s]) <= ChanBuffer
  /\ replay.state \in {"none", "running", "done", "cut"}
  /\ closeState \in {"open", "closing", "closed"} /\ panicked \in BOOLEAN

\* A subscriber hears every event of its types from the moment its consumer
\* was created, without a gap: a full channel makes the goroutine wait, and
\* only the event in its hand can be lost, when it leaves.
NoGap == \A s \in Subscribers :
  LET due == Matching(Filter[s], SubSeq(stream, start[s] + 1, cursor[s]))
  IN  \/ heard[s] = due
      \/ consumer[s] \in {"send", "gone"} /\ due # << >> /\ heard[s] = Front(due)

\* A Replay without limit that reads the stream to its end returns every event
\* of its types whose Publish had succeeded before it began, although other
\* calls of Publish go on between its batches.
ReplayComplete ==
  replay.state = "done" /\ replay.limit = 0 =>
    \A e \in replay.due : Matches(replay.types, e) => e \in ToSet(replay.out)

\* Close returns once the subscribers are gone.  (While one that is still
\* there hears nothing, its goroutine stays in iter.Next and Close with it.)
CloseTerminates ==
  closeState = "closing" /\ (\A s \in Subscribers : sub[s] \in {"none", "nil", "off"})
    ~> closeState = "closed" \/ panicked

Bus == INSTANCE MessageBus WITH
  stored <- ToSet(stream), log <- stream, heard <- heard

\* NATSBus keeps the contract of the interface that LocalBus keeps.
ImplementsMessageBus == Bus!Spec

-----------------------------------------------------------------------------
(* The inductive invariant behind NoGap, ReplayComplete and the refinement. *)

ReplayCalls ==
  [state : {"none", "running", "done", "cut"},
   types : {{}} \union {r.types : r \in Replays},
   limit : Nat, at : Nat, out : Seq(Events), due : SUBSET Events]

Shape ==
  /\ pub \in [Events -> {"new", "sent", "ok", "failed"}]
  /\ flight \subseteq Events /\ stream \in Seq(Events)
  /\ sub \in [Subscribers -> {"none", "registered", "nil", "on", "deleted",
                              "stopped", "off"}]
  /\ consumer \in [Subscribers -> {"none", "loop", "next", "send", "gone"}]
  /\ start \in [Subscribers -> Nat] /\ cursor \in [Subscribers -> Nat]
  /\ heard \in [Subscribers -> Seq(Events)]
  /\ replay \in ReplayCalls

\* A message is stored once at most, and acknowledged only when it is.
StoredOnce ==
  /\ \A e \in flight : pub[e] # "new" /\ e \notin ToSet(stream)
  /\ \A e \in ToSet(stream) : pub[e] # "new"
  /\ \A e \in Events : pub[e] = "ok" => e \in ToSet(stream)
  /\ \A i, j \in DOMAIN stream : stream[i] = stream[j] => i = j

\* What the goroutine of a subscription has read of its types up to the n-th
\* message of the stream.
Due(s, n) == Matching(Filter[s], SubSeq(stream, start[s] + 1, n))

\* A subscriber heard all of that, but for the event its goroutine holds, or
\* held when it left.
Listening == \A s \in Subscribers :
  /\ start[s] <= cursor[s] /\ cursor[s] <= Len(stream)
  /\ sub[s] \in {"none", "registered", "nil"} => consumer[s] = "none"
  /\ consumer[s] = "none" => start[s] = cursor[s]
  /\ \/ consumer[s] # "send" /\ heard[s] = Due(s, cursor[s])
     \/ /\ consumer[s] \in {"send", "gone"} /\ start[s] < cursor[s]
        /\ Matches(Filter[s], stream[cursor[s]])
        /\ heard[s] = Due(s, cursor[s] - 1)

\* What was acknowledged before a Replay is in the stream; without a limit the
\* Replay has what matches of all it has read, and it ends at the end.
Replaying ==
  /\ replay.due \subseteq ToSet(stream) /\ replay.at <= Len(stream)
  /\ replay.limit = 0 => \A i \in 1..replay.at :
       Matches(replay.types, stream[i]) => stream[i] \in ToSet(replay.out)
  /\ replay.state = "done" /\ replay.limit = 0 =>
       \A e \in replay.due : \E i \in 1..replay.at : stream[i] = e

IndInv == Shape /\ StoredOnce /\ Listening /\ Replaying
=============================================================================
