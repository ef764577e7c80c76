----------------------------- MODULE TracedBus -----------------------------
(***************************************************************************)
(* TracedBus of internal/observability/bus_wrapper.go around NATSBus, as   *)
(* main composes them: Publish, Replay, Close and the unsubscribe function *)
(* are those of the inner bus; Subscribe starts a goroutine that forwards  *)
(* the inner channel into one of its own and drops what does not fit.      *)
(***************************************************************************)
EXTENDS NatsBus

CONSTANT WrapBuffer  \* defaultTracedBusBufferSize

VARIABLES
  forwarder,  \* the goroutine of each subscription
  wrapped     \* the channel the caller of Subscribe reads

tvars == <<forwarder, wrapped>>
tbvars == <<vars, tvars>>

TInit ==
  /\ Init
  /\ forwarder = [s \in Subscribers |-> "none"]
  /\ wrapped = [s \in Subscribers |-> << >>]

\* The inner Subscribe has returned, perhaps with a nil channel.
Subscribe(s) ==
  /\ forwarder[s] = "none" /\ sub[s] \notin {"none", "registered"}
  /\ forwarder' = [forwarder EXCEPT ![s] = "forwarding"]
  /\ UNCHANGED <<vars, wrapped>>

\* A send without default: the goroutine waits for the reader.
Forward_Wait(s) ==
  /\ forwarder[s] = "forwarding" /\ Len(wrapped[s]) < WrapBuffer
  /\ Take(s)
  /\ wrapped' = [wrapped EXCEPT ![s] = Append(@, Head(ch[s]))]
  /\ UNCHANGED forwarder

\* An event is forwarded, or dropped when the wrapped channel is full.
Forward(s) ==
  /\ forwarder[s] = "forwarding"
  /\ Take(s)
  /\ wrapped' = [wrapped EXCEPT ![s] =
                   IF Len(@) < WrapBuffer THEN Append(@, Head(ch[s])) ELSE @]
  /\ UNCHANGED forwarder

\* The inner channel is closed and empty, and with it the wrapped one closes.
\* A nil channel never ends the loop.
ForwardEnds(s) ==
  /\ forwarder[s] = "forwarding" /\ sub[s] = "off" /\ ch[s] = << >>
  /\ forwarder' = [forwarder EXCEPT ![s] = "ended"]
  /\ UNCHANGED <<vars, wrapped>>

\* The subscriber reads, whenever it likes.
Read(s) ==
  /\ wrapped[s] # << >>
  /\ wrapped' = [wrapped EXCEPT ![s] = Tail(@)]
  /\ UNCHANGED <<vars, forwarder>>

TNext ==
  /\ ~panicked
  /\ \/ BusStep /\ UNCHANGED tvars
     \/ \E s \in Subscribers : Subscribe(s) \/ Forward(s) \/ ForwardEnds(s) \/ Read(s)

TSpec ==
  /\ TInit /\ [][TNext]_tbvars
  /\ BusFairness
  /\ \A s \in Subscribers :
       WF_tbvars(~panicked /\ (Subscribe(s) \/ Forward(s) \/ ForwardEnds(s)))

-----------------------------------------------------------------------------
(* Properties.                                                             *)

TTypeOK ==
  /\ TypeOK
  /\ forwarder \in [Subscribers -> {"none", "forwarding", "ended"}]
  /\ \A s \in Subscribers : Len(wrapped[s]) <= WrapBuffer

\* A subscriber that does not read cannot hold up the goroutine of its
\* subscription, which waits for room in its channel: the forwarder drops.
ReaderCannotBlock == \A s \in Subscribers :
  consumer[s] = "send" ~> consumer[s] # "send" \/ panicked

\* After unsubscribe both goroutines of the subscription end.
UnsubscribedEnds == \A s \in Subscribers :
  sub[s] = "off" ~> (consumer[s] = "gone" /\ forwarder[s] = "ended") \/ panicked
=============================================================================
