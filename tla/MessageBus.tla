----------------------------- MODULE MessageBus -----------------------------
(***************************************************************************)
(* What the MessageBus interface of internal/core/bus.go promises its      *)
(* callers, whichever implementation stands behind it: an event reaches    *)
(* subscribers only after it was persisted, the bus puts the events in one *)
(* order, and each subscriber hears some of them, each once, in that       *)
(* order.  Nothing is promised about which ones: a slow subscriber loses   *)
(* events, and one that subscribed late missed the earlier ones.           *)
(***************************************************************************)
EXTENDS Naturals, Sequences

CONSTANTS Events, Subscribers

VARIABLES
  stored,  \* the events that were persisted
  log,     \* the order in which the bus dispatches events
  heard    \* what each subscriber was sent, replays excepted

bvars == <<stored, log, heard>>

Start ==
  /\ stored = {} /\ log = << >>
  /\ heard = [s \in Subscribers |-> << >>]

Persist(e) ==
  /\ e \notin stored
  /\ stored' = stored \union {e}
  /\ UNCHANGED <<log, heard>>

Order(e) ==
  /\ e \in stored
  /\ \A i \in DOMAIN log : log[i] # e
  /\ log' = Append(log, e)
  /\ UNCHANGED <<stored, heard>>

\* A log that is the store orders an event by persisting it.
PersistInOrder(e) ==
  /\ e \notin stored
  /\ stored' = stored \union {e}
  /\ log' = Append(log, e)
  /\ UNCHANGED heard

\* Subscriber s is sent the i-th event of the order, after what it heard.
Hear(s, i) ==
  /\ \A j \in DOMAIN heard[s] : \A k \in DOMAIN log :
       heard[s][j] = log[k] => k < i
  /\ heard' = [heard EXCEPT ![s] = Append(@, log[i])]
  /\ UNCHANGED <<stored, log>>

Step ==
  \/ \E e \in Events : Persist(e) \/ Order(e) \/ PersistInOrder(e)
  \/ \E s \in Subscribers, i \in DOMAIN log : Hear(s, i)

Spec == Start /\ [][Step]_bvars
=============================================================================
