-------------------------- MODULE CommandDelivery --------------------------
(***************************************************************************)
(* What the command pipeline promises about each command, with nothing of  *)
(* queues, slots, goroutines or timers: a command is tried a bounded       *)
(* number of times, by one holder at a time and only while it was shown as *)
(* queued when it was taken; the receiver takes it at most once per try,   *)
(* perhaps long after; it is confirmed only after the receiver took it.    *)
(*                                                                         *)
(* The promise about cancelling is as weak as the code makes it: a         *)
(* withdrawal may hit a command at any time after its submission, is final *)
(* only if nobody holds the command, and may garble the status if it meets *)
(* another change.                                                         *)
(***************************************************************************)
EXTENDS Naturals

CONSTANTS Commands, MaxTries

VARIABLES
  shown,   \* the status a client sees
  held,    \* somebody is trying to deliver the command
  tries,   \* how often it was handed to the receiver
  landed   \* how often the receiver took it

dvars == <<shown, held, tries, landed>>

Start ==
  /\ shown  = [c \in Commands |-> "absent"]
  /\ held   = [c \in Commands |-> FALSE]
  /\ tries  = [c \in Commands |-> 0]
  /\ landed = [c \in Commands |-> 0]

Show(c, v) ==
  \E s \in {v, "torn"} : shown' = [shown EXCEPT ![c] = s]

Submit(c) ==
  /\ shown[c] = "absent"
  /\ shown' = [shown EXCEPT ![c] = "queued"]
  /\ UNCHANGED <<held, tries, landed>>

Withdraw(c) ==
  /\ shown[c] # "absent"
  /\ shown' = [shown EXCEPT ![c] = "cancelled"]
  /\ UNCHANGED <<held, tries, landed>>

Take(c) ==
  /\ shown[c] = "queued" /\ ~held[c]
  /\ Show(c, "sending")
  /\ held' = [held EXCEPT ![c] = TRUE]
  /\ UNCHANGED <<tries, landed>>

Try(c) ==
  /\ held[c] /\ tries[c] < MaxTries
  /\ tries' = [tries EXCEPT ![c] = @ + 1]
  /\ UNCHANGED <<shown, held, landed>>

Land(c) ==
  /\ landed[c] < tries[c]
  /\ landed' = [landed EXCEPT ![c] = @ + 1]
  /\ UNCHANGED <<shown, held, tries>>

\* The holder lets go: it confirms, gives up, or leaves a later try to others.
Release(c, v) ==
  /\ held[c]
  /\ v = "acked" => landed[c] > 0
  /\ Show(c, v)
  /\ held' = [held EXCEPT ![c] = FALSE]
  /\ UNCHANGED <<tries, landed>>

Step ==
  \E c \in Commands :
    \/ Submit(c) \/ Withdraw(c) \/ Take(c) \/ Try(c) \/ Land(c)
    \/ \E v \in {"acked", "failed", "queued"} : Release(c, v)

Spec == Start /\ [][Step]_dvars
=============================================================================
