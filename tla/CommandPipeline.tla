-------------------------- MODULE CommandPipeline --------------------------
(***************************************************************************)
(* The command pipeline of internal/pipeline/command: the PriorityQueue    *)
(* that also stores every command's status, the Pipeline's client calls    *)
(* (Send, Cancel, SetAdapter, Start, Stop), the Scheduler's dispatch loop  *)
(* and the goroutine it starts for each command it dequeues, the adapter   *)
(* call that goroutine waits for, and the counters the goroutines share.   *)
(*                                                                         *)
(* A queued item is a pointer shared by the map, the goroutine and every   *)
(* caller.  Enqueue and Dequeue change it under the queue's mutex; Cancel  *)
(* and the goroutine write Status without it.  The steps below are cut at  *)
(* the places where another goroutine can run between two such accesses.   *)
(*                                                                         *)
(* An operator named X_Mistake is X with one plausible mistake.  It is not *)
(* part of the specification: a property at the end of the module is       *)
(* violated when X is replaced by it.                                      *)
(***************************************************************************)
EXTENDS Integers, FiniteSets

CONSTANTS
  Commands,       \* command identifiers clients may send
  Cancellable,    \* the commands a client may ask to cancel (bounds a run)
  Priorities,     \* the priorities a client may ask for
  Times,          \* the times the clock may show when Send reads it
  Workers,        \* identities for the goroutines of the scheduler
  MaxConcurrent,  \* SchedulerConfig.MaxConcurrent
  MaxRetries,     \* SchedulerConfig.MaxRetries
  NoCommand       \* what an idle worker holds

(***************************************************************************)
(* withDefaults leaves no limit at zero.  Goroutines are not limited in    *)
(* number, so there are more identities than the semaphore has slots.      *)
(***************************************************************************)
ASSUME CommandAssumption ==
  /\ IsFiniteSet(Commands)
  /\ Cancellable \subseteq Commands
  /\ NoCommand \notin Commands
  /\ Priorities \subseteq Int /\ Times \subseteq Nat
  /\ MaxConcurrent \in Nat \ {0}
  /\ MaxRetries \in Nat \ {0}
  /\ IsFiniteSet(Workers)
  /\ Cardinality(Workers) > MaxConcurrent

VARIABLES
  \* The fields of each CommandItem.
  status, priority, enqueuedAt, retryCount, sentAt,
  \* The goroutines.
  dispatcher,   \* where dispatchLoop is
  sem,          \* tokens in the scheduler's semaphore channel
  wg,           \* the scheduler's WaitGroup
  pc, cmd,      \* where each worker is, and its item
  call,         \* the adapter call the worker started
  \* Shutdown.
  stopCh,       \* TRUE once the scheduler's stopCh is closed
  stopState,    \* Pipeline.Stop: not called, waiting for wg, returned
  \* Clients and the adapter.
  cancelling,   \* commands a Cancel has checked and not yet written
  adapterSet,   \* Pipeline.adapter is not nil
  orphans,      \* adapter calls still running that no worker waits for
  attempts,     \* history: how often each command was sent
  accepted,     \* history: how often the adapter confirmed each command
  ackedEvents,  \* history: CommandAcked events published
  totalAcked, totalFailed  \* the counters of Metrics

item     == <<status, priority, enqueuedAt, retryCount, sentAt>>
workers  == <<pc, cmd, call>>
stopVars == <<stopCh, stopState>>
outside  == <<orphans, attempts, accepted, ackedEvents>>
metrics  == <<totalAcked, totalFailed>>
vars     == <<item, dispatcher, sem, wg, workers, stopVars, cancelling,
              adapterSet, outside, metrics>>

(***************************************************************************)
(* "torn" is what two unsynchronised stores of a Go string (a pointer and  *)
(* a length) can leave behind: the bytes of one with the length of the     *)
(* other, equal to none of the status constants.                           *)
(***************************************************************************)
Statuses    == {"absent", "queued", "sending", "acked", "failed",
                "cancelled", "torn"}
LoopStates  == {"off", "top", "acquire", "dequeue", "wait", "exited"}
WorkerSteps == {"idle", "publishSent", "await", "backoff", "requeued",
                "publishAcked"}
\* A worker that may still decide what becomes of its item.
Deciding    == {"publishSent", "await", "backoff"}

Busy   == {w \in Workers : pc[w] # "idle"}

\* Dequeue skips only what was sent or acknowledged.
Queued_AnyUnsent ==
  {c \in Commands : status[c] \in {"queued", "failed", "cancelled"}}

\* What Dequeue chooses from.
Queued == {c \in Commands : status[c] = "queued"}

-----------------------------------------------------------------------------
Init ==
  /\ status     = [c \in Commands |-> "absent"]
  /\ priority   = [c \in Commands |-> 0]
  /\ enqueuedAt = [c \in Commands |-> 0]
  /\ retryCount = [c \in Commands |-> 0]
  /\ sentAt     = [c \in Commands |-> FALSE]
  /\ dispatcher = "off" /\ sem = 0 /\ wg = 0
  /\ pc   = [w \in Workers |-> "idle"]
  /\ cmd  = [w \in Workers |-> NoCommand]
  /\ call = [w \in Workers |-> "none"]
  /\ stopCh = FALSE /\ stopState = "no"
  /\ cancelling = {} /\ adapterSet = FALSE
  /\ orphans     = [c \in Commands |-> 0]
  /\ attempts    = [c \in Commands |-> 0]
  /\ accepted    = [c \in Commands |-> 0]
  /\ ackedEvents = [c \in Commands |-> 0]
  /\ totalAcked = 0 /\ totalFailed = 0

(***************************************************************************)
(* item.Status = v, by the dispatcher or a worker.  A Cancel that has      *)
(* passed its check may store "cancelled" at the same time: it may come    *)
(* later (it stays in cancelling), be overwritten, or mix with this store. *)
(***************************************************************************)
SetStatus(c, v) ==
  \/ /\ status' = [status EXCEPT ![c] = v]
     /\ UNCHANGED cancelling
  \/ /\ c \in cancelling
     /\ \E result \in {v, "torn"} : status' = [status EXCEPT ![c] = result]
     /\ cancelling' = cancelling \ {c}

-----------------------------------------------------------------------------
(* Client calls.                                                           *)

\* Enqueue without the look-up of the identifier.
Send_Overwrite(c, p) ==
  /\ attempts[c] < 3
  /\ status'   = [status EXCEPT ![c] = "queued"]
  /\ priority' = [priority EXCEPT ![c] = p]
  /\ \E t \in Times : enqueuedAt' = [enqueuedAt EXCEPT ![c] = t]
  /\ UNCHANGED <<retryCount, sentAt, dispatcher, sem, wg, workers, stopVars,
                 cancelling, adapterSet, outside, metrics>>

\* Pipeline.Send: a command that passes the validator gets its stamp and is
\* entered in the queue, unless its identifier is taken.  The time is read
\* before the queue's mutex is taken, so commands may be entered in another
\* order than that of their stamps.
Send(c, p) ==
  /\ status[c] = "absent"
  /\ status'   = [status EXCEPT ![c] = "queued"]
  /\ priority' = [priority EXCEPT ![c] = p]
  /\ \E t \in Times : enqueuedAt' = [enqueuedAt EXCEPT ![c] = t]
  /\ UNCHANGED <<retryCount, sentAt, dispatcher, sem, wg, workers, stopVars,
                 cancelling, adapterSet, outside, metrics>>

\* Pipeline.Cancel up to its check: the item is fetched under the queue's
\* mutex, its Status is read after the mutex is released.
CancelCheck(c) ==
  /\ status[c] = "queued"
  /\ c \notin cancelling
  /\ cancelling' = cancelling \union {c}
  /\ UNCHANGED <<item, dispatcher, sem, wg, workers, stopVars, adapterSet,
                 outside, metrics>>

\* The rest of Pipeline.Cancel: it writes what it decided, whatever the
\* item's status has become.
CancelWrite(c) ==
  /\ c \in cancelling
  /\ status' = [status EXCEPT ![c] = "cancelled"]
  /\ cancelling' = cancelling \ {c}
  /\ UNCHANGED <<priority, enqueuedAt, retryCount, sentAt, dispatcher,
                 sem, wg, workers, stopVars, adapterSet, outside, metrics>>

\* Pipeline.SetAdapter, for a name the plugin manager knows.  No call takes
\* the adapter away again.
SetAdapter ==
  /\ ~adapterSet
  /\ adapterSet' = TRUE
  /\ UNCHANGED <<item, dispatcher, sem, wg, workers, stopVars, cancelling,
                 outside, metrics>>

\* Pipeline.Start and Scheduler.Start: main calls them once, in order.
Start ==
  /\ dispatcher = "off"
  /\ dispatcher' = "top"
  /\ wg' = wg + 1
  /\ UNCHANGED <<item, sem, workers, stopVars, cancelling, adapterSet,
                 outside, metrics>>

\* Pipeline.Stop with a scheduler: stopCh is closed and the caller waits.
Stop ==
  /\ stopState = "no" /\ dispatcher # "off"
  /\ stopCh' = TRUE
  /\ stopState' = "waiting"
  /\ UNCHANGED <<item, dispatcher, sem, wg, workers, cancelling, adapterSet,
                 outside, metrics>>

\* Pipeline.Stop before Start: stopOnce is spent and nothing is stopped.
StopUnstarted ==
  /\ stopState = "no" /\ dispatcher = "off"
  /\ stopState' = "done"
  /\ UNCHANGED <<item, dispatcher, sem, wg, workers, stopCh, cancelling,
                 adapterSet, outside, metrics>>

\* Scheduler.Stop returns from wg.Wait().
StopReturns ==
  /\ stopState = "waiting" /\ wg = 0
  /\ stopState' = "done"
  /\ UNCHANGED <<item, dispatcher, sem, wg, workers, stopCh, cancelling,
                 adapterSet, outside, metrics>>

-----------------------------------------------------------------------------
(* The dispatch loop.                                                      *)

\* Top of the loop: a closed stopCh is noticed here ...
CheckStop ==
  /\ dispatcher = "top"
  /\ IF stopCh THEN dispatcher' = "exited" /\ wg' = wg - 1
               ELSE dispatcher' = "acquire" /\ UNCHANGED wg
  /\ UNCHANGED <<item, sem, workers, stopVars, cancelling, adapterSet,
                 outside, metrics>>

\* ... and while it waits for a token; with both ready select takes either.
AcquireToken_OneMore ==
  /\ dispatcher = "acquire" /\ sem <= MaxConcurrent
  /\ sem' = sem + 1
  /\ dispatcher' = "dequeue"
  /\ UNCHANGED <<item, wg, workers, stopVars, cancelling, adapterSet,
                 outside, metrics>>

AcquireToken ==
  /\ dispatcher = "acquire" /\ sem < MaxConcurrent
  /\ sem' = sem + 1
  /\ dispatcher' = "dequeue"
  /\ UNCHANGED <<item, wg, workers, stopVars, cancelling, adapterSet,
                 outside, metrics>>

StopWaitingForToken ==
  /\ dispatcher = "acquire" /\ stopCh
  /\ dispatcher' = "exited"
  /\ wg' = wg - 1
  /\ UNCHANGED <<item, sem, workers, stopVars, cancelling, adapterSet,
                 outside, metrics>>

\* The order of the queue: higher priority first, then earlier stamp.  Items
\* equal in both come out in the order of the map's iteration, which is any.
Before(c, d) ==
  \/ priority[c] > priority[d]
  \/ priority[c] = priority[d] /\ enqueuedAt[c] < enqueuedAt[d]

Best == {c \in Queued : \A d \in Queued : ~Before(d, c)}

\* The goroutine is started without wg.Add.
Dequeue_NoAdd(w, c) ==
  /\ dispatcher = "dequeue" /\ pc[w] = "idle"
  /\ c \in Best
  /\ SetStatus(c, "sending")
  /\ sentAt' = [sentAt EXCEPT ![c] = TRUE]
  /\ pc'  = [pc EXCEPT ![w] = "publishSent"]
  /\ cmd' = [cmd EXCEPT ![w] = c]
  /\ dispatcher' = "top"
  /\ UNCHANGED <<priority, enqueuedAt, retryCount, sem, wg, call,
                 stopVars, adapterSet, outside, metrics>>

\* Dequeue finds an item, marks it and a goroutine is started for it.
Dequeue(w, c) ==
  /\ dispatcher = "dequeue" /\ pc[w] = "idle"
  /\ c \in Best
  /\ SetStatus(c, "sending")
  /\ sentAt' = [sentAt EXCEPT ![c] = TRUE]
  /\ wg' = wg + 1
  /\ pc'  = [pc EXCEPT ![w] = "publishSent"]
  /\ cmd' = [cmd EXCEPT ![w] = c]
  /\ dispatcher' = "top"
  /\ UNCHANGED <<priority, enqueuedAt, retryCount, sem, call, stopVars,
                 adapterSet, outside, metrics>>

\* Dequeue finds nothing: the token goes back and the loop waits a little.
DequeueNothing ==
  /\ dispatcher = "dequeue" /\ Queued = {}
  /\ sem' = sem - 1
  /\ dispatcher' = "wait"
  /\ UNCHANGED <<item, wg, workers, stopVars, cancelling, adapterSet,
                 outside, metrics>>

WaitElapsed ==
  /\ dispatcher = "wait"
  /\ dispatcher' = "top"
  /\ UNCHANGED <<item, sem, wg, workers, stopVars, cancelling, adapterSet,
                 outside, metrics>>

StopWhileWaiting ==
  /\ dispatcher = "wait" /\ stopCh
  /\ dispatcher' = "exited"
  /\ wg' = wg - 1
  /\ UNCHANGED <<item, sem, workers, stopVars, cancelling, adapterSet,
                 outside, metrics>>

-----------------------------------------------------------------------------
(* One goroutine per dequeued item: sendItem and retryOrFail.              *)

\* The goroutine ends: its deferred calls give back the token, then wg.Done.
Exit(w) ==
  /\ pc'   = [pc EXCEPT ![w] = "idle"]
  /\ cmd'  = [cmd EXCEPT ![w] = NoCommand]
  /\ call' = [call EXCEPT ![w] = "none"]
  /\ sem' = sem - 1
  /\ wg'  = wg - 1

\* The worker goes on to step s; it waits for no adapter call any more.
Proceed(w, s) ==
  /\ pc'   = [pc EXCEPT ![w] = s]
  /\ call' = [call EXCEPT ![w] = "none"]
  /\ UNCHANGED <<cmd, sem, wg>>

\* Status = failed, counted.
Fail(w) ==
  /\ SetStatus(cmd[w], "failed")
  /\ totalFailed' = totalFailed + 1
  /\ Exit(w)
  /\ UNCHANGED retryCount

\* retryOrFail up to the wait for the backoff: the retry is counted first.
Retry(w) ==
  /\ retryCount' = [retryCount EXCEPT ![cmd[w]] = @ + 1]
  /\ Proceed(w, "backoff")
  /\ UNCHANGED <<status, cancelling, totalFailed>>

\* The limit off by one.
RetryOrFail_OneMore(w) ==
  \/ retryCount[cmd[w]] <= MaxRetries /\ Retry(w)
  \/ retryCount[cmd[w]] > MaxRetries /\ Fail(w)

RetryOrFail(w) ==
  \/ retryCount[cmd[w]] < MaxRetries /\ Retry(w)
  \/ retryCount[cmd[w]] >= MaxRetries /\ Fail(w)

\* sendItem: CommandSent is published (an error is only logged), the attempt
\* is counted, and a goroutine makes the adapter call if there is an adapter.
PublishSent(w) ==
  /\ pc[w] = "publishSent"
  /\ \/ /\ adapterSet
        /\ attempts' = [attempts EXCEPT ![cmd[w]] = @ + 1]
        /\ pc'   = [pc EXCEPT ![w] = "await"]
        /\ call' = [call EXCEPT ![w] = "running"]
        /\ UNCHANGED <<cmd, sem, wg, status, cancelling, retryCount,
                       totalFailed>>
     \/ /\ ~adapterSet
        /\ RetryOrFail(w)
        /\ UNCHANGED attempts
  /\ UNCHANGED <<priority, enqueuedAt, sentAt, dispatcher, stopVars,
                 adapterSet, orphans, accepted, ackedEvents, totalAcked>>

\* The adapter answers a call somebody waits for: a successful Ack, or an
\* error or an unsuccessful Ack, which sendItem treats alike.
AdapterReturns(w) ==
  /\ call[w] = "running"
  /\ \/ /\ call' = [call EXCEPT ![w] = "ok"]
        /\ accepted' = [accepted EXCEPT ![cmd[w]] = @ + 1]
     \/ /\ call' = [call EXCEPT ![w] = "bad"]
        /\ UNCHANGED accepted
  /\ UNCHANGED <<item, dispatcher, sem, wg, pc, cmd, stopVars,
                 cancelling, adapterSet, orphans, attempts, ackedEvents,
                 metrics>>

\* The adapter answers a call that timed out: resultCh is never read again.
OrphanReturns(c) ==
  /\ orphans[c] > 0
  /\ orphans' = [orphans EXCEPT ![c] = @ - 1]
  /\ \/ accepted' = [accepted EXCEPT ![c] = @ + 1]
     \/ UNCHANGED accepted
  /\ UNCHANGED <<item, dispatcher, sem, wg, workers, stopVars, cancelling,
                 adapterSet, attempts, ackedEvents, metrics>>

\* No time limit on the adapter's answer.
SendTimeout_Never(w) == FALSE /\ UNCHANGED vars

\* ctx.Done() is chosen: the call is abandoned, or its answer is dropped.
SendTimeout(w) ==
  /\ pc[w] = "await"
  /\ orphans' = IF call[w] = "running"
                THEN [orphans EXCEPT ![cmd[w]] = @ + 1] ELSE orphans
  /\ RetryOrFail(w)
  /\ UNCHANGED <<priority, enqueuedAt, sentAt, dispatcher, stopVars,
                 adapterSet, attempts, accepted, ackedEvents, totalAcked>>

\* The result is chosen and is not a success.
SendRejected(w) ==
  /\ pc[w] = "await" /\ call[w] = "bad"
  /\ RetryOrFail(w)
  /\ UNCHANGED <<priority, enqueuedAt, sentAt, dispatcher, stopVars,
                 adapterSet, outside, totalAcked>>

\* Any answer without an error taken for a success.
SendAcked_Unchecked(w) ==
  /\ pc[w] = "await" /\ call[w] \in {"ok", "bad"}
  /\ SetStatus(cmd[w], "acked")
  /\ Proceed(w, "publishAcked")
  /\ UNCHANGED <<priority, enqueuedAt, retryCount, sentAt, dispatcher,
                 stopVars, adapterSet, outside, metrics>>

\* The result is chosen and is a success: Ack, AckedAt and Status are set.
SendAcked(w) ==
  /\ pc[w] = "await" /\ call[w] = "ok"
  /\ SetStatus(cmd[w], "acked")
  /\ Proceed(w, "publishAcked")
  /\ UNCHANGED <<priority, enqueuedAt, retryCount, sentAt, dispatcher,
                 stopVars, adapterSet, outside, metrics>>

\* CommandAcked is published with the context of the send, which may have
\* expired (an error is only logged), and RecordAck counts the confirmation.
\* The rate RecordAck also computes is left out.
PublishAcked(w) ==
  /\ pc[w] = "publishAcked"
  /\ \/ ackedEvents' = [ackedEvents EXCEPT ![cmd[w]] = @ + 1]
     \/ UNCHANGED ackedEvents
  /\ totalAcked' = totalAcked + 1
  /\ Exit(w)
  /\ UNCHANGED <<item, dispatcher, stopVars, cancelling, adapterSet, orphans,
                 attempts, accepted, totalFailed>>

\* stopCh is chosen during the backoff.
BackoffStopped(w) ==
  /\ pc[w] = "backoff" /\ stopCh
  /\ Fail(w)
  /\ UNCHANGED <<priority, enqueuedAt, sentAt, dispatcher, stopVars,
                 adapterSet, outside, totalAcked>>

\* The retried item is stamped anew, like a new one.
Requeue_NewStamp(w) ==
  /\ pc[w] = "backoff"
  /\ SetStatus(cmd[w], "queued")
  /\ \E t \in Times :
       t > enqueuedAt[cmd[w]] /\ enqueuedAt' = [enqueuedAt EXCEPT ![cmd[w]] = t]
  /\ Proceed(w, "requeued")
  /\ UNCHANGED <<priority, retryCount, sentAt, dispatcher, stopVars,
                 adapterSet, outside, metrics>>

\* The token is given back before SentAt is cleared.
Requeue_EarlyToken(w) ==
  /\ pc[w] = "backoff"
  /\ SetStatus(cmd[w], "queued")
  /\ pc' = [pc EXCEPT ![w] = "requeued"]
  /\ sem' = sem - 1
  /\ UNCHANGED <<priority, enqueuedAt, retryCount, sentAt, dispatcher,
                 wg, cmd, call, stopVars, adapterSet, outside, metrics>>

\* The backoff elapses: Status = queued, whatever it was.  From here the
\* dispatcher can take the item although this goroutine is not done with it.
Requeue(w) ==
  /\ pc[w] = "backoff"
  /\ SetStatus(cmd[w], "queued")
  /\ Proceed(w, "requeued")
  /\ UNCHANGED <<priority, enqueuedAt, retryCount, sentAt, dispatcher,
                 stopVars, adapterSet, outside, metrics>>

\* The rest of retryOrFail: SentAt = nil, without the mutex.
ClearSentAt(w) ==
  /\ pc[w] = "requeued"
  /\ sentAt' = [sentAt EXCEPT ![cmd[w]] = FALSE]
  /\ Exit(w)
  /\ UNCHANGED <<status, priority, enqueuedAt, retryCount, dispatcher,
                 stopVars, cancelling, adapterSet, outside, metrics>>

-----------------------------------------------------------------------------
Dispatch ==
  \/ CheckStop \/ AcquireToken \/ StopWaitingForToken
  \/ \E w \in Workers, c \in Commands : Dequeue(w, c)
  \/ DequeueNothing \/ WaitElapsed \/ StopWhileWaiting

WorkerStep(w) ==
  \/ PublishSent(w) \/ SendTimeout(w) \/ SendRejected(w) \/ SendAcked(w)
  \/ PublishAcked(w)
  \/ BackoffStopped(w) \/ Requeue(w) \/ ClearSentAt(w)

Client ==
  \/ \E c \in Commands, p \in Priorities : Send(c, p)
  \/ \E c \in Cancellable : CancelCheck(c) \/ CancelWrite(c)
  \/ SetAdapter \/ Start \/ Stop \/ StopUnstarted

Adapter ==
  \/ \E w \in Workers : AdapterReturns(w)
  \/ \E c \in Commands : OrphanReturns(c)

Next ==
  \/ Client \/ StopReturns \/ Dispatch
  \/ (\E w \in Workers : WorkerStep(w))
  \/ Adapter

Spec == Init /\ [][Next]_vars

(***************************************************************************)
(* Go runs every goroutine that is ready, and every timer fires: the 50 ms *)
(* wait, the send's context and the backoff.  Nothing is assumed of the    *)
(* adapter, which may never answer, or of the clients.                     *)
(***************************************************************************)
Fairness ==
  /\ WF_vars(Dispatch)
  /\ \A w \in Workers : WF_vars(WorkerStep(w))
  /\ WF_vars(StopReturns)

FairSpec == Spec /\ Fairness

-----------------------------------------------------------------------------
(* Properties.                                                             *)

\* The type invariant.
TypeOK ==
  /\ status \in [Commands -> Statuses]
  /\ priority \in [Commands -> Int]
  /\ enqueuedAt \in [Commands -> Nat]
  /\ retryCount \in [Commands -> 0..MaxRetries]
  /\ sentAt \in [Commands -> BOOLEAN]
  /\ dispatcher \in LoopStates
  /\ sem \in 0..MaxConcurrent
  /\ wg \in Nat
  /\ pc \in [Workers -> WorkerSteps]
  /\ cmd \in [Workers -> Commands \union {NoCommand}]
  /\ call \in [Workers -> {"none", "running", "ok", "bad"}]
  /\ stopCh \in BOOLEAN
  /\ stopState \in {"no", "waiting", "done"}
  /\ cancelling \subseteq Commands
  /\ adapterSet \in BOOLEAN
  /\ orphans \in [Commands -> Nat]
  /\ attempts \in [Commands -> Nat]
  /\ accepted \in [Commands -> Nat]
  /\ ackedEvents \in [Commands -> Nat]
  /\ totalAcked \in Nat /\ totalFailed \in Nat

\* Never more than MaxConcurrent goroutines hold an item, the ones that wait
\* for a backoff or publish an event included (the semaphore of dispatchLoop,
\* which a goroutine gives back only as it ends).
ConcurrencyBound == Cardinality(Busy) <= MaxConcurrent

\* Two goroutines never decide the fate of one command, and none does while
\* the command waits in the queue: a retry cannot run beside the attempt it
\* retries, whatever Cancel writes meanwhile (Dequeue, retryOrFail).
OneDecider ==
  /\ \A v, w \in Workers :
       pc[v] \in Deciding /\ pc[w] \in Deciding /\ cmd[v] = cmd[w] => v = w
  /\ \A w \in Workers : pc[w] \in Deciding => status[cmd[w]] # "queued"

\* A command shown as sending has a goroutine that will decide its fate: no
\* path of sendItem or retryOrFail forgets it.
NoneForgotten ==
  \A c \in Commands : status[c] = "sending" =>
    \E w \in Workers : pc[w] \in Deciding /\ cmd[w] = c

\* Both: nobody decides the fate of a command that is queued, and exactly one
\* goroutine that of a command that is sending.
OneHolder == OneDecider /\ NoneForgotten

\* The adapter sees a command at most MaxRetries + 1 times, calls that timed
\* out and may still take effect included (sendItem, retryOrFail).
DeliveryBound ==
  \A c \in Commands : accepted[c] + orphans[c] <= attempts[c]
                      /\ attempts[c] <= MaxRetries + 1

\* A command is shown as acked, and CommandAcked announced, only after the
\* adapter confirmed it; and CommandAcked is announced at most once, however
\* often the command was retried, cancelled or timed out.
AckedWasAccepted ==
  \A c \in Commands :
    /\ status[c] = "acked" => accepted[c] > 0
    /\ ackedEvents[c] > 0  => accepted[c] > 0
    /\ ackedEvents[c] <= 1

\* A command fails only when its retries are used up or the scheduler stops.
FailedAtLimit ==
  \A c \in Commands : status[c] = "failed" => retryCount[c] = MaxRetries \/ stopCh

\* What is shown of a command is what happened to it: the deliveries stay
\* within the retries, an acknowledgement was one, a failure was justified.
HonestOutcome == DeliveryBound /\ AckedWasAccepted /\ FailedAtLimit

\* When Stop has returned, the dispatch loop and every goroutine it started
\* have ended and no command is left as sending (the WaitGroup of Scheduler).
StoppedMeansQuiet ==
  stopState = "done" /\ stopCh =>
    /\ dispatcher = "exited" /\ Busy = {}
    /\ \A c \in Commands : status[c] # "sending"

\* A cancelled command stays cancelled once no goroutine holds it: Cancel on
\* an item that is really waiting is final, and only one that overtakes a
\* send can be undone by it.
CancelSticks ==
  [][\A c \in Commands :
       /\ status[c] = "cancelled"
       /\ \A w \in Workers : ~(pc[w] \in Deciding /\ cmd[w] = c)
       => status'[c] = "cancelled"]_vars

\* An acked or failed command is never sent again; its status changes only by
\* a Cancel that passed its check before the command was sent.
SettledIsFinal ==
  [][\A c \in Commands :
       status[c] \in {"acked", "failed"} =>
         /\ \/ status'[c] = status[c]
            \/ c \in cancelling /\ status'[c] = "cancelled"
         /\ attempts'[c] = attempts[c]]_vars

\* Both: the end of a command is its end, but for a Cancel that was already
\* past its check.
OutcomeSticks == CancelSticks /\ SettledIsFinal

\* d waits, and c, which is before it in order, is not settled yet.
Ahead(c, d) ==
  /\ status[c] \in {"queued", "sending"} /\ status[d] = "queued"
  /\ Before(c, d)

\* With one slot a command stays ahead of those that wait behind it until it
\* is settled: while it is retried it keeps the slot through the backoff and
\* its stamp afterwards, so none overtakes it.
InOrder ==
  [][MaxConcurrent = 1 =>
       \A c, d \in Commands :
         Ahead(c, d) => \/ Ahead(c, d)'
                        \/ status'[c] \notin {"queued", "sending"}
                        \/ status'[d] = "cancelled"]_vars

\* With one slot a command shown as sending has a SentAt; with more, a
\* goroutine can erase the SentAt of the next attempt (ClearSentAt).
SentAtKept ==
  MaxConcurrent = 1 =>
    \A c \in Commands : status[c] = "sending" => sentAt[c]

\* When no goroutine is left and no Cancel interfered, the counters are the
\* numbers of acked and of failed commands.
CountersAgree ==
  Busy = {} /\ Cancellable = {} =>
    /\ totalAcked  = Cardinality({c \in Commands : status[c] = "acked"})
    /\ totalFailed = Cardinality({c \in Commands : status[c] = "failed"})

\* Both: the stamps and the counters that clients read tell what happened.
BooksAgree == SentAtKept /\ CountersAgree

\* Every command sent to a running scheduler is settled in the end, although
\* the adapter may never answer, unless the scheduler is stopped first.
EventuallySettled ==
  \A c \in Commands :
    (status[c] \in {"queued", "sending"} /\ dispatcher # "off")
      ~> (status[c] \notin {"queued", "sending"} \/ stopCh)

\* Stop returns, even with goroutines in the middle of a call or a backoff.
StopTerminates == (stopState = "waiting") ~> (stopState = "done")

\* Both: whatever the adapter does, no command and no Stop hangs.
NothingHangs == EventuallySettled /\ StopTerminates

-----------------------------------------------------------------------------
(* The pipeline implements the contract of CommandDelivery.  A command is  *)
(* held from the moment it is dequeued until its goroutine has decided.    *)
Held(c) == \E w \in Workers : pc[w] \in Deciding /\ cmd[w] = c

Delivery == INSTANCE CommandDelivery WITH
  MaxTries <- MaxRetries + 1,
  shown    <- status,
  held     <- [c \in Commands |-> Held(c)],
  tries    <- attempts,
  landed   <- accepted

\* The scheduler, with all its goroutines, retries and cancellations, does
\* only what the contract allows each command.
ImplementsDelivery == Delivery!Spec

-----------------------------------------------------------------------------
(* The inductive invariant behind the properties above.                    *)

\* A token per goroutine and one for the loop while it dequeues; a WaitGroup
\* count per goroutine and one for the loop.
Accounting ==
  /\ sem = Cardinality(Busy) + IF dispatcher = "dequeue" THEN 1 ELSE 0
  /\ wg  = Cardinality(Busy) + IF dispatcher \in {"off", "exited"} THEN 0 ELSE 1

WorkerShape ==
  \A w \in Workers :
    /\ pc[w] = "idle" <=> cmd[w] = NoCommand
    /\ pc[w] = "await" <=> call[w] # "none"
    /\ pc[w] # "idle" => status[cmd[w]] # "absent"

\* Who holds a command is unique, and its status is not one a client or the
\* dispatcher would act on.
Holding ==
  /\ \A v, w \in Workers :
       pc[v] \in Deciding /\ pc[w] \in Deciding /\ cmd[v] = cmd[w] => v = w
  /\ \A w \in Workers :
       pc[w] \in Deciding => status[cmd[w]] \in {"sending", "cancelled", "torn"}
  /\ NoneForgotten
  /\ \A c \in cancelling : status[c] # "absent"

\* Attempts against retries: the attempt being made is not yet counted as a
\* retry, and a command that may be attempted again has one to spare.
Attempting ==
  \A c \in Commands :
    /\ attempts[c] <= retryCount[c] + 1
    /\ status[c] \in {"absent", "queued"} => attempts[c] <= retryCount[c]
    /\ \A w \in Workers :
         pc[w] \in {"publishSent", "backoff"} /\ cmd[w] = c =>
           attempts[c] <= retryCount[c]

\* Calls against attempts: answered, abandoned and running calls are distinct.
Calling ==
  \A c \in Commands :
    /\ accepted[c] + orphans[c] <= attempts[c]
    /\ \A w \in Workers :
         cmd[w] = c /\ call[w] = "running" => accepted[c] + orphans[c] < attempts[c]

\* A command that is acknowledged is not live any more, and was accepted.
Live(c) == status[c] \in {"absent", "queued"} \/ Held(c)

Announcing ==
  /\ \A c \in Commands :
       /\ Live(c) => ackedEvents[c] = 0
       /\ ackedEvents[c] <= 1
       /\ ackedEvents[c] > 0 \/ status[c] = "acked" => accepted[c] > 0
  /\ \A w \in Workers :
       /\ call[w] = "ok" => accepted[cmd[w]] > 0
       /\ pc[w] = "publishAcked" =>
            /\ accepted[cmd[w]] > 0
            /\ ~Live(cmd[w]) /\ ackedEvents[cmd[w]] = 0
  /\ \A v, w \in Workers :
       pc[v] = "publishAcked" /\ pc[w] = "publishAcked" /\ cmd[v] = cmd[w] => v = w

Stopping ==
  /\ stopCh => dispatcher # "off"
  /\ stopState = "no" => ~stopCh
  /\ stopState = "waiting" => stopCh
  /\ stopState = "done" /\ stopCh => dispatcher = "exited" /\ Busy = {}

IndInv ==
  /\ TypeOK /\ Accounting /\ WorkerShape /\ Holding /\ Attempting /\ Calling
  /\ Announcing /\ FailedAtLimit /\ Stopping

\* What the counters are compared with: the commands shown as v, and the
\* goroutines that have shown an acknowledgement and not yet counted it.
Shown(v)   == {c \in Commands : status[c] = v}
Publishing == {w \in Workers : pc[w] = "publishAcked"}

\* The stamps and, at any time, the counters, the late ones made good.
Booking ==
  /\ cancelling \subseteq Cancellable
  /\ SentAtKept
  /\ Cancellable = {} =>
       /\ totalAcked + Cardinality(Publishing) = Cardinality(Shown("acked"))
       /\ totalFailed = Cardinality(Shown("failed"))
=============================================================================
