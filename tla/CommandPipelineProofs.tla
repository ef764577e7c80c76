----------------------- MODULE CommandPipelineProofs -----------------------
(***************************************************************************)
(* Proofs about CommandPipeline, for any finite set of commands and of     *)
(* goroutines and any positive limits.  The safety properties follow from  *)
(* one inductive invariant, IndInv, whose parts are preserved one by one.  *)
(* Most steps are those of a worker, and many of them end in a call of     *)
(* retryOrFail: a section below says what such a step can do to the        *)
(* command and to the goroutine, and the later proofs use only that.       *)
(***************************************************************************)
EXTENDS CommandPipeline, FiniteSetTheorems, TLAPS

\* The goroutines of the scheduler can be counted.
LEMMA BusyFinite == IsFiniteSet(Busy) /\ Cardinality(Busy) \in Nat
<1>1. Busy \in SUBSET Workers
  BY DEF Busy
<1> QED
  BY <1>1, CommandAssumption, FS_Subset, FS_CardinalityType

\* dispatchLoop starts one goroutine: one more is counted.
LEMMA BusyGrows ==
  ASSUME NEW w \in Workers, TypeOK, pc[w] = "idle",
         pc' = [pc EXCEPT ![w] = "publishSent"]
  PROVE  Cardinality(Busy') = Cardinality(Busy) + 1
<1>1. Busy' = Busy \union {w} /\ w \notin Busy
  BY DEF Busy, TypeOK
<1> QED
  BY <1>1, BusyFinite, FS_AddElement

\* A goroutine ends (the deferred calls of sendItem): one less is counted.
LEMMA BusyShrinks ==
  ASSUME NEW w \in Workers, TypeOK, pc[w] # "idle",
         pc' = [pc EXCEPT ![w] = "idle"]
  PROVE  /\ Cardinality(Busy') = Cardinality(Busy) - 1
         /\ Cardinality(Busy) >= 1
         /\ Busy' = Busy \ {w}
<1>1. Busy' = Busy \ {w} /\ w \in Busy
  BY DEF Busy, TypeOK
<1>2. Cardinality(Busy) # 0
  BY <1>1, BusyFinite, FS_EmptySet
<1>3. Cardinality(Busy \ {w}) = Cardinality(Busy) - 1
  BY <1>1, BusyFinite, FS_RemoveElement
<1> QED
  BY <1>1, <1>2, <1>3, BusyFinite

\* A goroutine that goes on inside sendItem or retryOrFail is still counted.
LEMMA BusyStays ==
  ASSUME NEW w \in Workers, NEW s \in WorkerSteps, TypeOK,
         pc[w] # "idle", s # "idle", pc' = [pc EXCEPT ![w] = s]
  PROVE  Busy' = Busy
BY DEF Busy, TypeOK

\* NewPipeline and NewScheduler leave a state that satisfies the invariant.
LEMMA InitIndInv == Init => IndInv
<1> SUFFICES ASSUME Init PROVE IndInv
  OBVIOUS
<1>1. TypeOK
  <2>1. 0 \in 0..MaxRetries /\ 0 \in 0..MaxConcurrent
    BY CommandAssumption
  <2>2. /\ stopCh \in BOOLEAN /\ adapterSet \in BOOLEAN
        /\ sentAt \in [Commands -> BOOLEAN]
    BY DEF Init
  <2>3. /\ status \in [Commands -> Statuses]
        /\ pc \in [Workers -> WorkerSteps]
        /\ dispatcher \in LoopStates
        /\ call \in [Workers -> {"none", "running", "ok", "bad"}]
        /\ cmd \in [Workers -> Commands \union {NoCommand}]
        /\ stopState \in {"no", "waiting", "done"}
    BY DEF Init, Statuses, LoopStates, WorkerSteps
  <2>4. /\ retryCount \in [Commands -> 0..MaxRetries]
        /\ sem \in 0..MaxConcurrent
    BY <2>1 DEF Init
  <2> QED
    BY <2>2, <2>3, <2>4 DEF Init, TypeOK
<1>2. Busy = {}
  BY DEF Init, Busy
<1>3. Cardinality(Busy) = 0
  BY <1>2, FS_EmptySet
<1>4. Accounting
  BY <1>3 DEF Init, Accounting
<1>5. WorkerShape /\ Holding
  BY DEF Init, WorkerShape, Holding, NoneForgotten, Deciding
<1>6. Attempting /\ Calling /\ Announcing
  BY DEF Init, Attempting, Calling, Announcing
<1>7. FailedAtLimit /\ Stopping
  BY DEF Init, FailedAtLimit, Stopping
<1> QED
  BY <1>1, <1>4, <1>5, <1>6, <1>7 DEF IndInv

\* The goroutine sendItem runs in holds the item it was started with.
LEMMA CmdOfBusy ==
  ASSUME NEW w \in Workers, TypeOK, WorkerShape, pc[w] # "idle"
  PROVE  cmd[w] \in Commands
BY DEF TypeOK, WorkerShape

\* Whatever Cancel does meanwhile, a store of Status leaves one of the statuses.
LEMMA SetStatusTypes ==
  ASSUME NEW c \in Commands, NEW v \in Statuses, TypeOK, SetStatus(c, v)
  PROVE  status' \in [Commands -> Statuses] /\ cancelling' \subseteq Commands
BY DEF TypeOK, SetStatus, Statuses

\* The deferred calls of sendItem find a token to take back and a count to lower.
LEMMA ExitTypes ==
  ASSUME NEW w \in Workers, TypeOK, Accounting, pc[w] # "idle", Exit(w)
  PROVE  /\ sem' \in 0..MaxConcurrent /\ wg' \in Nat
         /\ pc' \in [Workers -> WorkerSteps]
         /\ cmd' \in [Workers -> Commands \union {NoCommand}]
         /\ call' \in [Workers -> {"none", "running", "ok", "bad"}]
<1>1. Cardinality(Busy) >= 1
  BY BusyShrinks DEF Exit
<1>2. sem >= 1 /\ wg >= 1
  BY <1>1, BusyFinite DEF Accounting
<1>3. sem' \in 0..MaxConcurrent /\ wg' \in Nat
  BY <1>2, CommandAssumption DEF TypeOK, Exit
<1> QED
  BY <1>3 DEF TypeOK, Exit, WorkerSteps

\* Going on to another step of sendItem keeps the types.
LEMMA ProceedTypes ==
  ASSUME NEW w \in Workers, NEW s \in WorkerSteps, TypeOK, Proceed(w, s)
  PROVE  /\ sem' \in 0..MaxConcurrent /\ wg' \in Nat
         /\ pc' \in [Workers -> WorkerSteps]
         /\ cmd' \in [Workers -> Commands \union {NoCommand}]
         /\ call' \in [Workers -> {"none", "running", "ok", "bad"}]
BY DEF TypeOK, Proceed

\* Giving up in retryOrFail keeps the types.
LEMMA FailTypes ==
  ASSUME NEW w \in Workers, TypeOK, Accounting, WorkerShape, pc[w] # "idle",
         Fail(w)
  PROVE  /\ sem' \in 0..MaxConcurrent /\ wg' \in Nat
         /\ pc' \in [Workers -> WorkerSteps]
         /\ cmd' \in [Workers -> Commands \union {NoCommand}]
         /\ call' \in [Workers -> {"none", "running", "ok", "bad"}]
         /\ status' \in [Commands -> Statuses] /\ cancelling' \subseteq Commands
         /\ retryCount' \in [Commands -> 0..MaxRetries]
         /\ totalFailed' \in Nat
<1>1. status' \in [Commands -> Statuses] /\ cancelling' \subseteq Commands
  BY CmdOfBusy, SetStatusTypes DEF Fail, Statuses
<1>2. retryCount' \in [Commands -> 0..MaxRetries] /\ totalFailed' \in Nat
  BY DEF TypeOK, Fail
<1> QED
  BY <1>1, <1>2, ExitTypes DEF Fail

\* retryOrFail keeps the types: RetryCount is raised only below MaxRetries.
LEMMA RetryTypes ==
  ASSUME NEW w \in Workers, TypeOK, Accounting, WorkerShape, pc[w] # "idle",
         RetryOrFail(w)
  PROVE  /\ sem' \in 0..MaxConcurrent /\ wg' \in Nat
         /\ pc' \in [Workers -> WorkerSteps]
         /\ cmd' \in [Workers -> Commands \union {NoCommand}]
         /\ call' \in [Workers -> {"none", "running", "ok", "bad"}]
         /\ status' \in [Commands -> Statuses] /\ cancelling' \subseteq Commands
         /\ retryCount' \in [Commands -> 0..MaxRetries]
         /\ totalFailed' \in Nat
<1>1. CASE Fail(w)
  BY <1>1, FailTypes
<1>2. CASE retryCount[cmd[w]] < MaxRetries /\ Retry(w)
  <2>1. retryCount' \in [Commands -> 0..MaxRetries]
    BY <1>2, CmdOfBusy, CommandAssumption DEF Retry, TypeOK
  <2>2. "backoff" \in WorkerSteps
    BY DEF WorkerSteps
  <2> QED
    BY <1>2, <2>1, <2>2, ProceedTypes DEF Retry, TypeOK
<1> QED
  BY <1>1, <1>2 DEF RetryOrFail

\* Every call, every turn of the loop and every step of a goroutine keeps the types.
LEMMA StepTypeOK ==
  ASSUME TypeOK, Accounting, WorkerShape, [Next]_vars
  PROVE  TypeOK'
<1> USE CommandAssumption
<1>1. ASSUME NEW c \in Commands, NEW p \in Priorities, Send(c, p) PROVE TypeOK'
  BY <1>1 DEF Send, workers, stopVars, outside, metrics, TypeOK, Statuses
<1>2. ASSUME NEW c \in Cancellable, CancelCheck(c) PROVE TypeOK'
  BY <1>2 DEF CancelCheck, item, workers, stopVars, outside, metrics, TypeOK
<1>3. ASSUME NEW c \in Cancellable, CancelWrite(c) PROVE TypeOK'
  BY <1>3 DEF CancelWrite, workers, stopVars, outside, metrics, TypeOK,
     Statuses
<1>4. ASSUME SetAdapter PROVE TypeOK'
  BY <1>4 DEF SetAdapter, item, workers, stopVars, outside, metrics, TypeOK
<1>5. ASSUME Start PROVE TypeOK'
  BY <1>5 DEF Start, item, workers, stopVars, outside, metrics, TypeOK,
     LoopStates
<1>6. ASSUME Stop PROVE TypeOK'
  BY <1>6 DEF Stop, item, workers, outside, metrics, TypeOK
<1>7. ASSUME StopUnstarted PROVE TypeOK'
  BY <1>7 DEF StopUnstarted, item, workers, outside, metrics, TypeOK
<1>8. ASSUME StopReturns PROVE TypeOK'
  BY <1>8 DEF StopReturns, item, workers, outside, metrics, TypeOK
<1>9. ASSUME CheckStop PROVE TypeOK'
  <2>1. stopCh => wg - 1 \in Nat
    BY <1>9, BusyFinite DEF CheckStop, Accounting
  <2> QED
    BY <1>9, <2>1 DEF CheckStop, item, workers, stopVars, outside, metrics,
       TypeOK, LoopStates
<1>10. ASSUME AcquireToken PROVE TypeOK'
  BY <1>10 DEF AcquireToken, item, workers, stopVars, outside, metrics,
     TypeOK, LoopStates
<1>11. ASSUME StopWaitingForToken PROVE TypeOK'
  <2>1. wg - 1 \in Nat
    BY <1>11, BusyFinite DEF StopWaitingForToken, Accounting
  <2> QED
    BY <1>11, <2>1 DEF StopWaitingForToken, item, workers, stopVars, outside,
       metrics, TypeOK, LoopStates
<1>12. ASSUME NEW w \in Workers, NEW c \in Commands, Dequeue(w, c) PROVE TypeOK'
  <2>1. status' \in [Commands -> Statuses] /\ cancelling' \subseteq Commands
    BY <1>12, SetStatusTypes DEF Dequeue, Statuses
  <2>2. /\ sentAt' \in [Commands -> BOOLEAN]
        /\ pc' \in [Workers -> WorkerSteps]
        /\ cmd' \in [Workers -> Commands \union {NoCommand}]
    BY <1>12 DEF Dequeue, TypeOK, WorkerSteps
  <2> QED
    BY <1>12, <2>1, <2>2 DEF Dequeue, outside, metrics, stopVars, TypeOK,
       LoopStates
<1>13. ASSUME DequeueNothing PROVE TypeOK'
  <2>1. sem - 1 \in 0..MaxConcurrent
    BY <1>13, BusyFinite DEF DequeueNothing, Accounting, TypeOK
  <2> QED
    BY <1>13, <2>1 DEF DequeueNothing, item, workers, stopVars, outside,
       metrics, TypeOK, LoopStates
<1>14. ASSUME WaitElapsed PROVE TypeOK'
  BY <1>14 DEF WaitElapsed, item, workers, stopVars, outside, metrics,
     TypeOK, LoopStates
<1>15. ASSUME StopWhileWaiting PROVE TypeOK'
  <2>1. wg - 1 \in Nat
    BY <1>15, BusyFinite DEF StopWhileWaiting, Accounting
  <2> QED
    BY <1>15, <2>1 DEF StopWhileWaiting, item, workers, stopVars, outside,
       metrics, TypeOK, LoopStates
<1>16. ASSUME NEW w \in Workers, PublishSent(w) PROVE TypeOK'
  <2>2. CASE RetryOrFail(w)
    BY <1>16, <2>2, RetryTypes DEF PublishSent, stopVars, TypeOK
  <2>3. CASE ~RetryOrFail(w)
    BY <1>16, <2>3 DEF PublishSent, stopVars, TypeOK, WorkerSteps
  <2> QED
    BY <2>2, <2>3
<1>17. ASSUME NEW w \in Workers, SendTimeout(w) PROVE TypeOK'
  <2>1. pc[w] # "idle" /\ cmd[w] \in Commands
    BY <1>17, CmdOfBusy DEF SendTimeout
  <2>2. orphans' \in [Commands -> Nat]
    BY <1>17, <2>1 DEF SendTimeout, TypeOK
  <2> QED
    BY <1>17, <2>2, RetryTypes DEF SendTimeout, stopVars, TypeOK
<1>18. ASSUME NEW w \in Workers, SendRejected(w) PROVE TypeOK'
  BY <1>18, RetryTypes DEF SendRejected, stopVars, outside, TypeOK
<1>19. ASSUME NEW w \in Workers, SendAcked(w) PROVE TypeOK'
  <2>1. status' \in [Commands -> Statuses] /\ cancelling' \subseteq Commands
    BY <1>19, CmdOfBusy, SetStatusTypes DEF SendAcked, Statuses
  <2>2. "publishAcked" \in WorkerSteps
    BY DEF WorkerSteps
  <2> QED
    BY <1>19, <2>1, <2>2, ProceedTypes DEF SendAcked, stopVars, outside,
       metrics, TypeOK
<1>20. ASSUME NEW w \in Workers, PublishAcked(w) PROVE TypeOK'
  BY <1>20, ExitTypes DEF PublishAcked, item, stopVars, TypeOK
<1>21. ASSUME NEW w \in Workers, BackoffStopped(w) PROVE TypeOK'
  BY <1>21, FailTypes DEF BackoffStopped, stopVars, outside, TypeOK
<1>22. ASSUME NEW w \in Workers, Requeue(w) PROVE TypeOK'
  <2>1. status' \in [Commands -> Statuses] /\ cancelling' \subseteq Commands
    BY <1>22, CmdOfBusy, SetStatusTypes DEF Requeue, Statuses
  <2>2. "requeued" \in WorkerSteps
    BY DEF WorkerSteps
  <2> QED
    BY <1>22, <2>1, <2>2, ProceedTypes DEF Requeue, stopVars, outside,
       metrics, TypeOK
<1>23. ASSUME NEW w \in Workers, ClearSentAt(w) PROVE TypeOK'
  BY <1>23, ExitTypes DEF ClearSentAt, stopVars, outside, metrics, TypeOK
<1>24. ASSUME NEW w \in Workers, AdapterReturns(w) PROVE TypeOK'
  BY <1>24 DEF AdapterReturns, item, stopVars, metrics, TypeOK
<1>25. ASSUME NEW c \in Commands, OrphanReturns(c) PROVE TypeOK'
  BY <1>25 DEF OrphanReturns, item, workers, stopVars, metrics, TypeOK
<1>26. CASE UNCHANGED vars
  BY <1>26 DEF vars, item, workers, stopVars, outside, metrics, TypeOK
<1> QED
  BY <1>1, <1>2, <1>3, <1>4, <1>5, <1>6, <1>7, <1>8, <1>9, <1>10, <1>11,
     <1>12, <1>13, <1>14, <1>15, <1>16, <1>17, <1>18, <1>19, <1>20, <1>21,
     <1>22, <1>23, <1>24, <1>25, <1>26 DEF Next, Client, Dispatch,
     WorkerStep, Adapter

-----------------------------------------------------------------------------
(* What the steps of a worker do to its command and to itself.             *)

\* The status of c becomes v or is torn, and some Cancel may be overtaken.
Shows(c, v) ==
  /\ \E s \in {v, "torn"} : status' = [status EXCEPT ![c] = s]
  /\ cancelling' \subseteq cancelling

\* The adapter is called with the item.
Sends(w) ==
  /\ pc[w] = "publishSent"
  /\ pc' = [pc EXCEPT ![w] = "await"]
  /\ call' = [call EXCEPT ![w] = "running"]
  /\ attempts' = [attempts EXCEPT ![cmd[w]] = @ + 1]
  /\ UNCHANGED <<status, cancelling, cmd, sem, wg, retryCount, orphans, accepted,
                 ackedEvents>>

\* A call that is still running may be left to itself.
Abandons(w) ==
  \/ UNCHANGED orphans
  \/ call[w] = "running" /\ orphans' = [orphans EXCEPT ![cmd[w]] = @ + 1]

\* The attempt is over and a retry is counted.
Retries(w) ==
  /\ pc[w] \in {"publishSent", "await"}
  /\ pc' = [pc EXCEPT ![w] = "backoff"]
  /\ call' = [call EXCEPT ![w] = "none"]
  /\ retryCount' = [retryCount EXCEPT ![cmd[w]] = @ + 1]
  /\ Abandons(w)
  /\ UNCHANGED <<status, cancelling, cmd, sem, wg, attempts, accepted, ackedEvents>>

\* The command is given up and the goroutine ends.
Fails(w) ==
  /\ pc[w] \in Deciding
  /\ Shows(cmd[w], "failed")
  /\ retryCount[cmd[w]] >= MaxRetries \/ stopCh
  /\ Exit(w)
  /\ Abandons(w)
  /\ UNCHANGED <<retryCount, attempts, accepted, ackedEvents>>

\* A success is read and the status stored.
Confirms(w) ==
  /\ pc[w] = "await" /\ call[w] = "ok"
  /\ Shows(cmd[w], "acked")
  /\ pc' = [pc EXCEPT ![w] = "publishAcked"]
  /\ call' = [call EXCEPT ![w] = "none"]
  /\ UNCHANGED <<cmd, sem, wg, retryCount, orphans, attempts, accepted, ackedEvents>>

\* The backoff is over and the item is in the queue again.
Requeues(w) ==
  /\ pc[w] = "backoff"
  /\ Shows(cmd[w], "queued")
  /\ pc' = [pc EXCEPT ![w] = "requeued"]
  /\ call' = [call EXCEPT ![w] = "none"]
  /\ UNCHANGED <<cmd, sem, wg, retryCount, orphans, attempts, accepted, ackedEvents>>

\* The goroutine ends after its last store or its last event.
Ends(w) ==
  /\ \/ pc[w] = "requeued" /\ UNCHANGED ackedEvents
     \/ pc[w] = "publishAcked"
        /\ \/ UNCHANGED ackedEvents
           \/ ackedEvents' = [ackedEvents EXCEPT ![cmd[w]] = @ + 1]
  /\ Exit(w)
  /\ UNCHANGED <<status, cancelling, retryCount, orphans, attempts, accepted>>

\* A store of Status shows the new status, or a torn one.
LEMMA SetStatusShows ==
  ASSUME NEW c, NEW v, SetStatus(c, v)
  PROVE  Shows(c, v)
BY DEF SetStatus, Shows

\* retryOrFail either counts a retry or gives the command up.
LEMMA RetryOrFailEffect ==
  ASSUME NEW w \in Workers, pc[w] \in {"publishSent", "await"},
         RetryOrFail(w), Abandons(w), UNCHANGED <<attempts, accepted, ackedEvents>>
  PROVE  Retries(w) \/ Fails(w)
<1>1. CASE Retry(w)
  BY <1>1 DEF Retry, Proceed, Retries
<1>2. CASE retryCount[cmd[w]] >= MaxRetries /\ Fail(w)
  BY <1>2, SetStatusShows DEF Fail, Fails, Deciding
<1> QED
  BY <1>1, <1>2 DEF RetryOrFail

\* Every step of sendItem and retryOrFail is one of the six above.
LEMMA WorkerEffect ==
  ASSUME NEW w \in Workers, WorkerStep(w)
  PROVE  /\ Sends(w) \/ Retries(w) \/ Fails(w) \/ Confirms(w) \/ Requeues(w) \/ Ends(w)
         /\ UNCHANGED <<dispatcher, stopVars, adapterSet>>
<1>1. CASE PublishSent(w)
  <2>1. CASE RetryOrFail(w) /\ UNCHANGED attempts
    BY <1>1, <2>1, RetryOrFailEffect DEF PublishSent, Abandons
  <2>2. CASE ~(RetryOrFail(w) /\ UNCHANGED attempts)
    BY <1>1, <2>2 DEF PublishSent, Sends
  <2> QED
    BY <2>1, <2>2
<1>2. CASE SendTimeout(w)
  <2>1. Abandons(w)
    BY <1>2 DEF SendTimeout, Abandons
  <2> QED
    BY <1>2, <2>1, RetryOrFailEffect DEF SendTimeout
<1>3. CASE SendRejected(w)
  <2>1. Abandons(w)
    BY <1>3 DEF SendRejected, Abandons, outside
  <2> QED
    BY <1>3, <2>1, RetryOrFailEffect DEF SendRejected, outside
<1>4. CASE SendAcked(w)
  BY <1>4, SetStatusShows DEF SendAcked, Proceed, Confirms, outside
<1>5. CASE PublishAcked(w)
  BY <1>5 DEF PublishAcked, Ends, item
<1>6. CASE BackoffStopped(w)
  BY <1>6, SetStatusShows DEF BackoffStopped, Fail, Fails, Abandons, outside,
     Deciding
<1>7. CASE Requeue(w)
  BY <1>7, SetStatusShows DEF Requeue, Proceed, Requeues, outside
<1>8. CASE ClearSentAt(w)
  BY <1>8 DEF ClearSentAt, Ends, outside
<1> QED
  BY <1>1, <1>2, <1>3, <1>4, <1>5, <1>6, <1>7, <1>8 DEF WorkerStep

\* The steps that touch neither a command nor a worker.
LoopStep ==
  \/ CheckStop \/ AcquireToken \/ StopWaitingForToken
  \/ DequeueNothing \/ WaitElapsed \/ StopWhileWaiting

\* The calls that touch neither.
CallStep == SetAdapter \/ Start \/ Stop \/ StopUnstarted \/ StopReturns

\* These steps change no item, no goroutine and no call of the adapter.
LEMMA QuietFrame ==
  ASSUME LoopStep \/ CallStep \/ UNCHANGED vars
  PROVE  UNCHANGED <<item, workers, cancelling, outside>>
BY DEF LoopStep, CallStep, CheckStop, AcquireToken, StopWaitingForToken,
   DequeueNothing, WaitElapsed, StopWhileWaiting, SetAdapter, Start, Stop,
   StopUnstarted, StopReturns, vars

\* The steps of the system, as the proofs below distinguish them.
LEMMA NextCases ==
  ASSUME [Next]_vars
  PROVE  \/ \E c \in Commands, p \in Priorities : Send(c, p)
         \/ \E c \in Commands : CancelCheck(c) \/ CancelWrite(c)
         \/ LoopStep \/ CallStep \/ UNCHANGED vars
         \/ \E w \in Workers, c \in Commands : Dequeue(w, c)
         \/ \E w \in Workers : WorkerStep(w)
         \/ \E w \in Workers : AdapterReturns(w)
         \/ \E c \in Commands : OrphanReturns(c)
BY CommandAssumption DEF Next, Client, Dispatch, Adapter, LoopStep, CallStep

-----------------------------------------------------------------------------
(* Each part of the inductive invariant is preserved.                      *)

\* The semaphore and the WaitGroup count the goroutines, and the loop.
LEMMA StepAccounting ==
  ASSUME TypeOK, Accounting, WorkerShape, [Next]_vars
  PROVE  Accounting'
<1>1. CASE \/ \E c \in Commands, p \in Priorities : Send(c, p)
           \/ \E c \in Commands : CancelCheck(c) \/ CancelWrite(c)
           \/ \E w \in Workers : AdapterReturns(w)
           \/ \E c \in Commands : OrphanReturns(c)
           \/ UNCHANGED vars
  <2>1. UNCHANGED <<pc, sem, wg, dispatcher>>
    BY <1>1 DEF Send, CancelCheck, CancelWrite, AdapterReturns,
       OrphanReturns, workers, vars
  <2> QED
    BY <2>1 DEF Accounting, Busy
<1>2. CASE LoopStep \/ CallStep
  <2>1. Busy' = Busy
    BY <1>2, QuietFrame DEF Busy, workers
  <2>2. CASE CheckStop
    BY <2>1, <2>2, BusyFinite DEF CheckStop, Accounting
  <2>3. CASE AcquireToken \/ DequeueNothing \/ WaitElapsed
    BY <2>1, <2>3, BusyFinite DEF AcquireToken, DequeueNothing, WaitElapsed,
       Accounting
  <2>4. CASE StopWaitingForToken \/ StopWhileWaiting
    BY <2>1, <2>4, BusyFinite DEF StopWaitingForToken, StopWhileWaiting,
       Accounting
  <2>5. CASE Start
    BY <2>1, <2>5, BusyFinite DEF Start, Accounting
  <2>6. CASE SetAdapter \/ Stop \/ StopUnstarted \/ StopReturns
    BY <2>1, <2>6 DEF SetAdapter, Stop, StopUnstarted, StopReturns, Accounting
  <2> QED
    BY <1>2, <2>2, <2>3, <2>4, <2>5, <2>6 DEF LoopStep, CallStep
<1>3. ASSUME NEW w \in Workers, NEW c \in Commands, Dequeue(w, c)
      PROVE  Accounting'
  <2>1. Cardinality(Busy') = Cardinality(Busy) + 1
    BY <1>3, BusyGrows DEF Dequeue
  <2> QED
    BY <1>3, <2>1 DEF Dequeue, Accounting
<1>4. ASSUME NEW w \in Workers, WorkerStep(w)
      PROVE  Accounting'
  <2>1. CASE Sends(w) \/ Retries(w) \/ Confirms(w) \/ Requeues(w)
    <3>1. Busy' = Busy
      BY <2>1, BusyStays DEF Sends, Retries, Confirms, Requeues, WorkerSteps
    <3>2. UNCHANGED <<sem, wg, dispatcher>>
      BY <1>4, <2>1, WorkerEffect DEF Sends, Retries, Confirms, Requeues
    <3> QED
      BY <3>1, <3>2 DEF Accounting
  <2>2. CASE Fails(w) \/ Ends(w)
    <3>1. Exit(w) /\ pc[w] # "idle" /\ dispatcher' = dispatcher
      BY <1>4, <2>2, WorkerEffect DEF Fails, Ends, Deciding
    <3>2. Cardinality(Busy') = Cardinality(Busy) - 1
      BY <3>1, BusyShrinks DEF Exit
    <3> QED
      BY <3>1, <3>2, BusyFinite DEF Exit, Accounting
  <2> QED
    BY <1>4, <2>1, <2>2, WorkerEffect
<1> QED
  BY <1>1, <1>2, <1>3, <1>4, NextCases

\* A goroutine has an item while it runs and a call while it waits for one.
LEMMA StepWorkerShape ==
  ASSUME TypeOK, WorkerShape, [Next]_vars
  PROVE  WorkerShape'
<1>1. ASSUME NEW c \in Commands, NEW p \in Priorities, Send(c, p)
      PROVE  WorkerShape'
  BY <1>1 DEF Send, workers, WorkerShape
<1>2. ASSUME NEW c \in Commands, CancelCheck(c)
      PROVE  WorkerShape'
  BY <1>2 DEF CancelCheck, item, workers, WorkerShape
<1>3. ASSUME NEW c \in Commands, CancelWrite(c)
      PROVE  WorkerShape'
  BY <1>3 DEF CancelWrite, workers, WorkerShape
<1>4. CASE LoopStep \/ CallStep \/ UNCHANGED vars
  BY <1>4, QuietFrame DEF item, workers, WorkerShape
<1>5. ASSUME NEW w \in Workers, NEW c \in Commands, Dequeue(w, c)
      PROVE  WorkerShape'
  <2>1. Shows(c, "sending") /\ status[c] = "queued"
    BY <1>5, SetStatusShows DEF Dequeue, Best, Queued
  <2> QED
    BY <1>5, <2>1, CommandAssumption DEF Dequeue, Shows, TypeOK, WorkerShape
<1>6. ASSUME NEW w \in Workers, WorkerStep(w)
      PROVE  WorkerShape'
  <2>1. CASE Sends(w)
    BY <2>1 DEF Sends, TypeOK, WorkerShape
  <2>2. CASE Retries(w)
    BY <2>2 DEF Retries, TypeOK, WorkerShape
  <2>3. CASE Fails(w)
    BY <2>3 DEF Fails, Shows, Exit, TypeOK, WorkerShape
  <2>4. CASE Confirms(w)
    BY <2>4 DEF Confirms, Shows, TypeOK, WorkerShape
  <2>5. CASE Requeues(w)
    BY <2>5 DEF Requeues, Shows, WorkerShape
  <2>6. CASE Ends(w)
    BY <2>6 DEF Ends, Exit, TypeOK, WorkerShape
  <2> QED
    BY <1>6, <2>1, <2>2, <2>3, <2>4, <2>5, <2>6, WorkerEffect
<1>7. ASSUME NEW w \in Workers, AdapterReturns(w)
      PROVE  WorkerShape'
  BY <1>7 DEF AdapterReturns, item, TypeOK, WorkerShape
<1>8. ASSUME NEW c \in Commands, OrphanReturns(c)
      PROVE  WorkerShape'
  BY <1>8 DEF OrphanReturns, item, workers, WorkerShape
<1> QED
  BY <1>1, <1>2, <1>3, <1>4, <1>5, <1>6, <1>7, <1>8, NextCases

\* Cancel, dispatchLoop and the goroutines keep one holder per command: the
\* loop takes only queued items, and what a holder holds is never queued.
LEMMA StepHolding ==
  ASSUME TypeOK, WorkerShape, Holding, [Next]_vars
  PROVE  Holding'
<1>1. ASSUME NEW c \in Commands, NEW p \in Priorities, Send(c, p)
      PROVE  Holding'
  BY <1>1 DEF Send, workers, Holding, NoneForgotten
<1>2. ASSUME NEW c \in Commands, CancelCheck(c)
      PROVE  Holding'
  BY <1>2 DEF CancelCheck, item, workers, Holding, NoneForgotten
<1>3. ASSUME NEW c \in Commands, CancelWrite(c)
      PROVE  Holding'
  BY <1>3 DEF CancelWrite, workers, Holding, NoneForgotten
<1>4. CASE LoopStep \/ CallStep \/ UNCHANGED vars
  BY <1>4, QuietFrame DEF item, workers, Holding, NoneForgotten
<1>5. ASSUME NEW w \in Workers, NEW c \in Commands, Dequeue(w, c)
      PROVE  Holding'
  <2>1. Shows(c, "sending") /\ status[c] = "queued"
    BY <1>5, SetStatusShows DEF Dequeue, Best, Queued
  <2> QED
    BY <1>5, <2>1 DEF Dequeue, Shows, TypeOK, Holding, NoneForgotten, Deciding
<1>6. ASSUME NEW w \in Workers, WorkerStep(w)
      PROVE  Holding'
  <2>1. CASE Sends(w)
    BY <2>1 DEF Sends, Holding, NoneForgotten, Deciding
  <2>2. CASE Retries(w)
    BY <2>2 DEF Retries, Holding, NoneForgotten, Deciding
  <2>3. CASE Fails(w)
    BY <2>3 DEF Fails, Shows, Exit, TypeOK, Holding, NoneForgotten, Deciding
  <2>4. CASE Confirms(w)
    BY <2>4 DEF Confirms, Shows, TypeOK, Holding, NoneForgotten, Deciding
  <2>5. CASE Requeues(w)
    BY <2>5 DEF Requeues, Shows, TypeOK, Holding, NoneForgotten, Deciding
  <2>6. CASE Ends(w)
    BY <2>6 DEF Ends, Exit, Holding, NoneForgotten, Deciding
  <2> QED
    BY <1>6, <2>1, <2>2, <2>3, <2>4, <2>5, <2>6, WorkerEffect
<1>7. ASSUME NEW w \in Workers, AdapterReturns(w)
      PROVE  Holding'
  BY <1>7 DEF AdapterReturns, item, Holding, NoneForgotten
<1>8. ASSUME NEW c \in Commands, OrphanReturns(c)
      PROVE  Holding'
  BY <1>8 DEF OrphanReturns, item, workers, Holding, NoneForgotten
<1> QED
  BY <1>1, <1>2, <1>3, <1>4, <1>5, <1>6, <1>7, <1>8, NextCases

\* Every send of an item is paid for by its RetryCount (sendItem, retryOrFail).
LEMMA StepAttempting ==
  ASSUME TypeOK, WorkerShape, Holding, Attempting, [Next]_vars
  PROVE  Attempting'
<1>1. ASSUME NEW c \in Commands, NEW p \in Priorities, Send(c, p)
      PROVE  Attempting'
  BY <1>1 DEF Send, workers, outside, Attempting
<1>2. ASSUME NEW c \in Commands, CancelCheck(c)
      PROVE  Attempting'
  BY <1>2 DEF CancelCheck, item, workers, outside, Attempting
<1>3. ASSUME NEW c \in Commands, CancelWrite(c)
      PROVE  Attempting'
  BY <1>3 DEF CancelWrite, workers, outside, Attempting
<1>4. CASE LoopStep \/ CallStep \/ UNCHANGED vars
  BY <1>4, QuietFrame DEF item, workers, outside, Attempting
<1>5. ASSUME NEW w \in Workers, NEW c \in Commands, Dequeue(w, c)
      PROVE  Attempting'
  <2>1. Shows(c, "sending") /\ status[c] = "queued"
    BY <1>5, SetStatusShows DEF Dequeue, Best, Queued
  <2> QED
    BY <1>5, <2>1, CommandAssumption DEF Dequeue, Shows, outside, Attempting,
       WorkerShape
<1>6. ASSUME NEW w \in Workers, WorkerStep(w)
      PROVE  Attempting'
  <2>1. CASE Sends(w)
    BY <2>1 DEF Sends, TypeOK, Attempting, Holding, Deciding
  <2>2. CASE Retries(w)
    BY <2>2 DEF Retries, TypeOK, Attempting
  <2>3. CASE Fails(w)
    BY <2>3, CommandAssumption DEF Fails, Shows, Exit, Attempting
  <2>4. CASE Confirms(w)
    BY <2>4 DEF Confirms, Shows, Attempting
  <2>5. CASE Requeues(w)
    BY <2>5 DEF Requeues, Shows, Attempting
  <2>6. CASE Ends(w)
    BY <2>6 DEF Ends, Exit, Attempting
  <2> QED
    BY <1>6, <2>1, <2>2, <2>3, <2>4, <2>5, <2>6, WorkerEffect
<1>7. ASSUME NEW w \in Workers, AdapterReturns(w)
      PROVE  Attempting'
  BY <1>7 DEF AdapterReturns, item, Attempting
<1>8. ASSUME NEW c \in Commands, OrphanReturns(c)
      PROVE  Attempting'
  BY <1>8 DEF OrphanReturns, item, workers, Attempting
<1> QED
  BY <1>1, <1>2, <1>3, <1>4, <1>5, <1>6, <1>7, <1>8, NextCases

\* Every answer of the adapter belongs to a send of its own.
LEMMA StepCalling ==
  ASSUME TypeOK, WorkerShape, Holding, Calling, [Next]_vars
  PROVE  Calling'
<1>1. ASSUME NEW c \in Commands, NEW p \in Priorities, Send(c, p)
      PROVE  Calling'
  BY <1>1 DEF Send, workers, outside, Calling
<1>2. ASSUME NEW c \in Commands, CancelCheck(c)
      PROVE  Calling'
  BY <1>2 DEF CancelCheck, workers, outside, Calling
<1>3. ASSUME NEW c \in Commands, CancelWrite(c)
      PROVE  Calling'
  BY <1>3 DEF CancelWrite, workers, outside, Calling
<1>4. CASE LoopStep \/ CallStep \/ UNCHANGED vars
  BY <1>4, QuietFrame DEF workers, outside, Calling
<1>5. ASSUME NEW w \in Workers, NEW c \in Commands, Dequeue(w, c)
      PROVE  Calling'
  BY <1>5 DEF Dequeue, outside, Calling, WorkerShape
<1>6. ASSUME NEW w \in Workers, WorkerStep(w)
      PROVE  Calling'
  <2>1. CASE Sends(w)
    BY <2>1 DEF Sends, TypeOK, Calling
  <2>2. CASE Retries(w)
    BY <2>2 DEF Retries, Abandons, TypeOK, Calling, WorkerShape, Holding,
       Deciding
  <2>3. CASE Fails(w)
    BY <2>3 DEF Fails, Abandons, Exit, TypeOK, Calling, WorkerShape, Holding
  <2>4. CASE Confirms(w)
    BY <2>4 DEF Confirms, Calling
  <2>5. CASE Requeues(w)
    BY <2>5 DEF Requeues, Calling
  <2>6. CASE Ends(w)
    BY <2>6, CommandAssumption DEF Ends, Exit, Calling
  <2> QED
    BY <1>6, <2>1, <2>2, <2>3, <2>4, <2>5, <2>6, WorkerEffect
<1>7. ASSUME NEW w \in Workers, AdapterReturns(w)
      PROVE  Calling'
  BY <1>7 DEF AdapterReturns, TypeOK, Calling, WorkerShape, Holding, Deciding
<1>8. ASSUME NEW c \in Commands, OrphanReturns(c)
      PROVE  Calling'
  BY <1>8 DEF OrphanReturns, workers, TypeOK, Calling
<1> QED
  BY <1>1, <1>2, <1>3, <1>4, <1>5, <1>6, <1>7, <1>8, NextCases

\* CommandAcked is published by the goroutine that got the confirmation, for an
\* item nobody will send again.
LEMMA StepAnnouncing ==
  ASSUME TypeOK, WorkerShape, Holding, Announcing, [Next]_vars
  PROVE  Announcing'
<1>1. ASSUME NEW c \in Commands, NEW p \in Priorities, Send(c, p)
      PROVE  Announcing'
  BY <1>1 DEF Send, workers, outside, Announcing, Live, Held
<1>2. ASSUME NEW c \in Commands, CancelCheck(c)
      PROVE  Announcing'
  BY <1>2 DEF CancelCheck, item, workers, outside, Announcing, Live, Held
<1>3. ASSUME NEW c \in Commands, CancelWrite(c)
      PROVE  Announcing'
  BY <1>3 DEF CancelWrite, workers, outside, Announcing, Live, Held
<1>4. CASE LoopStep \/ CallStep \/ UNCHANGED vars
  BY <1>4, QuietFrame DEF item, workers, outside, Announcing, Live, Held
<1>5. ASSUME NEW w \in Workers, NEW c \in Commands, Dequeue(w, c)
      PROVE  Announcing'
  <2>1. Shows(c, "sending") /\ status[c] = "queued"
    BY <1>5, SetStatusShows DEF Dequeue, Best, Queued
  <2> QED
    BY <1>5, <2>1, CommandAssumption DEF Dequeue, Shows, outside, Announcing,
       Live, Held, WorkerShape
<1>6. ASSUME NEW w \in Workers, WorkerStep(w)
      PROVE  Announcing'
  <2>1. CASE Sends(w)
    BY <2>1 DEF Sends, Announcing, Live, Held, Deciding
  <2>2. CASE Retries(w)
    BY <2>2 DEF Retries, Announcing, Live, Held, Deciding
  <2>3. CASE Fails(w)
    BY <2>3 DEF Fails, Shows, Exit, TypeOK, Announcing, Live, Held, Deciding
  <2>4. CASE Confirms(w)
    BY <2>4 DEF Confirms, Shows, TypeOK, Announcing, Live, Held, WorkerShape,
       Holding, Deciding
  <2>5. CASE Requeues(w)
    BY <2>5 DEF Requeues, Shows, Announcing, Live, Held, Deciding
  <2>6. CASE Ends(w)
    BY <2>6, CommandAssumption DEF Ends, Exit, TypeOK, Announcing, Live,
       Held, WorkerShape
  <2> QED
    BY <1>6, <2>1, <2>2, <2>3, <2>4, <2>5, <2>6, WorkerEffect
<1>7. ASSUME NEW w \in Workers, AdapterReturns(w)
      PROVE  Announcing'
  BY <1>7, CommandAssumption DEF AdapterReturns, item, TypeOK, Announcing,
     Live, Held, WorkerShape, Holding
<1>8. ASSUME NEW c \in Commands, OrphanReturns(c)
      PROVE  Announcing'
  BY <1>8 DEF OrphanReturns, item, workers, TypeOK, Announcing, Live, Held,
     WorkerShape
<1> QED
  BY <1>1, <1>2, <1>3, <1>4, <1>5, <1>6, <1>7, <1>8, NextCases

\* retryOrFail stores failed at the limit, or when stopCh is closed.
LEMMA StepFailedAtLimit ==
  ASSUME TypeOK, WorkerShape, Holding, FailedAtLimit, [Next]_vars
  PROVE  FailedAtLimit'
<1>1. ASSUME NEW c \in Commands, NEW p \in Priorities, Send(c, p)
      PROVE  FailedAtLimit'
  BY <1>1 DEF Send, stopVars, FailedAtLimit
<1>2. ASSUME NEW c \in Commands, CancelCheck(c)
      PROVE  FailedAtLimit'
  BY <1>2 DEF CancelCheck, item, stopVars, FailedAtLimit
<1>3. ASSUME NEW c \in Commands, CancelWrite(c)
      PROVE  FailedAtLimit'
  BY <1>3 DEF CancelWrite, stopVars, FailedAtLimit
<1>4. CASE LoopStep \/ CallStep \/ UNCHANGED vars
  <2>1. UNCHANGED <<status, retryCount>>
    BY <1>4, QuietFrame DEF item
  <2>2. stopCh => stopCh'
    BY <1>4 DEF LoopStep, CallStep, CheckStop, AcquireToken,
       StopWaitingForToken, DequeueNothing, WaitElapsed, StopWhileWaiting,
       SetAdapter, Start, Stop, StopUnstarted, StopReturns, stopVars, vars
  <2> QED
    BY <2>1, <2>2 DEF FailedAtLimit
<1>5. ASSUME NEW w \in Workers, NEW c \in Commands, Dequeue(w, c)
      PROVE  FailedAtLimit'
  <2>1. Shows(c, "sending") /\ status[c] = "queued"
    BY <1>5, SetStatusShows DEF Dequeue, Best, Queued
  <2> QED
    BY <1>5, <2>1 DEF Dequeue, Shows, stopVars, FailedAtLimit
<1>6. ASSUME NEW w \in Workers, WorkerStep(w)
      PROVE  FailedAtLimit'
  <2>1. stopCh' = stopCh
    BY <1>6, WorkerEffect DEF stopVars
  <2>2. CASE Sends(w)
    BY <2>2, <2>1 DEF Sends, FailedAtLimit
  <2>3. CASE Retries(w)
    BY <2>3, <2>1 DEF Retries, FailedAtLimit, Holding, Deciding
  <2>4. CASE Fails(w)
    BY <2>4, <2>1, CommandAssumption DEF Fails, Shows, Exit, TypeOK,
       FailedAtLimit
  <2>5. CASE Confirms(w)
    BY <2>5, <2>1 DEF Confirms, Shows, FailedAtLimit
  <2>6. CASE Requeues(w)
    BY <2>6, <2>1 DEF Requeues, Shows, FailedAtLimit
  <2>7. CASE Ends(w)
    BY <2>7, <2>1 DEF Ends, FailedAtLimit
  <2> QED
    BY <1>6, <2>2, <2>3, <2>4, <2>5, <2>6, <2>7, WorkerEffect
<1>7. ASSUME NEW w \in Workers, AdapterReturns(w)
      PROVE  FailedAtLimit'
  BY <1>7 DEF AdapterReturns, item, stopVars, FailedAtLimit
<1>8. ASSUME NEW c \in Commands, OrphanReturns(c)
      PROVE  FailedAtLimit'
  BY <1>8 DEF OrphanReturns, item, stopVars, FailedAtLimit
<1> QED
  BY <1>1, <1>2, <1>3, <1>4, <1>5, <1>6, <1>7, <1>8, NextCases

\* Scheduler.Stop returns when the WaitGroup is down to zero, and then nothing
\* can start again.
LEMMA StepStopping ==
  ASSUME TypeOK, Accounting, Stopping, [Next]_vars
  PROVE  Stopping'
<1>1. CASE \/ \E c \in Commands, p \in Priorities : Send(c, p)
           \/ \E c \in Commands : CancelCheck(c) \/ CancelWrite(c)
           \/ \E w \in Workers : AdapterReturns(w)
           \/ \E c \in Commands : OrphanReturns(c)
           \/ UNCHANGED vars
  <2>1. UNCHANGED <<pc, dispatcher, stopCh, stopState>>
    BY <1>1 DEF Send, CancelCheck, CancelWrite, AdapterReturns,
       OrphanReturns, workers, stopVars, vars
  <2> QED
    BY <2>1 DEF Stopping, Busy
<1>2. CASE LoopStep
  BY <1>2 DEF LoopStep, CheckStop, AcquireToken, StopWaitingForToken,
     DequeueNothing, WaitElapsed, StopWhileWaiting, stopVars, Stopping
<1>3. CASE CallStep
  <2>1. Busy' = Busy
    BY <1>3, QuietFrame DEF Busy, workers
  <2>2. CASE StopReturns
    <3>1. Cardinality(Busy) = 0 /\ dispatcher \in {"off", "exited"}
      BY <2>2, BusyFinite DEF StopReturns, Accounting
    <3>2. Busy = {}
      BY <3>1, BusyFinite, FS_EmptySet
    <3> QED
      BY <2>1, <2>2, <3>1, <3>2 DEF StopReturns, Stopping
  <2>3. CASE SetAdapter \/ Start \/ Stop \/ StopUnstarted
    BY <2>1, <2>3 DEF SetAdapter, Start, Stop, StopUnstarted, stopVars,
       Stopping
  <2> QED
    BY <1>3, <2>2, <2>3 DEF CallStep
<1>4. ASSUME NEW w \in Workers, NEW c \in Commands, Dequeue(w, c)
      PROVE  Stopping'
  BY <1>4 DEF Dequeue, stopVars, Stopping
<1>5. ASSUME NEW w \in Workers, WorkerStep(w)
      PROVE  Stopping'
  <2>1. pc[w] # "idle"
    BY <1>5, WorkerEffect DEF Sends, Retries, Fails, Confirms, Requeues,
       Ends, Deciding
  <2>2. w \in Busy
    BY <2>1 DEF Busy
  <2> QED
    BY <1>5, <2>2, WorkerEffect DEF stopVars, Stopping
<1> QED
  BY <1>1, <1>2, <1>3, <1>4, <1>5, NextCases

-----------------------------------------------------------------------------
(* The theorems.                                                           *)

\* The inductive invariant holds of every behaviour, for any number of
\* commands and workers, any limits and any interleaving.
THEOREM Invariance == Spec => []IndInv
<1>1. IndInv /\ [Next]_vars => IndInv'
  BY StepTypeOK, StepAccounting, StepWorkerShape, StepHolding,
     StepAttempting, StepCalling, StepAnnouncing, StepFailedAtLimit,
     StepStopping DEF IndInv
<1> QED
  BY <1>1, InitIndInv, PTL DEF Spec

\* Type correctness.
THEOREM TypeCorrect == Spec => []TypeOK
<1>1. IndInv => TypeOK
  BY DEF IndInv
<1> QED
  BY <1>1, Invariance, PTL

\* dispatchLoop never has more than MaxConcurrent goroutines at work: each one
\* holds a token of the semaphore, and the loop gets no token beyond the last.
THEOREM BoundedConcurrency == Spec => []ConcurrencyBound
<1>1. IndInv => ConcurrencyBound
  BY BusyFinite, CommandAssumption DEF IndInv, TypeOK, Accounting,
     ConcurrencyBound
<1> QED
  BY <1>1, Invariance, PTL

\* One goroutine at a time decides what becomes of a command, and none while
\* the command is in the queue; a command shown as sending has one.
THEOREM ExclusiveHolder == Spec => []OneHolder
<1>1. IndInv => OneHolder
  BY DEF IndInv, Holding, OneDecider, OneHolder
<1> QED
  BY <1>1, Invariance, PTL

\* Timeouts and retries together give the adapter a command at most
\* MaxRetries + 1 times, late answers included.
THEOREM BoundedDelivery == Spec => []DeliveryBound
<1>1. IndInv => DeliveryBound
  BY CommandAssumption DEF IndInv, TypeOK, Attempting, Calling, DeliveryBound
<1> QED
  BY <1>1, Invariance, PTL

\* Acknowledgements are shown and announced only for commands the adapter
\* confirmed, and announced at most once.
THEOREM HonestAck == Spec => []AckedWasAccepted
<1>1. IndInv => AckedWasAccepted
  BY DEF IndInv, Announcing, AckedWasAccepted
<1> QED
  BY <1>1, Invariance, PTL

\* A command is given up only at the retry limit or at a stop.
THEOREM FailureJustified == Spec => []FailedAtLimit
<1>1. IndInv => FailedAtLimit
  BY DEF IndInv
<1> QED
  BY <1>1, Invariance, PTL

\* The three together: a command shows what happened to it.
THEOREM HonestScheduler == Spec => []HonestOutcome
<1>1. DeliveryBound /\ AckedWasAccepted /\ FailedAtLimit => HonestOutcome
  BY DEF HonestOutcome
<1> QED
  BY <1>1, BoundedDelivery, HonestAck, FailureJustified, PTL

\* After Stop has returned nothing of the scheduler runs and no command is
\* left in the middle of a send.
THEOREM QuietAfterStop == Spec => []StoppedMeansQuiet
<1>1. ASSUME IndInv PROVE StoppedMeansQuiet
  <2>1. Busy = {} => \A w \in Workers : pc[w] \notin Deciding
    BY DEF Busy, Deciding
  <2> QED
    BY <1>1, <2>1 DEF IndInv, Stopping, Holding, NoneForgotten,
       StoppedMeansQuiet
<1> QED
  BY <1>1, Invariance, PTL
-----------------------------------------------------------------------------
(* What a step may do: cancelled and settled commands stay what they are,  *)
(* and every step is one that the contract of CommandDelivery allows, or   *)
(* changes nothing the contract speaks of.                                 *)

\* A goroutine that decides about a command holds it (sendItem, retryOrFail).
LEMMA DecidingHolds ==
  ASSUME NEW w \in Workers, TypeOK, WorkerShape, pc[w] \in Deciding
  PROVE  cmd[w] \in Commands /\ Held(cmd[w])
BY CmdOfBusy DEF Held, Deciding

\* The steps of a goroutine that change a status or count an attempt are made
\* by the holder of the command.
LEMMA OnlyHolderChanges ==
  ASSUME NEW w \in Workers, NEW c \in Commands, TypeOK, WorkerShape,
         WorkerStep(w), ~Held(c)
  PROVE  status'[c] = status[c] /\ attempts'[c] = attempts[c]
<1>1. CASE Sends(w)
  BY <1>1, DecidingHolds DEF Sends, Deciding, TypeOK
<1>2. CASE Retries(w) \/ Ends(w)
  BY <1>2 DEF Retries, Ends
<1>3. CASE Fails(w) \/ Confirms(w) \/ Requeues(w)
  <2>1. pc[w] \in Deciding /\ attempts' = attempts
    BY <1>3 DEF Fails, Confirms, Requeues, Deciding
  <2>2. cmd[w] # c
    BY <2>1, DecidingHolds
  <2> QED
    BY <1>3, <2>1, <2>2 DEF Fails, Confirms, Requeues, Shows, TypeOK
<1> QED
  BY <1>1, <1>2, <1>3, WorkerEffect

\* Cancel on a command no goroutine holds is final: dispatchLoop takes only
\* queued items.
LEMMA CancelStep ==
  ASSUME TypeOK, WorkerShape, [Next]_vars,
         NEW c \in Commands, status[c] = "cancelled", ~Held(c)
  PROVE  status'[c] = "cancelled"
<1>1. ASSUME NEW d \in Commands, NEW p \in Priorities, Send(d, p)
      PROVE  status'[c] = "cancelled"
  BY <1>1 DEF Send, TypeOK
<1>2. ASSUME NEW d \in Commands, CancelCheck(d) \/ CancelWrite(d)
      PROVE  status'[c] = "cancelled"
  BY <1>2 DEF CancelCheck, CancelWrite, item, TypeOK
<1>3. CASE LoopStep \/ CallStep \/ UNCHANGED vars
  BY <1>3, QuietFrame DEF item
<1>4. ASSUME NEW w \in Workers, NEW d \in Commands, Dequeue(w, d)
      PROVE  status'[c] = "cancelled"
  BY <1>4, SetStatusShows DEF Dequeue, Best, Queued, Shows, TypeOK
<1>5. ASSUME NEW w \in Workers, WorkerStep(w)
      PROVE  status'[c] = "cancelled"
  BY <1>5, OnlyHolderChanges
<1>6. ASSUME NEW w \in Workers, AdapterReturns(w)
      PROVE  status'[c] = "cancelled"
  BY <1>6 DEF AdapterReturns, item
<1>7. ASSUME NEW d \in Commands, OrphanReturns(d)
      PROVE  status'[c] = "cancelled"
  BY <1>7 DEF OrphanReturns, item
<1> QED
  BY <1>1, <1>2, <1>3, <1>4, <1>5, <1>6, <1>7, NextCases

\* A settled command has no holder, so only a Cancel that is about to write
\* can change what is shown of it.
LEMMA SettledStep ==
  ASSUME TypeOK, WorkerShape, Holding, [Next]_vars,
         NEW c \in Commands, status[c] \in {"acked", "failed"}
  PROVE  /\ \/ status'[c] = status[c]
            \/ c \in cancelling /\ status'[c] = "cancelled"
         /\ attempts'[c] = attempts[c]
<1> DEFINE Final == /\ \/ status'[c] = status[c]
                       \/ c \in cancelling /\ status'[c] = "cancelled"
                    /\ attempts'[c] = attempts[c]
<1>1. ASSUME NEW d \in Commands, NEW p \in Priorities, Send(d, p)
      PROVE  Final
  BY <1>1 DEF Send, outside, TypeOK
<1>2. ASSUME NEW d \in Commands, CancelCheck(d) \/ CancelWrite(d)
      PROVE  Final
  BY <1>2 DEF CancelCheck, CancelWrite, item, outside, TypeOK
<1>3. CASE LoopStep \/ CallStep \/ UNCHANGED vars
  BY <1>3, QuietFrame DEF item, outside
<1>4. ASSUME NEW w \in Workers, NEW d \in Commands, Dequeue(w, d)
      PROVE  Final
  BY <1>4, SetStatusShows DEF Dequeue, Best, Queued, Shows, outside, TypeOK
<1>5. ASSUME NEW w \in Workers, WorkerStep(w)
      PROVE  Final
  <2>1. ~Held(c)
    BY DEF Holding, Held
  <2> QED
    BY <1>5, <2>1, OnlyHolderChanges
<1>6. ASSUME NEW w \in Workers, AdapterReturns(w)
      PROVE  Final
  BY <1>6 DEF AdapterReturns, item
<1>7. ASSUME NEW d \in Commands, OrphanReturns(d)
      PROVE  Final
  BY <1>7 DEF OrphanReturns, item
<1> QED
  BY <1>1, <1>2, <1>3, <1>4, <1>5, <1>6, <1>7, NextCases

\* A Cancel of a command that is waiting is final: the command is never sent,
\* nor shown as anything else, whatever the scheduler does afterwards.
THEOREM CancelIsFinal == Spec => CancelSticks
<1>1. IndInv /\ [Next]_vars =>
        [\A c \in Commands :
           /\ status[c] = "cancelled"
           /\ \A w \in Workers : ~(pc[w] \in Deciding /\ cmd[w] = c)
           => status'[c] = "cancelled"]_vars
  BY CancelStep DEF IndInv, Held
<1> QED
  BY <1>1, Invariance, PTL DEF Spec, CancelSticks

\* A command that was acknowledged or given up is never sent again, and only a
\* Cancel that looked at it earlier can change its status.
THEOREM OutcomeIsFinal == Spec => SettledIsFinal
<1>1. IndInv /\ [Next]_vars =>
        [\A c \in Commands :
           status[c] \in {"acked", "failed"} =>
             /\ \/ status'[c] = status[c]
                \/ c \in cancelling /\ status'[c] = "cancelled"
             /\ attempts'[c] = attempts[c]]_vars
  BY SettledStep DEF IndInv
<1> QED
  BY <1>1, Invariance, PTL DEF Spec, SettledIsFinal

\* Both: whatever was requested before the end of a command, it is the end.
THEOREM OutcomeStays == Spec => OutcomeSticks
  BY CancelIsFinal, OutcomeIsFinal DEF OutcomeSticks

-----------------------------------------------------------------------------
(* The contract.  A step of the pipeline is a step of CommandDelivery, or   *)
(* leaves what a client and the adapter see as it was.                      *)

\* What the contract speaks of: the statuses, the holders and the counts.
SameView == /\ UNCHANGED <<status, attempts, accepted>>
            /\ \A c \in Commands : Held(c)' <=> Held(c)

\* Steps that change nothing the contract speaks of are stuttering steps.
LEMMA ViewStutters ==
  ASSUME SameView
  PROVE  UNCHANGED Delivery!dvars
<1>1. \A c \in Commands : Held(c)' = Held(c)
  BY DEF SameView, Held
<1>2. [c \in Commands |-> Held(c)]' = [c \in Commands |-> Held(c)]
  BY <1>1
<1> QED
  BY <1>2 DEF SameView, Delivery!dvars

\* The pipeline begins with no command known and none held.
LEMMA DeliveryStart ==
  ASSUME Init
  PROVE  Delivery!Start
<1>1. \A c \in Commands : ~Held(c)
  BY DEF Init, Held, Deciding
<1>2. \A c \in Commands : Held(c) = FALSE
  BY <1>1 DEF Held
<1>3. [c \in Commands |-> Held(c)] = [c \in Commands |-> FALSE]
  BY <1>2
<1> QED
  BY <1>3 DEF Init, Delivery!Start

\* Who holds a command is all a goroutine's place tells: the holders after a
\* step, when only those of d can change.
LEMMA HoldersChange ==
  ASSUME NEW d \in Commands, NEW b \in BOOLEAN,
         \A c \in Commands : Held(c)' <=> IF c = d THEN b ELSE Held(c)
  PROVE  [c \in Commands |-> Held(c)]' = [[c \in Commands |-> Held(c)] EXCEPT ![d] = b]
<1>1. \A c \in Commands : Held(c)' = IF c = d THEN b ELSE Held(c)
  BY DEF Held
<1> QED
  BY <1>1

\* A goroutine that decides goes on to s, deciding or not: no other one holds
\* its command, and it holds no other command.
LEMMA HeldAfter ==
  ASSUME TypeOK, WorkerShape, Holding,
         NEW w \in Workers, pc[w] \in Deciding, NEW s,
         pc' = [pc EXCEPT ![w] = s], cmd' = cmd,
         NEW c \in Commands
  PROVE  Held(c)' <=> IF c = cmd[w] THEN s \in Deciding ELSE Held(c)
<1>1. Held(c)' <=> \E v \in Workers : pc'[v] \in Deciding /\ cmd'[v] = c
  BY DEF Held, Deciding
<1>2. pc'[w] = s /\ \A v \in Workers \ {w} : pc'[v] = pc[v]
  BY DEF TypeOK
<1>3. CASE c = cmd[w]
  <2>1. \A v \in Workers \ {w} : ~(pc[v] \in Deciding /\ cmd[v] = c)
    BY <1>3 DEF Holding
  <2> QED
    BY <1>1, <1>2, <1>3, <2>1
<1>4. CASE c # cmd[w]
  BY <1>1, <1>2, <1>4 DEF Held
<1> QED
  BY <1>3, <1>4

\* The same for a goroutine that ends.
LEMMA HeldAfterExit ==
  ASSUME TypeOK, WorkerShape, Holding,
         NEW w \in Workers, pc[w] \in Deciding, Exit(w), NEW c \in Commands
  PROVE  Held(c)' <=> IF c = cmd[w] THEN FALSE ELSE Held(c)
<1>1. Held(c)' <=> \E v \in Workers : pc'[v] \in Deciding /\ cmd'[v] = c
  BY DEF Held, Deciding
<1>2. pc'[w] = "idle" /\ \A v \in Workers \ {w} : pc'[v] = pc[v] /\ cmd'[v] = cmd[v]
  BY DEF Exit, TypeOK
<1>3. "idle" \notin Deciding
  BY DEF Deciding
<1>4. CASE c = cmd[w]
  <2>1. \A v \in Workers \ {w} : ~(pc[v] \in Deciding /\ cmd[v] = c)
    BY <1>4 DEF Holding
  <2> QED
    BY <1>1, <1>2, <1>3, <1>4, <2>1
<1>5. CASE c # cmd[w]
  BY <1>1, <1>2, <1>3, <1>5 DEF Held
<1> QED
  BY <1>4, <1>5

\* A holder that decides lets go of its command and shows what it decided.
LEMMA ReleaseStep ==
  ASSUME TypeOK, NEW d \in Commands, NEW v \in {"acked", "failed", "queued"},
         Held(d), v = "acked" => accepted[d] > 0, Shows(d, v),
         \A c \in Commands : Held(c)' <=> IF c = d THEN FALSE ELSE Held(c),
         UNCHANGED <<attempts, accepted>>
  PROVE  Delivery!Step
<1>1. [c \in Commands |-> Held(c)]' = [[c \in Commands |-> Held(c)] EXCEPT ![d] = FALSE]
  BY HoldersChange
<1>2. [c \in Commands |-> Held(c)][d]
  OBVIOUS
<1>3. Delivery!Release(d, v)
  BY <1>1, <1>2 DEF Delivery!Release, Delivery!Show, Shows
<1> QED
  BY <1>3 DEF Delivery!Step

\* Each step of sendItem and retryOrFail is a try or a release, or is not seen.
LEMMA WorkerDelivers ==
  ASSUME IndInv, NEW w \in Workers, WorkerStep(w)
  PROVE  Delivery!Step \/ SameView
<1> USE DEF IndInv
<1>1. CASE Sends(w)
  <2>1. cmd[w] \in Commands /\ Held(cmd[w])
    BY <1>1, DecidingHolds DEF Sends, Deciding
  <2>2. \A c \in Commands : Held(c)' <=> IF c = cmd[w] THEN TRUE ELSE Held(c)
    BY <1>1, HeldAfter DEF Sends, Deciding
  <2>3. attempts[cmd[w]] < MaxRetries + 1
    BY <1>1, <2>1, CommandAssumption DEF Sends, Attempting, TypeOK
  <2>4. [c \in Commands |-> Held(c)]' = [c \in Commands |-> Held(c)]
    BY <2>1, <2>2, HoldersChange
  <2>5. Delivery!Try(cmd[w])
    BY <1>1, <2>1, <2>3, <2>4 DEF Sends, Delivery!Try
  <2> QED
    BY <2>1, <2>5 DEF Delivery!Step
<1>2. CASE Retries(w)
  <2>1. \A c \in Commands : Held(c)' <=> IF c = cmd[w] THEN TRUE ELSE Held(c)
    BY <1>2, HeldAfter DEF Retries, Deciding
  <2>2. Held(cmd[w])
    BY <1>2, DecidingHolds DEF Retries, Deciding
  <2> QED
    BY <1>2, <2>1, <2>2 DEF Retries, SameView
<1>3. CASE Fails(w)
  <2>1. cmd[w] \in Commands /\ Held(cmd[w])
    BY <1>3, DecidingHolds DEF Fails
  <2> QED
    BY <1>3, <2>1, HeldAfterExit, ReleaseStep DEF Fails
<1>4. CASE Confirms(w)
  <2>1. cmd[w] \in Commands /\ Held(cmd[w]) /\ accepted[cmd[w]] > 0
    BY <1>4, DecidingHolds DEF Confirms, Deciding, Announcing
  <2>2. \A c \in Commands : Held(c)' <=> IF c = cmd[w] THEN FALSE ELSE Held(c)
    <3>1. pc[w] \in Deciding /\ "publishAcked" \notin Deciding
      BY <1>4 DEF Confirms, Deciding
    <3> QED
      BY <1>4, <3>1, HeldAfter DEF Confirms
  <2> QED
    BY <1>4, <2>1, <2>2, ReleaseStep DEF Confirms
<1>5. CASE Requeues(w)
  <2>1. cmd[w] \in Commands /\ Held(cmd[w])
    BY <1>5, DecidingHolds DEF Requeues, Deciding
  <2>2. \A c \in Commands : Held(c)' <=> IF c = cmd[w] THEN FALSE ELSE Held(c)
    <3>1. pc[w] \in Deciding /\ "requeued" \notin Deciding
      BY <1>5 DEF Requeues, Deciding
    <3> QED
      BY <1>5, <3>1, HeldAfter DEF Requeues
  <2> QED
    BY <1>5, <2>1, <2>2, ReleaseStep DEF Requeues
<1>6. CASE Ends(w)
  <2>1. pc[w] \notin Deciding /\ "idle" \notin Deciding
    BY <1>6 DEF Ends, Deciding
  <2>2. \A c \in Commands : Held(c)' <=> Held(c)
    BY <1>6, <2>1 DEF Ends, Exit, TypeOK, Held, Deciding
  <2> QED
    BY <1>6, <2>2 DEF Ends, SameView
<1> QED
  BY <1>1, <1>2, <1>3, <1>4, <1>5, <1>6, WorkerEffect

\* Steps that move no goroutine move no holder.
LEMMA SameHolders ==
  ASSUME UNCHANGED <<pc, cmd>>
  PROVE  /\ \A c \in Commands : Held(c)' <=> Held(c)
         /\ [c \in Commands |-> Held(c)]' = [c \in Commands |-> Held(c)]
BY DEF Held, Deciding

\* dispatchLoop takes a command that nobody holds and makes a goroutine hold it.
LEMMA DequeueDelivers ==
  ASSUME IndInv, NEW w \in Workers, NEW d \in Commands, Dequeue(w, d)
  PROVE  Delivery!Step
<1> USE DEF IndInv
<1>1. status[d] = "queued" /\ Shows(d, "sending") /\ pc[w] = "idle"
  BY SetStatusShows DEF Dequeue, Best, Queued
<1>2. ~Held(d)
  BY <1>1 DEF Held, Holding
<1>3. /\ pc'[w] \in Deciding /\ cmd'[w] = d /\ pc[w] \notin Deciding
      /\ \A v \in Workers \ {w} : pc'[v] = pc[v] /\ cmd'[v] = cmd[v]
  BY <1>1 DEF Dequeue, TypeOK, Deciding
<1>4. \A c \in Commands :
        Held(c)' <=> \E v \in Workers : pc'[v] \in Deciding /\ cmd'[v] = c
  BY DEF Held, Deciding
<1>5. \A c \in Commands : Held(c)' <=> IF c = d THEN TRUE ELSE Held(c)
  BY <1>3, <1>4 DEF Held
<1>6. [c \in Commands |-> Held(c)]' = [[c \in Commands |-> Held(c)] EXCEPT ![d] = TRUE]
  BY <1>5, HoldersChange
<1>7. ~[c \in Commands |-> Held(c)][d]
  BY <1>2
<1>8. Delivery!Take(d)
  BY <1>1, <1>6, <1>7 DEF Delivery!Take, Delivery!Show, Shows, Dequeue, outside
<1> QED
  BY <1>8 DEF Delivery!Step

\* Every step of the pipeline is one the contract allows, or is not seen.
LEMMA StepDelivers ==
  ASSUME IndInv, [Next]_vars
  PROVE  Delivery!Step \/ SameView
<1> USE DEF IndInv
<1>1. ASSUME NEW d \in Commands, NEW p \in Priorities, Send(d, p)
      PROVE  Delivery!Step
  <2>1. Delivery!Submit(d)
    BY <1>1, SameHolders DEF Send, workers, outside, Delivery!Submit
  <2> QED
    BY <2>1 DEF Delivery!Step
<1>2. ASSUME NEW d \in Commands, CancelCheck(d)
      PROVE  SameView
  BY <1>2, SameHolders DEF CancelCheck, item, workers, outside, SameView
<1>3. ASSUME NEW d \in Commands, CancelWrite(d)
      PROVE  Delivery!Step
  <2>1. Delivery!Withdraw(d)
    BY <1>3, SameHolders
       DEF CancelWrite, workers, outside, Holding, Delivery!Withdraw
  <2> QED
    BY <2>1 DEF Delivery!Step
<1>4. CASE LoopStep \/ CallStep \/ UNCHANGED vars
  BY <1>4, QuietFrame, SameHolders DEF item, workers, outside, SameView
<1>5. ASSUME NEW w \in Workers, NEW d \in Commands, Dequeue(w, d)
      PROVE  Delivery!Step
  BY <1>5, DequeueDelivers
<1>6. ASSUME NEW w \in Workers, WorkerStep(w)
      PROVE  Delivery!Step \/ SameView
  BY <1>6, WorkerDelivers
<1>7. ASSUME NEW w \in Workers, AdapterReturns(w)
      PROVE  Delivery!Step \/ SameView
  <2>1. UNCHANGED <<pc, cmd, status, attempts>>
    BY <1>7 DEF AdapterReturns, item
  <2>2. CASE UNCHANGED accepted
    BY <2>1, <2>2, SameHolders DEF SameView
  <2>3. CASE accepted' = [accepted EXCEPT ![cmd[w]] = @ + 1]
    <3>1. cmd[w] \in Commands
      BY <1>7, CmdOfBusy DEF AdapterReturns, WorkerShape
    <3>2. accepted[cmd[w]] < attempts[cmd[w]]
      BY <1>7, <3>1 DEF AdapterReturns, Calling, TypeOK
    <3>3. Delivery!Land(cmd[w])
      BY <2>1, <2>3, <3>2, SameHolders DEF Delivery!Land
    <3> QED
      BY <3>1, <3>3 DEF Delivery!Step
  <2> QED
    BY <1>7, <2>2, <2>3 DEF AdapterReturns
<1>8. ASSUME NEW d \in Commands, OrphanReturns(d)
      PROVE  Delivery!Step \/ SameView
  <2>1. UNCHANGED <<pc, cmd, status, attempts>>
    BY <1>8 DEF OrphanReturns, item, workers
  <2>2. CASE UNCHANGED accepted
    BY <2>1, <2>2, SameHolders DEF SameView
  <2>3. CASE accepted' = [accepted EXCEPT ![d] = @ + 1]
    <3>1. accepted[d] < attempts[d]
      BY <1>8 DEF OrphanReturns, Calling, TypeOK
    <3>2. Delivery!Land(d)
      BY <2>1, <2>3, <3>1, SameHolders DEF Delivery!Land
    <3> QED
      BY <3>2 DEF Delivery!Step
  <2> QED
    BY <1>8, <2>2, <2>3 DEF OrphanReturns
<1> QED
  BY <1>1, <1>2, <1>3, <1>4, <1>5, <1>6, <1>7, <1>8, NextCases

\* The scheduler, its goroutines, its retries and its timeouts together do to
\* each command only what the contract of CommandDelivery allows.
THEOREM ImplementsContract == Spec => ImplementsDelivery
<1>1. Init => Delivery!Start
  BY DeliveryStart
<1>2. IndInv /\ [Next]_vars => [Delivery!Step]_Delivery!dvars
  BY StepDelivers, ViewStutters
<1> QED
  BY <1>1, <1>2, Invariance, PTL DEF Spec, ImplementsDelivery, Delivery!Spec
-----------------------------------------------------------------------------
(* The stamps and the counters clients read.                               *)

\* What a worker's step does to the counters when no Cancel can interfere with
\* its store: nothing, a failure shown and counted at once, an acknowledgement
\* shown, or one counted.
CountsNothing(w) ==
  /\ \/ status' = status
     \/ pc[w] \in Deciding /\ status' = [status EXCEPT ![cmd[w]] = "queued"]
  /\ \E s \in WorkerSteps \ {"publishAcked"} : pc' = [pc EXCEPT ![w] = s]
  /\ pc[w] # "publishAcked"
  /\ UNCHANGED metrics

CountsFailed(w) ==
  /\ pc[w] \in Deciding
  /\ status' = [status EXCEPT ![cmd[w]] = "failed"]
  /\ pc' = [pc EXCEPT ![w] = "idle"]
  /\ totalFailed' = totalFailed + 1 /\ UNCHANGED totalAcked

ShowsAcked(w) ==
  /\ pc[w] \in Deciding
  /\ status' = [status EXCEPT ![cmd[w]] = "acked"]
  /\ pc' = [pc EXCEPT ![w] = "publishAcked"]
  /\ UNCHANGED metrics

CountsAcked(w) ==
  /\ pc[w] = "publishAcked"
  /\ status' = status
  /\ pc' = [pc EXCEPT ![w] = "idle"]
  /\ totalAcked' = totalAcked + 1 /\ UNCHANGED totalFailed

\* A store of Status that no Cancel overtakes leaves the new status.
LEMMA SetStatusExact ==
  ASSUME NEW c, NEW v, SetStatus(c, v), c \notin cancelling
  PROVE  status' = [status EXCEPT ![c] = v]
BY DEF SetStatus

\* retryOrFail counts a failure with the store of it, and a retry not at all.
LEMMA RetryOrFailCounts ==
  ASSUME NEW w \in Workers, pc[w] \in {"publishSent", "await"}, cancelling = {},
         RetryOrFail(w), UNCHANGED totalAcked
  PROVE  CountsNothing(w) \/ CountsFailed(w)
<1>1. CASE Retry(w)
  BY <1>1 DEF Retry, Proceed, CountsNothing, WorkerSteps, metrics
<1>2. CASE Fail(w)
  BY <1>2, SetStatusExact DEF Fail, Exit, CountsFailed, Deciding
<1> QED
  BY <1>1, <1>2 DEF RetryOrFail

\* Every step of sendItem and retryOrFail counts in one of these ways.
LEMMA WorkerCounts ==
  ASSUME NEW w \in Workers, WorkerStep(w), cancelling = {}
  PROVE  CountsNothing(w) \/ CountsFailed(w) \/ ShowsAcked(w) \/ CountsAcked(w)
<1>1. CASE PublishSent(w)
  <2>1. CASE RetryOrFail(w)
    BY <1>1, <2>1, RetryOrFailCounts DEF PublishSent
  <2>2. CASE ~RetryOrFail(w)
    BY <1>1, <2>2 DEF PublishSent, CountsNothing, WorkerSteps, metrics
  <2> QED
    BY <2>1, <2>2
<1>2. CASE SendTimeout(w)
  BY <1>2, RetryOrFailCounts DEF SendTimeout
<1>3. CASE SendRejected(w)
  BY <1>3, RetryOrFailCounts DEF SendRejected
<1>4. CASE SendAcked(w)
  BY <1>4, SetStatusExact DEF SendAcked, Proceed, ShowsAcked, Deciding
<1>5. CASE PublishAcked(w)
  BY <1>5 DEF PublishAcked, Exit, item, CountsAcked
<1>6. CASE BackoffStopped(w)
  BY <1>6, SetStatusExact DEF BackoffStopped, Fail, Exit, CountsFailed, Deciding
<1>7. CASE Requeue(w)
  BY <1>7, SetStatusExact DEF Requeue, Proceed, CountsNothing, WorkerSteps,
     Deciding
<1>8. CASE ClearSentAt(w)
  BY <1>8 DEF ClearSentAt, Exit, CountsNothing, WorkerSteps
<1> QED
  BY <1>1, <1>2, <1>3, <1>4, <1>5, <1>6, <1>7, <1>8 DEF WorkerStep

\* The commands shown as anything, and the goroutines, can be counted.
LEMMA ShownFinite ==
  ASSUME NEW v
  PROVE  IsFiniteSet(Shown(v)) /\ Cardinality(Shown(v)) \in Nat
<1>1. Shown(v) \in SUBSET Commands
  BY DEF Shown
<1> QED
  BY <1>1, CommandAssumption, FS_Subset, FS_CardinalityType

LEMMA PublishingFinite ==
  IsFiniteSet(Publishing) /\ Cardinality(Publishing) \in Nat
<1>1. Publishing \in SUBSET Workers
  BY DEF Publishing
<1> QED
  BY <1>1, CommandAssumption, FS_Subset, FS_CardinalityType

\* A status that is stored over another adds one command to those shown so.
LEMMA ShownGrows ==
  ASSUME TypeOK, NEW c \in Commands, NEW v, status[c] # v,
         status' = [status EXCEPT ![c] = v]
  PROVE  Cardinality(Shown(v)') = Cardinality(Shown(v)) + 1
<1>1. Shown(v)' = Shown(v) \union {c} /\ c \notin Shown(v)
  BY DEF Shown, TypeOK
<1> QED
  BY <1>1, ShownFinite, FS_AddElement

\* The commands shown as v are the same when neither the old nor the new
\* status of the one that changes is v.
LEMMA ShownStays ==
  ASSUME TypeOK, NEW c \in Commands, NEW u, NEW v, status[c] # v, u # v,
         status' = [status EXCEPT ![c] = u]
  PROVE  Shown(v)' = Shown(v)
BY DEF Shown, TypeOK

\* No Cancel of a command that clients do not cancel is ever on its way.
LEMMA StepCancelling ==
  ASSUME cancelling \subseteq Cancellable, [Next]_vars
  PROVE  cancelling' \subseteq Cancellable
<1>1. ASSUME NEW c \in Cancellable, CancelCheck(c)
      PROVE  cancelling' \subseteq Cancellable
  BY <1>1 DEF CancelCheck
<1>2. ASSUME NEW c \in Cancellable, CancelWrite(c)
      PROVE  cancelling' \subseteq Cancellable
  BY <1>2 DEF CancelWrite
<1>3. CASE \/ \E c \in Commands, p \in Priorities : Send(c, p)
           \/ \E w \in Workers : AdapterReturns(w)
           \/ \E c \in Commands : OrphanReturns(c)
  BY <1>3 DEF Send, AdapterReturns, OrphanReturns
<1>4. CASE LoopStep \/ CallStep \/ UNCHANGED vars
  BY <1>4, QuietFrame
<1>5. ASSUME NEW w \in Workers, NEW c \in Commands, Dequeue(w, c)
      PROVE  cancelling' \subseteq Cancellable
  BY <1>5, SetStatusShows DEF Dequeue, Shows
<1>6. ASSUME NEW w \in Workers, WorkerStep(w)
      PROVE  cancelling' \subseteq Cancellable
  BY <1>6, WorkerEffect DEF Sends, Retries, Fails, Confirms, Requeues, Ends,
     Shows
<1> QED
  BY <1>1, <1>2, <1>3, <1>4, <1>5, <1>6
     DEF Next, Client, Dispatch, Adapter, LoopStep, CallStep

\* A store that is not one of a goroutine's changes no counter, and no command
\* from or to acked or failed, when nobody cancels.
LEMMA OthersCount ==
  ASSUME TypeOK, cancelling = {}, [Next]_vars,
         ~\E w \in Workers : WorkerStep(w)
  PROVE  /\ UNCHANGED <<metrics, Publishing>>
         /\ \A v \in {"acked", "failed"} : Shown(v)' = Shown(v)
<1>1. ASSUME NEW c \in Commands, NEW p \in Priorities, Send(c, p)
      PROVE  /\ UNCHANGED <<metrics, Publishing>>
             /\ \A v \in {"acked", "failed"} : Shown(v)' = Shown(v)
  BY <1>1, ShownStays DEF Send, workers, Publishing
<1>2. ASSUME NEW c \in Commands, CancelCheck(c) \/ CancelWrite(c)
      PROVE  /\ UNCHANGED <<metrics, Publishing>>
             /\ \A v \in {"acked", "failed"} : Shown(v)' = Shown(v)
  BY <1>2 DEF CancelCheck, CancelWrite, item, workers, Publishing, Shown
<1>3. CASE LoopStep \/ CallStep \/ UNCHANGED vars
  <2>1. UNCHANGED <<status, pc>>
    BY <1>3, QuietFrame DEF item, workers
  <2>2. UNCHANGED metrics
    BY <1>3 DEF LoopStep, CallStep, CheckStop, AcquireToken,
       StopWaitingForToken, DequeueNothing, WaitElapsed, StopWhileWaiting,
       SetAdapter, Start, Stop, StopUnstarted, StopReturns, vars
  <2> QED
    BY <2>1, <2>2 DEF Publishing, Shown
<1>4. ASSUME NEW w \in Workers, NEW c \in Commands, Dequeue(w, c)
      PROVE  /\ UNCHANGED <<metrics, Publishing>>
             /\ \A v \in {"acked", "failed"} : Shown(v)' = Shown(v)
  <2>1. status[c] = "queued" /\ status' = [status EXCEPT ![c] = "sending"]
    BY <1>4, SetStatusExact DEF Dequeue, Best, Queued
  <2>2. Publishing' = Publishing
    BY <1>4 DEF Dequeue, Publishing, TypeOK
  <2> QED
    BY <1>4, <2>1, <2>2, ShownStays DEF Dequeue
<1>5. CASE \/ \E w \in Workers : AdapterReturns(w)
           \/ \E c \in Commands : OrphanReturns(c)
  BY <1>5 DEF AdapterReturns, OrphanReturns, item, workers, Publishing, Shown
<1> QED
  BY <1>1, <1>2, <1>3, <1>4, <1>5, NextCases

\* sendItem counts what it shows: a failure with the store of it, an
\* acknowledgement when it has been published.
LEMMA StepCounters ==
  ASSUME TypeOK, WorkerShape, Holding, cancelling = {}, [Next]_vars,
         totalAcked + Cardinality(Publishing) = Cardinality(Shown("acked")),
         totalFailed = Cardinality(Shown("failed"))
  PROVE  /\ totalAcked' + Cardinality(Publishing') = Cardinality(Shown("acked")')
         /\ totalFailed' = Cardinality(Shown("failed")')
<1> DEFINE Goal ==
      /\ totalAcked' + Cardinality(Publishing') = Cardinality(Shown("acked")')
      /\ totalFailed' = Cardinality(Shown("failed")')
<1>1. CASE ~\E w \in Workers : WorkerStep(w)
  <2>1. /\ UNCHANGED <<metrics, Publishing>>
        /\ \A v \in {"acked", "failed"} : Shown(v)' = Shown(v)
    BY <1>1, OthersCount
  <2>2. Shown("acked")' = Shown("acked") /\ Shown("failed")' = Shown("failed")
    BY <2>1
  <2> QED
    BY <2>1, <2>2 DEF metrics
<1>2. ASSUME NEW w \in Workers, WorkerStep(w)
      PROVE  Goal
  <2> USE PublishingFinite, ShownFinite
  <2>1. totalAcked \in Nat /\ totalFailed \in Nat
    BY DEF TypeOK
  <2>2. ASSUME pc[w] \in Deciding
        PROVE  /\ cmd[w] \in Commands
               /\ status[cmd[w]] # "acked" /\ status[cmd[w]] # "failed"
    BY <2>2, DecidingHolds DEF Holding
  <2>3. ASSUME pc[w] # "publishAcked", NEW s, s # "publishAcked",
               pc' = [pc EXCEPT ![w] = s]
        PROVE  Publishing' = Publishing
    BY <2>3 DEF Publishing, TypeOK
  <2>4. CASE CountsNothing(w)
    <3>1. Publishing' = Publishing /\ UNCHANGED metrics
      BY <2>3, <2>4 DEF CountsNothing
    <3>2. Shown("acked")' = Shown("acked") /\ Shown("failed")' = Shown("failed")
      <4>1. CASE status' = status
        BY <4>1 DEF Shown
      <4>2. CASE pc[w] \in Deciding /\ status' = [status EXCEPT ![cmd[w]] = "queued"]
        BY <2>2, <4>2, ShownStays
      <4> QED
        BY <2>4, <4>1, <4>2 DEF CountsNothing
    <3> QED
      BY <3>1, <3>2 DEF metrics
  <2>5. CASE CountsFailed(w)
    <3>1. Publishing' = Publishing
      BY <2>3, <2>5 DEF CountsFailed, Deciding
    <3>2. Shown("acked")' = Shown("acked")
      BY <2>2, <2>5, ShownStays DEF CountsFailed
    <3>3. Cardinality(Shown("failed")') = Cardinality(Shown("failed")) + 1
      BY <2>2, <2>5, ShownGrows DEF CountsFailed
    <3> QED
      BY <2>5, <3>1, <3>2, <3>3 DEF CountsFailed
  <2>6. CASE ShowsAcked(w)
    <3>1. Publishing' = Publishing \union {w} /\ w \notin Publishing
      BY <2>6 DEF ShowsAcked, Publishing, TypeOK, Deciding
    <3>2. Cardinality(Publishing') = Cardinality(Publishing) + 1
      BY <3>1, FS_AddElement
    <3>3. Shown("failed")' = Shown("failed")
      BY <2>2, <2>6, ShownStays DEF ShowsAcked
    <3>4. Cardinality(Shown("acked")') = Cardinality(Shown("acked")) + 1
      BY <2>2, <2>6, ShownGrows DEF ShowsAcked
    <3> QED
      BY <2>1, <2>6, <3>2, <3>3, <3>4 DEF ShowsAcked, metrics
  <2>7. CASE CountsAcked(w)
    <3>1. Publishing' = Publishing \ {w} /\ w \in Publishing
      BY <2>7 DEF CountsAcked, Publishing, TypeOK
    <3>2. Cardinality(Publishing') = Cardinality(Publishing) - 1
      BY <3>1, FS_RemoveElement
    <3>3. Shown("acked")' = Shown("acked") /\ Shown("failed")' = Shown("failed")
      BY <2>7 DEF CountsAcked, Shown
    <3> QED
      BY <2>1, <2>7, <3>2, <3>3 DEF CountsAcked
  <2> QED
    BY <1>2, <2>4, <2>5, <2>6, <2>7, WorkerCounts
<1> QED
  BY <1>1, <1>2

\* With one slot a goroutine at work is the only one, and there is none while
\* the loop dequeues.
LEMMA OneSlot ==
  ASSUME TypeOK, Accounting, MaxConcurrent = 1
  PROVE  /\ \A v, w \in Workers : pc[v] # "idle" /\ pc[w] # "idle" => v = w
         /\ dispatcher = "dequeue" => \A w \in Workers : pc[w] = "idle"
<1>1. Cardinality(Busy) <= 1
  BY BusyFinite DEF TypeOK, Accounting
<1>2. ASSUME NEW v \in Workers, NEW w \in Workers, pc[v] # "idle", pc[w] # "idle",
             v # w
      PROVE  FALSE
  <2>1. {v, w} \in SUBSET Busy
    BY <1>2 DEF Busy
  <2>2. Cardinality({v, w}) = 2
    <3>1. IsFiniteSet({v}) /\ Cardinality({v}) = 1
      BY FS_Singleton
    <3>2. {v, w} = {v} \union {w} /\ w \notin {v}
      BY <1>2
    <3>3. Cardinality({v} \union {w}) = Cardinality({v}) + 1
      BY <3>1, <3>2, FS_AddElement
    <3> QED
      BY <3>1, <3>2, <3>3
  <2>3. Cardinality({v, w}) <= Cardinality(Busy)
    BY <2>1, BusyFinite, FS_Subset
  <2> QED
    BY <1>1, <2>2, <2>3, BusyFinite
<1>3. ASSUME dispatcher = "dequeue", NEW w \in Workers
      PROVE  pc[w] = "idle"
  <2>1. Cardinality(Busy) = 0
    BY <1>3, BusyFinite DEF TypeOK, Accounting
  <2>2. Busy = {}
    BY <2>1, BusyFinite, FS_EmptySet
  <2> QED
    BY <2>2 DEF Busy
<1> QED
  BY <1>2, <1>3

\* SentAt is set with the status, and with one slot cleared only when no other
\* goroutine has sent the command again.
LEMMA StepSentAt ==
  ASSUME TypeOK, Accounting, WorkerShape, Holding, SentAtKept, [Next]_vars
  PROVE  SentAtKept'
<1> SUFFICES ASSUME MaxConcurrent = 1, NEW d \in Commands, status'[d] = "sending"
             PROVE  sentAt'[d]
  BY DEF SentAtKept
<1>1. status[d] = "sending" => sentAt[d]
  BY DEF SentAtKept
<1>2. ASSUME NEW c \in Commands, NEW p \in Priorities, Send(c, p)
      PROVE  sentAt'[d]
  BY <1>1, <1>2 DEF Send, TypeOK
<1>3. ASSUME NEW c \in Commands, CancelCheck(c) \/ CancelWrite(c)
      PROVE  sentAt'[d]
  BY <1>1, <1>3 DEF CancelCheck, CancelWrite, item, TypeOK
<1>4. CASE LoopStep \/ CallStep \/ UNCHANGED vars
  BY <1>1, <1>4, QuietFrame DEF item
<1>5. ASSUME NEW w \in Workers, NEW c \in Commands, Dequeue(w, c)
      PROVE  sentAt'[d]
  BY <1>1, <1>5, SetStatusShows DEF Dequeue, Shows, TypeOK
<1>6. ASSUME NEW w \in Workers, WorkerStep(w)
      PROVE  sentAt'[d]
  <2>1. status[d] = "sending"
    BY <1>6, WorkerEffect
       DEF Sends, Retries, Fails, Confirms, Requeues, Ends, Shows, TypeOK
  <2>2. CASE ClearSentAt(w)
    <3>1. PICK v \in Workers : pc[v] \in Deciding /\ cmd[v] = d
      BY <2>1 DEF Holding, NoneForgotten
    <3>2. pc[v] # "idle" /\ pc[w] # "idle" /\ v # w
      BY <2>2, <3>1 DEF ClearSentAt, Deciding
    <3> QED
      BY <3>2, OneSlot
  <2>3. CASE ~ClearSentAt(w)
    <3>1. sentAt' = sentAt
      BY <1>6, <2>3 DEF WorkerStep, PublishSent, SendTimeout, SendRejected,
         SendAcked, PublishAcked, BackoffStopped, Requeue, item
    <3> QED
      BY <1>1, <2>1, <3>1
  <2> QED
    BY <2>2, <2>3
<1>7. CASE \/ \E w \in Workers : AdapterReturns(w)
           \/ \E c \in Commands : OrphanReturns(c)
  BY <1>1, <1>7 DEF AdapterReturns, OrphanReturns, item
<1> QED
  BY <1>2, <1>3, <1>4, <1>5, <1>6, <1>7, NextCases

\* The books are kept by every step.
LEMMA StepBooking ==
  ASSUME IndInv, Booking, [Next]_vars
  PROVE  Booking'
<1>1. cancelling' \subseteq Cancellable
  BY StepCancelling DEF Booking
<1>2. SentAtKept'
  BY StepSentAt DEF Booking, IndInv
<1>3. ASSUME Cancellable = {}
      PROVE  /\ totalAcked' + Cardinality(Publishing') = Cardinality(Shown("acked")')
             /\ totalFailed' = Cardinality(Shown("failed")')
  BY <1>3, StepCounters DEF Booking, IndInv
<1> QED
  BY <1>1, <1>2, <1>3 DEF Booking

\* A pipeline that has done nothing has nothing in its books.
LEMMA InitBooking == Init => Booking
<1> SUFFICES ASSUME Init PROVE Booking
  OBVIOUS
<1>1. Publishing = {} /\ Shown("acked") = {} /\ Shown("failed") = {}
  BY DEF Init, Publishing, Shown
<1>2. Cardinality(Publishing) = 0 /\ Cardinality(Shown("acked")) = 0
      /\ Cardinality(Shown("failed")) = 0
  BY <1>1, FS_EmptySet
<1> QED
  BY <1>2 DEF Init, Booking, SentAtKept

\* When the goroutines are gone and nobody cancelled, Metrics shows the numbers
\* of acked and of failed commands; and with one slot a command that is being
\* sent has the time it was sent.
THEOREM BooksAreKept == Spec => []BooksAgree
<1>1. IndInv /\ Booking /\ [Next]_vars => Booking'
  BY StepBooking
<1>2. ASSUME IndInv, Booking PROVE BooksAgree
  <2>1. ASSUME Busy = {}, Cancellable = {} PROVE CountersAgree
    <3>1. Publishing = {}
      BY <2>1 DEF Busy, Publishing
    <3>2. Cardinality(Publishing) = 0
      BY <3>1, FS_EmptySet
    <3>3. /\ totalAcked = Cardinality(Shown("acked"))
          /\ totalFailed = Cardinality(Shown("failed"))
      BY <1>2, <2>1, <3>2, ShownFinite DEF Booking, IndInv, TypeOK
    <3> QED
      BY <3>3 DEF CountersAgree, Shown
  <2> QED
    BY <1>2, <2>1 DEF Booking, BooksAgree, CountersAgree
<1> QED
  BY <1>1, <1>2, InitBooking, Invariance, PTL DEF Spec

\* With one slot, of two commands in the queue the one that is before the other
\* in order stays there, or is settled first.
LEMMA OrderStep ==
  ASSUME IndInv, [Next]_vars, MaxConcurrent = 1,
         NEW c \in Commands, NEW d \in Commands, Ahead(c, d)
  PROVE  \/ Ahead(c, d)'
         \/ status'[c] \notin {"queued", "sending"}
         \/ status'[d] = "cancelled"
<1> DEFINE Kept == \/ Ahead(c, d)'
                   \/ status'[c] \notin {"queued", "sending"}
                   \/ status'[d] = "cancelled"
<1> USE DEF IndInv
<1>1. UNCHANGED <<priority, enqueuedAt>> => (Before(c, d)' <=> Before(c, d))
  BY DEF Before
<1>2. ASSUME NEW e \in Commands, NEW p \in Priorities, Send(e, p)
      PROVE  Kept
  <2>1. e # c /\ e # d
    BY <1>2 DEF Send, Ahead
  <2> QED
    BY <1>2, <2>1 DEF Send, Ahead, Before, TypeOK
<1>3. ASSUME NEW e \in Commands, CancelCheck(e) \/ CancelWrite(e)
      PROVE  Kept
  BY <1>1, <1>3 DEF CancelCheck, CancelWrite, item, Ahead, TypeOK
<1>4. CASE LoopStep \/ CallStep \/ UNCHANGED vars
  BY <1>1, <1>4, QuietFrame DEF item, Ahead
<1>5. ASSUME NEW w \in Workers, NEW e \in Commands, Dequeue(w, e)
      PROVE  Kept
  <2>1. status[c] # "sending"
    BY <1>5, OneSlot DEF Dequeue, Holding, NoneForgotten, Deciding
  <2>2. c \in Queued /\ d \in Queued /\ Before(c, d)
    BY <2>1 DEF Ahead, Queued
  <2>3. e # d
    BY <1>5, <2>2 DEF Dequeue, Best
  <2>4. status'[d] = "queued" /\ status'[c] \in {"queued", "sending", "torn"}
    BY <1>5, <2>2, <2>3, SetStatusShows DEF Dequeue, Shows, Queued, TypeOK
  <2> QED
    BY <1>1, <1>5, <2>2, <2>4 DEF Dequeue, Ahead
<1>6. ASSUME NEW w \in Workers, WorkerStep(w)
      PROVE  Kept
  <2>1. ~Held(d)
    BY DEF Held, Holding, Ahead
  <2>2. status'[d] = "queued"
    BY <1>6, <2>1, OnlyHolderChanges DEF Ahead
  <2>3. UNCHANGED <<priority, enqueuedAt>>
    BY <1>6 DEF WorkerStep, PublishSent, SendTimeout, SendRejected, SendAcked,
       PublishAcked, BackoffStopped, Requeue, ClearSentAt, item
  <2> QED
    BY <1>1, <2>2, <2>3 DEF Ahead
<1>7. CASE \/ \E w \in Workers : AdapterReturns(w)
           \/ \E e \in Commands : OrphanReturns(e)
  BY <1>1, <1>7 DEF AdapterReturns, OrphanReturns, item, Ahead
<1> QED
  BY <1>2, <1>3, <1>4, <1>5, <1>6, <1>7, NextCases

\* One slot keeps the order of the queue: no command overtakes one that is
\* before it, retries and their backoff included.
THEOREM OrderIsKept == Spec => InOrder
<1>1. IndInv /\ [Next]_vars =>
        [MaxConcurrent = 1 =>
           \A c, d \in Commands :
             Ahead(c, d) => \/ Ahead(c, d)'
                            \/ status'[c] \notin {"queued", "sending"}
                            \/ status'[d] = "cancelled"]_vars
  BY OrderStep
<1> QED
  BY <1>1, Invariance, PTL DEF Spec, InOrder
=============================================================================
