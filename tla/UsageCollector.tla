--------------------------- MODULE UsageCollector ---------------------------
(***************************************************************************)
(* Usage metering, internal/usage: Record puts a reading into a bounded    *)
(* queue and never waits; the run goroutine, and anyone who calls Flush,   *)
(* empties the queue, adds up what it took by metering key and writes the  *)
(* sums to the usage table in one transaction; Close asks run for a last   *)
(* flush.  Several flushes may be under way and share out the queue.       *)
(* ListUsage answers from the table: every bucket that touches the range   *)
(* of the query, the bounds compared as text (TextTime).                   *)
(***************************************************************************)
EXTENDS Sequences, FiniteSets, Functions, TextTime

CONSTANTS
  Records,        \* the readings producers take, each recorded once
  Meter,          \* what each reading is of
  TakenAt, Count, \* when it was taken, how many
  BucketInterval, \* CollectorConfig.BucketInterval
  Day,            \* how far back a query without a start goes
  Units,          \* the units ValidUnit knows
  Queries,        \* requests for the usage, each with the time it is made at
  Callers,        \* goroutines that call Flush
  QueueCapacity,  \* CollectorConfig.QueueCapacity
  Run,            \* the goroutine of run()
  None            \* of a query: a parameter that is not given

ASSUME UsageAssumption ==
  /\ IsFiniteSet(Records)
  /\ DOMAIN Meter = Records /\ DOMAIN TakenAt = Records
  /\ \A r \in Records : Meter[r].unit \in Units /\ TakenAt[r] \in Nat
  /\ Count \in [Records -> Nat \ {0}]
  /\ BucketInterval \in Nat \ {0} /\ BucketInterval % (Base * Base) = 0
  /\ Day \in Nat \ {0}
  /\ \A q \in Queries : /\ q.now \in Int
                        /\ {q.asked.start, q.asked.end} \subseteq Int \union {None}
  /\ QueueCapacity \in Nat \ {0}
  /\ Run \notin Callers

Flushers == Callers \union {Run}
Meters   == {Meter[r] : r \in Records}

\* The metering key of a reading: r.At.Truncate(bucketInterval) is the start of
\* its bucket.
Key(r) == [meter |-> Meter[r], start |-> TakenAt[r] - (TakenAt[r] % BucketInterval)]
Keys   == {Key(r) : r \in Records}
BucketEnd(k) == k.start + BucketInterval

VARIABLES
  queue,          \* the channel of readings
  at,             \* where each flusher is in flushAll
  final,          \* run is in its last flush
  pending,        \* what each flusher has taken out of the queue
  sums,           \* the usage table: the sum of the rows of each key
  done,           \* c.done is closed
  closeReturned,
  outcome,        \* history: what became of each reading
  lastCall        \* history: what was in the queue when Close was called

flushing  == <<at, final, pending>>
usageVars == <<queue, flushing, sums, done, closeReturned, outcome, lastCall>>

Outcomes == {"none", "refused", "dropped", "taken", "stored", "lost"}

UsageInit ==
  /\ queue = << >>
  /\ at = [f \in Flushers |-> "idle"]
  /\ final = FALSE
  /\ pending = [f \in Flushers |-> {}]
  /\ sums = [k \in Keys |-> 0]
  /\ done = FALSE /\ closeReturned = FALSE
  /\ outcome = [r \in Records |-> "none"]
  /\ lastCall = {}

-----------------------------------------------------------------------------
(* Collector.Record.                                                       *)

\* The context of the request is over: an error, and nothing recorded.
RecordRefused(r) ==
  /\ outcome[r] = "none"
  /\ outcome' = [outcome EXCEPT ![r] = "refused"]
  /\ UNCHANGED <<queue, flushing, sums, done, closeReturned, lastCall>>

\* The send does not wait: a full queue means the reading is dropped and
\* counted.  Close does not stop Record.
Record(r) ==
  /\ outcome[r] = "none"
  /\ IF Len(queue) < QueueCapacity
     THEN /\ queue' = Append(queue, r)
          /\ outcome' = [outcome EXCEPT ![r] = "taken"]
     ELSE /\ outcome' = [outcome EXCEPT ![r] = "dropped"]
          /\ UNCHANGED queue
  /\ UNCHANGED <<flushing, sums, done, closeReturned, lastCall>>

-----------------------------------------------------------------------------
(* flushAll, by run or by a caller of Flush.                               *)

\* The ticker fires, or a caller comes.
FlushStart(f) ==
  /\ at[f] = "idle"
  /\ at' = [at EXCEPT ![f] = "collecting"]
  /\ UNCHANGED <<queue, final, pending, sums, done, closeReturned, outcome, lastCall>>

\* run takes done and returns at once.
LastFlushStart_None ==
  /\ at[Run] = "idle" /\ done
  /\ at' = [at EXCEPT ![Run] = "over"]
  /\ final' = TRUE
  /\ UNCHANGED <<queue, pending, sums, done, closeReturned, outcome, lastCall>>

\* run flushes and goes back to its loop.
LastFlushStart_Again ==
  /\ at[Run] = "idle" /\ done
  /\ at' = [at EXCEPT ![Run] = "collecting"]
  /\ UNCHANGED <<queue, final, pending, sums, done, closeReturned, outcome, lastCall>>

\* run takes done: it flushes once more.
LastFlushStart ==
  /\ at[Run] = "idle" /\ done
  /\ at' = [at EXCEPT ![Run] = "collecting"]
  /\ final' = TRUE
  /\ UNCHANGED <<queue, pending, sums, done, closeReturned, outcome, lastCall>>

Collect(f) ==
  /\ at[f] = "collecting" /\ queue # << >>
  /\ pending' = [pending EXCEPT ![f] = @ \union {Head(queue)}]
  /\ queue' = Tail(queue)
  /\ UNCHANGED <<at, final, sums, done, closeReturned, outcome, lastCall>>

\* A flush is over; for run perhaps the loop as well.
Rest(f) == IF f = Run /\ final THEN "over" ELSE "idle"

\* The queue is empty: with nothing taken there is nothing to write.
CollectEnds(f) ==
  /\ at[f] = "collecting" /\ queue = << >>
  /\ at' = [at EXCEPT ![f] = IF pending[f] = {} THEN Rest(f) ELSE "writing"]
  /\ UNCHANGED <<queue, final, pending, sums, done, closeReturned, outcome, lastCall>>

\* agg[k] = r.Count in place of agg[k] += r.Count.
Aggregate_Last(S, k) ==
  LET counts == {Count[r] : r \in {x \in S : Key(x) = k}}
  IN  IF counts = {} THEN 0 ELSE CHOOSE n \in counts : \A m \in counts : m <= n

\* aggregate: the count of one bucket.
Aggregate(S, k) ==
  SumFunctionOnSet(Count, {r \in S : Key(r) = k})

\* InsertBatch writes a row per key in one transaction.  The commit may come
\* back as an error and have taken effect, which run treats as a failure.
FlushWrites(f) ==
  /\ at[f] = "writing"
  /\ sums' = [k \in Keys |-> sums[k] + Aggregate(pending[f], k)]
  /\ outcome' = [r \in Records |-> IF r \in pending[f] THEN "stored" ELSE outcome[r]]
  /\ pending' = [pending EXCEPT ![f] = {}]
  /\ at' = [at EXCEPT ![f] = Rest(f)]
  /\ UNCHANGED <<queue, final, done, closeReturned, lastCall>>

\* InsertBatch fails, or its time is up: what was taken is not put back.
FlushFails(f) ==
  /\ at[f] = "writing"
  /\ outcome' = [r \in Records |-> IF r \in pending[f] THEN "lost" ELSE outcome[r]]
  /\ pending' = [pending EXCEPT ![f] = {}]
  /\ at' = [at EXCEPT ![f] = Rest(f)]
  /\ UNCHANGED <<queue, final, sums, done, closeReturned, lastCall>>

Flush(f) ==
  \/ FlushStart(f) \/ Collect(f) \/ CollectEnds(f)
  \/ FlushWrites(f) \/ FlushFails(f)
  \/ f = Run /\ LastFlushStart

-----------------------------------------------------------------------------
(* Close, called once.                                                     *)

CloseBegins ==
  /\ ~done
  /\ done' = TRUE
  /\ lastCall' = {queue[i] : i \in DOMAIN queue}
  /\ UNCHANGED <<queue, flushing, sums, closeReturned, outcome>>

CloseReturns ==
  /\ done /\ ~closeReturned /\ at[Run] = "over"
  /\ closeReturned' = TRUE
  /\ UNCHANGED <<queue, flushing, sums, done, outcome, lastCall>>

UsageNext ==
  \/ \E r \in Records : RecordRefused(r) \/ Record(r)
  \/ \E f \in Flushers : Flush(f)
  \/ CloseBegins \/ CloseReturns

UsageSpec == UsageInit /\ [][UsageNext]_usageVars

(***************************************************************************)
(* The ticker fires again and again, select takes done in the end although *)
(* the ticker may be ready too, and a flush that began goes on: the write  *)
(* has a time limit.  Nobody has to call Flush or Close.                   *)
(***************************************************************************)
Fairness ==
  /\ WF_usageVars(Flush(Run)) /\ SF_usageVars(LastFlushStart)
  /\ \A f \in Callers : WF_usageVars(at[f] # "idle" /\ Flush(f))
  /\ WF_usageVars(CloseReturns)

FairSpec == UsageSpec /\ Fairness

-----------------------------------------------------------------------------
(* The query of the usage, GET /api/v1/billing/usage.                      *)

\* parseUsageQuery: the last day unless the request says otherwise.  No query
\* comes of an empty range or of a unit that does not exist.
ParseUsageQuery(asked, now) ==
  LET start == IF asked.start = None THEN now - Day ELSE asked.start
      end   == IF asked.end = None THEN now ELSE asked.end
  IN  {q \in {[meter |-> asked.meter, start |-> start, end |-> end]} :
         q.end > q.start /\ q.meter.unit \in Units \union {None}}

\* bucket_end >= start AND bucket_start <= end, all of them text.
Touches(k, q) == Text(BucketEnd(k)) >= Text(q.start) /\ Text(k.start) <= Text(q.end)

\* tenant, client, operation and unit, those of them the query gives.
Selects(q, m) == \A f \in DOMAIN m : q.meter[f] \in {None, m[f]}

\* AggregateByTenant: one line for each meter that has a bucket in the range.
AggregateByTenant(q) ==
  LET rows == {k \in Keys : sums[k] > 0 /\ Touches(k, q) /\ Selects(q, k.meter)}
      Of(m) == {k \in rows : k.meter = m}
  IN  {[meter       |-> m,
        total       |-> SumFunctionOnSet(sums, Of(m)),
        bucketStart |-> CHOOSE s \in {k.start : k \in Of(m)} :
                          \A k \in Of(m) : Text(s) <= Text(k.start),
        bucketEnd   |-> CHOOSE e \in {BucketEnd(k) : k \in Of(m)} :
                          \A k \in Of(m) : Text(e) >= Text(BucketEnd(k))] :
       m \in {k.meter : k \in rows}}

\* ListUsage: the lines, or 400.
ListUsage(asked, now) ==
  LET parsed == ParseUsageQuery(asked, now)
  IN  [status     |-> IF parsed = {} THEN 400 ELSE 200,
       aggregates |-> UNION {AggregateByTenant(q) : q \in parsed}]

-----------------------------------------------------------------------------
(* Properties.                                                             *)

UsageTypeOK ==
  /\ queue \in Seq(Records) /\ Len(queue) <= QueueCapacity
  /\ at \in [Flushers -> {"idle", "collecting", "writing", "over"}]
  /\ final \in BOOLEAN
  /\ pending \in [Flushers -> SUBSET Records]
  /\ sums \in [Keys -> Nat]
  /\ done \in BOOLEAN /\ closeReturned \in BOOLEAN
  /\ outcome \in [Records -> Outcomes]
  /\ lastCall \subseteq Records

Places(r) ==
  Cardinality({i \in DOMAIN queue : queue[i] = r})
    + Cardinality({f \in Flushers : r \in pending[f]})

\* A reading that Record took is in one place, the queue or the hands of one
\* flusher, until it is billed or its batch fails: concurrent flushes neither
\* share a reading nor lose one between them.
OnePlace == \A r \in Records : Places(r) = IF outcome[r] = "taken" THEN 1 ELSE 0

Sum(S) == SumFunctionOnSet(Count, S)
Billed(m) == {r \in Records : outcome[r] = "stored" /\ Meter[r] = m}

\* The answer to a query, against the readings that were billed and the times
\* they were taken at, and not the buckets: what ListUsage reports of a meter
\* that the query selects holds every reading of the range but those of its
\* last second, and no reading further outside of it than a bucket and a
\* second; a line says from when to when its readings are.
AnswersToTheSecond(asked, now) ==
  LET answer == ListUsage(asked, now)
      start  == IF asked.start = None THEN now - Day ELSE asked.start
      end    == IF asked.end = None THEN now ELSE asked.end
      Lines(m) == {a \in answer.aggregates : a.meter = m}
      Total(m) == SumFunction([a \in Lines(m) |-> a.total])
      Surely(m) == {r \in Billed(m) : TakenAt[r] >= start /\ Sec(TakenAt[r]) < Sec(end)}
      Perhaps(m) == {r \in Billed(m) : /\ TakenAt[r] >= start - BucketInterval - Base * Base
                                        /\ TakenAt[r] <= end + BucketInterval}
  IN  /\ answer.status = 200 => start < end
      /\ \A m \in Meters :
           IF answer.status = 200 /\ \A f \in DOMAIN m : asked.meter[f] \in {None, m[f]}
           THEN /\ Sum(Surely(m)) <= Total(m) /\ Total(m) <= Sum(Perhaps(m))
                /\ \A a \in Lines(m), r \in Surely(m) :
                     a.bucketStart <= TakenAt[r] /\ TakenAt[r] < a.bucketEnd
           ELSE Lines(m) = {}

\* What is billed for a metering key is the sum of the readings billed, each
\* once, however they were spread over batches; none is in two places before.
\* And the answers to the queries agree with it.
BilledExactly ==
  /\ OnePlace
  /\ \A k \in Keys : sums[k] = Sum({r \in Records : outcome[r] = "stored" /\ Key(r) = k})
  /\ \A q \in Queries : AnswersToTheSecond(q.asked, q.now)

\* When Close has returned, nothing that was in the queue when it was called
\* is there still.
CloseFlushes == closeReturned => \A i \in DOMAIN queue : queue[i] \notin lastCall

\* A reading does not stay in the collector for ever, unless it came after
\* Close.
EventuallySettled ==
  \A r \in Records : outcome[r] = "taken" ~> (outcome[r] \in {"stored", "lost"} \/ done)

\* Close returns.
CloseTerminates == done ~> closeReturned

\* Both: neither a reading nor a Close waits for ever.
NothingHangs == EventuallySettled /\ CloseTerminates
=============================================================================
