------------------------- MODULE TelemetryPipeline -------------------------
(***************************************************************************)
(* Telemetry ingest, internal/pipeline/telemetry: a TCP receiver with a    *)
(* limit on connections, one goroutine per connection that pushes the      *)
(* lines it reads into a bounded queue that gives up its oldest entry when *)
(* it is full, one goroutine that takes lines out, parses and publishes    *)
(* them, and Stop, which must not close the queue under a pusher.          *)
(* Beside it calls of the API bring frames, which go to the bus at once:   *)
(* an array over REST, a stream over gRPC that is published batch by       *)
(* batch, or one raw line that is parsed on the spot.                      *)
(*                                                                         *)
(* A line is named by its connection, or call, and its number.  Over TCP a *)
(* line is one frame; the rate limiter only slows a connection down and is *)
(* left out.                                                               *)
(***************************************************************************)
EXTENDS Integers, Sequences, FiniteSets

CONSTANTS
  Conns,      \* the connections peers open
  Calls,      \* the calls of the API that bring frames
  MaxLines,   \* bound of a run: how many lines each peer sends at most
  MaxFrames,  \* bound of a run: how many frames a call brings at most
  MaxConns,   \* ReceiverConfig.MaxConns
  BufferSize, \* the capacity of BufferQueue
  Batch       \* grpcIngestBatch

ASSUME TelemetryAssumption ==
  /\ IsFiniteSet(Conns) /\ IsFiniteSet(Calls) /\ Conns \intersect Calls = {}
  /\ MaxLines \in [Conns -> Nat] /\ MaxConns \in Nat \ {0} /\ BufferSize \in Nat \ {0}
  /\ Batch \in Nat \ {0} /\ MaxFrames \in Nat \ {0}

Sent(c) == {c} \X (1..MaxLines[c])
Lines   == (UNION {Sent(c) : c \in Conns}) \union (Calls \X (1..MaxFrames))

VARIABLES
  listening,  \* the listener is open
  acceptor,   \* acceptLoop is running
  conn,       \* where the goroutine of each connection is
  active,     \* Receiver.active
  wg,         \* the receiver's WaitGroup
  read,       \* how many lines each connection has read
  queue,      \* BufferQueue.ch
  qClosed,    \* it is closed
  worker,     \* where processLoop is
  item,       \* the line it works on
  parserSet,  \* Pipeline.parser is not nil
  stop,       \* how far Stop is
  call,       \* each call of the API
  dropCount,  \* Metrics.DropCount
  fate        \* history: what became of each line

recv  == <<listening, acceptor, active, wg>>
work  == <<worker, item, parserSet>>
vars  == <<recv, conn, read, queue, qClosed, work, stop, call, dropCount, fate>>
tcp   == <<recv, conn, read, queue, qClosed, work, stop>>

\* A connection is accepted, counted (open), reading or inside Push, over.
ConnStates == {"none", "accepted", "open", "push", "full", "retry", "over"}
Fates      == {"unread", "pushing", "queued", "working", "published", "dropped", "lost"}
InPush     == {"push", "full", "retry"}
Open       == {c \in Conns : conn[c] \notin {"none", "over"}}

-----------------------------------------------------------------------------
\* NewPipeline and a successful Start: both loops run; the parser is there
\* unless the default one was not registered.
Init ==
  /\ listening = TRUE /\ acceptor = TRUE
  /\ conn = [c \in Conns |-> "none"]
  /\ active = 0 /\ wg = 1
  /\ read = [c \in Conns |-> 0]
  /\ queue = << >> /\ qClosed = FALSE
  /\ worker = "top" /\ item = << >>
  /\ parserSet \in BOOLEAN
  /\ stop = "no"
  /\ call = [k \in Calls |-> [api |-> "none", at |-> "idle", total |-> 0, out |-> 0,
                              accepted |-> 0, metered |-> 0]]
  /\ dropCount = 0
  /\ fate = [l \in Lines |-> "unread"]

-----------------------------------------------------------------------------
(* The receiver.                                                           *)

\* acceptLoop: below the limit a goroutine is started for the connection,
\* which is not counted yet; at the limit the connection is closed.
Accept(c) ==
  /\ acceptor /\ listening /\ conn[c] = "none"
  /\ IF active >= MaxConns
     THEN conn' = [conn EXCEPT ![c] = "over"] /\ UNCHANGED wg
     ELSE conn' = [conn EXCEPT ![c] = "accepted"] /\ wg' = wg + 1
  /\ UNCHANGED <<call, listening, acceptor, active, read, queue, qClosed, work,
                 stop, dropCount, fate>>

\* Any error of Accept ends the loop, the closed listener's among them.
AcceptFails ==
  /\ acceptor
  /\ acceptor' = FALSE
  /\ wg' = wg - 1
  /\ UNCHANGED <<call, listening, conn, active, read, queue, qClosed, work, stop,
                 dropCount, fate>>

\* handleConn begins: the connection is counted.
ConnOpens(c) ==
  /\ conn[c] = "accepted"
  /\ conn' = [conn EXCEPT ![c] = "open"]
  /\ active' = active + 1
  /\ UNCHANGED <<call, listening, acceptor, wg, read, queue, qClosed, work, stop,
                 dropCount, fate>>

\* A line is read and handleRaw calls Push.
ReadLine(c) ==
  /\ conn[c] = "open" /\ read[c] < MaxLines[c]
  /\ conn' = [conn EXCEPT ![c] = "push"]
  /\ read' = [read EXCEPT ![c] = @ + 1]
  /\ fate' = [fate EXCEPT ![<<c, read'[c]>>] = "pushing"]
  /\ UNCHANGED <<call, recv, queue, qClosed, work, stop, dropCount>>

\* The peer closes, an error, or too long a pause after a line; before the
\* first line no deadline is set, so nobody but the peer ends the connection.
ConnEnds(c) ==
  /\ conn[c] = "open"
  /\ conn' = [conn EXCEPT ![c] = "over"]
  /\ active' = active - 1
  /\ wg' = wg - 1
  /\ UNCHANGED <<call, listening, acceptor, read, queue, qClosed, work, stop,
                 dropCount, fate>>

-----------------------------------------------------------------------------
(* BufferQueue.Push, by the goroutine of connection c; three selects.      *)
Line(c) == <<c, read[c]>>

\* The send of a select that has a default.
Enter(c) ==
  /\ Len(queue) < BufferSize
  /\ queue' = Append(queue, Line(c))
  /\ fate' = [fate EXCEPT ![Line(c)] = "queued"]
  /\ conn' = [conn EXCEPT ![c] = "open"]
  /\ UNCHANGED dropCount

PushTry(c) ==
  /\ conn[c] = "push"
  /\ \/ Enter(c)
     \/ /\ Len(queue) = BufferSize
        /\ conn' = [conn EXCEPT ![c] = "full"]
        /\ UNCHANGED <<queue, dropCount, fate>>
  /\ UNCHANGED <<call, recv, read, qClosed, work, stop>>

\* The oldest line is thrown away, unless somebody took it already.
DropOldest(c) ==
  /\ conn[c] = "full"
  /\ conn' = [conn EXCEPT ![c] = "retry"]
  /\ IF queue = << >>
     THEN UNCHANGED <<queue, dropCount, fate>>
     ELSE /\ queue' = Tail(queue)
          /\ fate' = [fate EXCEPT ![Head(queue)] = "dropped"]
          /\ dropCount' = dropCount + 1
  /\ UNCHANGED <<call, recv, read, qClosed, work, stop>>

\* Another connection may have filled the place: then this line goes.
PushAgain(c) ==
  /\ conn[c] = "retry"
  /\ \/ Enter(c)
     \/ /\ Len(queue) = BufferSize
        /\ conn' = [conn EXCEPT ![c] = "open"]
        /\ fate' = [fate EXCEPT ![Line(c)] = "dropped"]
        /\ dropCount' = dropCount + 1
        /\ UNCHANGED queue
  /\ UNCHANGED <<call, recv, read, qClosed, work, stop>>

-----------------------------------------------------------------------------
(* processLoop.                                                            *)

\* Top of the loop: stopCh is looked at, and only here.
WorkerTop ==
  /\ worker = "top"
  /\ worker' = IF stop \in {"stopCh", "closed"} THEN "exited" ELSE "pop"
  /\ UNCHANGED <<call, recv, conn, read, queue, qClosed, item, parserSet, stop,
                 dropCount, fate>>

\* The newest line is taken.
Pop_Newest ==
  /\ worker = "pop" /\ queue # << >>
  /\ item' = queue[Len(queue)]
  /\ queue' = SubSeq(queue, 1, Len(queue) - 1)
  /\ fate' = [fate EXCEPT ![item'] = "working"]
  /\ worker' = "process"
  /\ UNCHANGED <<call, recv, conn, read, qClosed, parserSet, stop, dropCount>>

Pop ==
  /\ worker = "pop" /\ queue # << >>
  /\ item' = Head(queue)
  /\ queue' = Tail(queue)
  /\ fate' = [fate EXCEPT ![item'] = "working"]
  /\ worker' = "process"
  /\ UNCHANGED <<call, recv, conn, read, qClosed, parserSet, stop, dropCount>>

\* The queue is empty and closed.
PopEnds ==
  /\ worker = "pop" /\ queue = << >> /\ qClosed
  /\ worker' = "exited"
  /\ UNCHANGED <<call, recv, conn, read, queue, qClosed, item, parserSet, stop,
                 dropCount, fate>>

\* process: the line becomes an event on the bus, or is dropped because there
\* is no parser or because parsing, normalising or publishing it fails.
Process ==
  /\ worker = "process"
  /\ \/ /\ parserSet
        /\ fate' = [fate EXCEPT ![item] = "published"]
        /\ UNCHANGED dropCount
     \/ /\ fate' = [fate EXCEPT ![item] = "dropped"]
        /\ dropCount' = dropCount + 1
  /\ item' = << >>
  /\ worker' = "top"
  /\ UNCHANGED <<call, recv, conn, read, queue, qClosed, parserSet, stop>>

SetParser ==
  /\ ~parserSet
  /\ parserSet' = TRUE
  /\ UNCHANGED <<call, recv, conn, read, queue, qClosed, worker, item, stop,
                 dropCount, fate>>

-----------------------------------------------------------------------------
(* The calls of the API.  total frames of a call have come, out of them    *)
(* have gone through IngestFrames; the others are the batch.               *)

Set(k, c) == call' = [call EXCEPT ![k] = c]
Marked(k, S, f) ==
  [l \in Lines |-> IF l[1] = k /\ l[2] \in S THEN f ELSE fate[l]]

\* REST: the frames come all together; an empty array is refused.
IngestTelemetry(k) ==
  /\ call[k].at = "idle"
  /\ \E n \in 1..MaxFrames :
       /\ Set(k, [call[k] EXCEPT !.api = "rest", !.at = "last", !.total = n])
       /\ fate' = Marked(k, 1..n, "pushing")
  /\ UNCHANGED <<tcp, dropCount>>

\* gRPC: a stream is opened ...
IngestStream(k) ==
  /\ call[k].at = "idle"
  /\ Set(k, [call[k] EXCEPT !.api = "grpc", !.at = "recv"])
  /\ UNCHANGED <<tcp, dropCount, fate>>

\* ... frames come, and a full batch is published before the next ...
StreamRecv(k) ==
  /\ call[k].at = "recv" /\ call[k].total < MaxFrames
  /\ LET n == call[k].total + 1
     IN  /\ Set(k, [call[k] EXCEPT !.total = n,
                      !.at = IF n - call[k].out >= Batch THEN "flush" ELSE "recv"])
         /\ fate' = Marked(k, {n}, "pushing")
  /\ UNCHANGED <<tcp, dropCount>>

\* RecordIngest has what all of the frames came to.
Metered(c) == [c EXCEPT !.at = "over", !.metered = c.total]

\* ... and at its end what is left is published, and the frames are metered.
StreamEnds(k) ==
  /\ call[k].at = "recv"
  /\ Set(k, IF call[k].out = call[k].total THEN Metered(call[k])
            ELSE [call[k] EXCEPT !.at = "last"])
  /\ UNCHANGED <<tcp, dropCount, fate>>

\* A stream that breaks takes its batch with it, and nothing is metered.
StreamFails(k) ==
  /\ call[k].at = "recv"
  /\ Set(k, [call[k] EXCEPT !.at = "over"])
  /\ fate' = Marked(k, (call[k].out + 1)..call[k].total, "lost")
  /\ UNCHANGED <<tcp, dropCount>>

\* The batch is through.  Over REST a call without an accepted frame is an
\* error, and metered as nothing; a stream does not look at that error.
BatchOver(c) ==
  CASE c.at = "flush"                      -> [c EXCEPT !.at = "recv"]
    [] c.api = "rest" /\ c.accepted = 0    -> [c EXCEPT !.at = "over"]
    [] OTHER                               -> Metered(c)

\* IngestFrames, one frame: normalised and published, or counted as dropped;
\* the next one is tried all the same.
IngestFrame(k) ==
  /\ call[k].at \in {"flush", "last"}
  /\ \E ok \in BOOLEAN :
       LET c == [call[k] EXCEPT !.out = @ + 1, !.accepted = IF ok THEN @ + 1 ELSE @]
       IN  /\ Set(k, IF c.out = c.total THEN BatchOver(c) ELSE c)
           /\ fate' = Marked(k, {c.out}, IF ok THEN "published" ELSE "dropped")
           /\ dropCount' = IF ok THEN dropCount ELSE dropCount + 1
  /\ UNCHANGED tcp

\* REST, a raw line: the handler does what the worker does with one.
SendTelemetry(k) ==
  /\ call[k].at = "idle"
  /\ Set(k, [call[k] EXCEPT !.api = "send", !.at = "send", !.total = 1])
  /\ fate' = Marked(k, {1}, "working")
  /\ UNCHANGED <<tcp, dropCount>>

ProcessSent(k) ==
  /\ call[k].at = "send"
  /\ Set(k, [call[k] EXCEPT !.at = "over", !.out = 1])
  /\ \/ parserSet /\ fate' = Marked(k, {1}, "published") /\ UNCHANGED dropCount
     \/ fate' = Marked(k, {1}, "dropped") /\ dropCount' = dropCount + 1
  /\ UNCHANGED tcp

-----------------------------------------------------------------------------
(* Pipeline.Stop.                                                          *)

\* Receiver.Stop closes the listener and waits for the connections ...
Stop ==
  /\ stop = "no"
  /\ stop' = "receiver"
  /\ listening' = FALSE
  /\ UNCHANGED <<call, acceptor, conn, active, wg, read, queue, qClosed, work,
                 dropCount, fate>>

\* ... then stopCh is closed ...
ReceiverStopped_Unwaited ==
  /\ stop = "receiver"
  /\ stop' = "stopCh"
  /\ UNCHANGED <<call, recv, conn, read, queue, qClosed, work, dropCount, fate>>

ReceiverStopped ==
  /\ stop = "receiver" /\ wg = 0
  /\ stop' = "stopCh"
  /\ UNCHANGED <<call, recv, conn, read, queue, qClosed, work, dropCount, fate>>

\* The queue is left open.
CloseQueue_Not ==
  /\ stop = "stopCh"
  /\ stop' = "closed"
  /\ UNCHANGED <<call, recv, conn, read, queue, qClosed, work, dropCount, fate>>

\* ... then the queue, which releases a worker that waits for a line ...
CloseQueue ==
  /\ stop = "stopCh"
  /\ stop' = "closed"
  /\ qClosed' = TRUE
  /\ UNCHANGED <<call, recv, conn, read, queue, work, dropCount, fate>>

\* ... and Stop waits for the worker.
StopReturns ==
  /\ stop = "closed" /\ worker = "exited"
  /\ stop' = "done"
  /\ UNCHANGED <<call, recv, conn, read, queue, qClosed, work, dropCount, fate>>

-----------------------------------------------------------------------------
Push(c) == PushTry(c) \/ DropOldest(c) \/ PushAgain(c)
Work    == WorkerTop \/ Pop \/ PopEnds \/ Process
Stops   == ReceiverStopped \/ CloseQueue \/ StopReturns
Answer(k) == IngestFrame(k) \/ ProcessSent(k)

Next ==
  \/ \E c \in Conns :
       Accept(c) \/ ConnOpens(c) \/ ReadLine(c) \/ ConnEnds(c) \/ Push(c)
  \/ AcceptFails \/ Work \/ SetParser \/ Stop \/ Stops
  \/ \E k \in Calls :
       \/ IngestTelemetry(k) \/ SendTelemetry(k) \/ Answer(k)
       \/ IngestStream(k) \/ StreamRecv(k) \/ StreamEnds(k) \/ StreamFails(k)

Spec == Init /\ [][Next]_vars

(***************************************************************************)
(* Goroutines run on, and Accept returns an error once the listener is     *)
(* closed.  Peers need not send or close anything.                         *)
(***************************************************************************)
Fairness ==
  /\ WF_vars(Work) /\ WF_vars(Stops) /\ WF_vars(~listening /\ AcceptFails)
  /\ \A c \in Conns : WF_vars(ConnOpens(c) \/ Push(c))
  /\ \A k \in Calls : WF_vars(Answer(k))

FairSpec == Spec /\ Fairness

-----------------------------------------------------------------------------
(* Properties.                                                             *)

Reports ==
  [api : {"none", "rest", "grpc", "send"},
   at  : {"idle", "recv", "flush", "last", "send", "over"},
   total : 0..MaxFrames, out : 0..MaxFrames, accepted : 0..MaxFrames, metered : 0..MaxFrames]

TypeOK ==
  /\ listening \in BOOLEAN /\ acceptor \in BOOLEAN
  /\ conn \in [Conns -> ConnStates]
  /\ active \in Nat /\ wg \in Nat
  /\ read \in [Conns -> Nat] /\ \A c \in Conns : read[c] <= MaxLines[c]
  /\ queue \in Seq(Lines) /\ Len(queue) <= BufferSize
  /\ qClosed \in BOOLEAN
  /\ worker \in {"top", "pop", "process", "exited"}
  /\ item \in Lines \union {<< >>} /\ parserSet \in BOOLEAN
  /\ stop \in {"no", "receiver", "stopCh", "closed", "done"}
  /\ call \in [Calls -> Reports]
  /\ dropCount \in Nat
  /\ fate \in [Lines -> Fates]

\* Stop never closes the queue while a connection is inside Push, which would
\* be a send on a closed channel: the receiver's WaitGroup covers acceptLoop
\* and every connection, those accepted while Stop was called included.
NoPushAfterClose == qClosed => Open = {}

\* Every line thrown away is counted once, whoever threw it away: a pusher
\* that made room, a pusher that found none, or the worker.
DropsCounted == dropCount = Cardinality({l \in Lines : fate[l] = "dropped"})

\* Lines of one connection, and frames of one call, are published in the order
\* they came: none is still on its way when a later one is published or being
\* worked on.
PerConnOrder ==
  \A k, l \in Lines :
    k[1] = l[1] /\ k[2] < l[2] /\ fate[l] \in {"working", "published"}
      => fate[k] \in {"published", "dropped"}

Frames(k, fates) == Cardinality({n \in 1..MaxFrames : fate[<<k, n>>] \in fates})

\* What a call that is over reports and what is metered for it agree with what
\* became of its frames, in how many batches they ever went: accepted are those
\* on the bus, and metered are all that were published or dropped.  Nothing is
\* metered for a stream that broke, which may have published some, for an array
\* of which nothing was accepted, and for a raw line.
IngestMetered ==
  \A k \in Calls : call[k].at = "over" =>
    LET c == call[k] IN
      /\ c.api # "send" => c.accepted = Frames(k, {"published"})
      /\ Frames(k, {"published", "dropped", "lost"}) = c.total
      /\ c.metered \in {0, Frames(k, {"published", "dropped"})}
      /\ c.metered > 0 => Frames(k, {"lost"}) = 0
      /\ c.api = "rest" => (c.metered > 0 <=> c.accepted > 0)

\* No line disappears without being counted, none overtakes another, and the
\* books of the calls are right.
LinesAccounted == DropsCounted /\ PerConnOrder /\ IngestMetered

OnTheWay(c) ==
  \E l \in Lines : /\ l[1] = c /\ fate[l] \in {"pushing", "queued", "working"}
                   /\ c \in Calls => call[c].at # "recv"

\* What a connection or a call brought does not stay on its way, unless Stop
\* overtakes it: there comes a time when all of it is out, as peers send so many
\* lines here and no more.  A frame of a stream waits as long as its batch is
\* not full.
EventuallyOut ==
  \A c \in Conns \union Calls : OnTheWay(c) ~> (~OnTheWay(c) \/ stop # "no")

\* Stop returns once every peer has gone.
StopTerminates ==
  ([]<>(Open = {})) => (stop = "receiver" ~> stop = "done")

\* Both: lines come out, and the pipeline can be stopped.
NothingHangs == EventuallyOut /\ StopTerminates
=============================================================================
