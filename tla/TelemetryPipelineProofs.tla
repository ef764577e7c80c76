----------------------- MODULE TelemetryPipelineProofs -----------------------
(***************************************************************************)
(* Proofs about TelemetryPipeline, for any connections and calls, any      *)
(* number of lines and frames, any queue, batch and limit.                 *)
(***************************************************************************)
EXTENDS TelemetryPipeline, FiniteSetTheorems, TLAPS

TcpLines == {l \in Lines : l[1] \in Conns}
Dropped  == {l \in Lines : fate[l] = "dropped"}

\* Connections that are counted as active.
Active == {c \in Conns : conn[c] \in {"open", "push", "full", "retry"}}

\* The WaitGroup counts acceptLoop and each connection it let in.
Accounting ==
  /\ wg = Cardinality(Open) + IF acceptor THEN 1 ELSE 0
  /\ active = Cardinality(Active)

\* Behind wg.Wait nothing of the receiver is left.
Stopping ==
  /\ stop \in {"stopCh", "closed", "done"} => ~acceptor /\ Open = {}
  /\ qClosed => stop \in {"closed", "done"}

\* Where a line is, by its fate.
Placed ==
  /\ \A l \in TcpLines :
       /\ fate[l] = "unread" <=> l[2] > read[l[1]]
       /\ fate[l] = "pushing" <=> conn[l[1]] \in InPush /\ l[2] = read[l[1]]
       /\ fate[l] = "queued" <=> \E i \in 1..Len(queue) : queue[i] = l
       /\ fate[l] = "working" <=> worker = "process" /\ item = l
       /\ fate[l] # "lost"
  /\ \A i \in 1..Len(queue) : queue[i] \in TcpLines
  /\ worker = "process" => item \in TcpLines
  /\ \A c \in Conns : conn[c] \in InPush => read[c] > 0

\* The queue holds the lines of each connection in order, and those that have
\* left it left in order.
InOrder ==
  /\ \A i, j \in 1..Len(queue) :
       i < j /\ queue[i][1] = queue[j][1] => queue[i][2] < queue[j][2]
  /\ \A k, l \in TcpLines :
       k[1] = l[1] /\ k[2] < l[2] /\ fate[l] \in {"working", "published"}
         => fate[k] \in {"published", "dropped"}

\* Frames of a call: out of them are through, those between out and total are
\* in its hands, and when it is over they are lost.
Through(k) ==
  \A n \in 1..MaxFrames :
    /\ n <= call[k].out => fate[<<k, n>>] \in {"published", "dropped"}
    /\ n > call[k].total => fate[<<k, n>>] = "unread"
    /\ n > call[k].out /\ n <= call[k].total =>
         /\ call[k].at = "send" => fate[<<k, n>>] = "working"
         /\ call[k].at = "over" => fate[<<k, n>>] = "lost"
         /\ call[k].at \notin {"send", "over"} => fate[<<k, n>>] = "pushing"

\* The books of a call.
Reported(k) ==
  LET c == call[k] IN
    /\ c.out <= c.total
    /\ c.at = "idle" => c.api = "none" /\ c.total = 0
    /\ c.at \in {"recv", "flush"} => c.api = "grpc"
    /\ c.at \in {"flush", "last"} => c.out < c.total /\ c.api \in {"rest", "grpc"}
    /\ c.at = "send" => c.api = "send" /\ c.total = 1 /\ c.out = 0
    /\ c.api # "send" => c.accepted = Frames(k, {"published"})
    /\ c.at # "over" => c.metered = 0
    /\ c.metered \in {0, c.total} /\ (c.metered > 0 => c.out = c.total)
    /\ c.at = "over" /\ c.api = "rest" => (c.metered > 0 <=> c.accepted > 0)

CallsInOrder == \A k \in Calls : Through(k) /\ Reported(k)

IndInv ==
  TypeOK /\ Accounting /\ Stopping /\ Placed /\ InOrder /\ DropsCounted /\ CallsInOrder

-----------------------------------------------------------------------------
\* A line is what a connection sent, or what a call brings.
LEMMA LinesOf ==
  \A l : l \in Lines <=> (\E c \in Conns : l \in Sent(c)) \/ l \in Calls \X (1..MaxFrames)
<1> DEFINE S == {Sent(c) : c \in Conns}
<1>1. Lines = (UNION S) \union (Calls \X (1..MaxFrames))
  BY DEF Lines
<1>2. \A T : T \in S <=> \E c \in Conns : T = Sent(c)
  OBVIOUS
<1> HIDE DEF S
<1>3. \A l : l \in UNION S <=> \E T \in S : l \in T
  OBVIOUS
<1> QED
  BY <1>1, <1>2, <1>3

\* A line of a connection has one of its numbers, a frame one of MaxFrames.
LEMMA LinesAre ==
  /\ \A c \in Conns : \A n \in Nat : n > 0 /\ n <= MaxLines[c] => <<c, n>> \in TcpLines
  /\ \A l \in TcpLines : /\ l \in Lines /\ l[1] \in Conns /\ l[2] \in Nat /\ l = <<l[1], l[2]>>
                         /\ l[2] > 0 /\ l[2] <= MaxLines[l[1]]
  /\ \A k \in Calls, n \in 1..MaxFrames : <<k, n>> \in Lines /\ <<k, n>> \notin TcpLines
  /\ \A l \in Lines : l \notin TcpLines =>
       l[1] \in Calls /\ l[2] \in 1..MaxFrames /\ l = <<l[1], l[2]>>
<1>1. \A c \in Conns : MaxLines[c] \in Nat
  BY TelemetryAssumption
<1>2. \A c \in Conns : \A l \in Sent(c) :
        /\ l = <<l[1], l[2]>> /\ l[1] = c /\ l[2] \in Nat /\ l[2] > 0 /\ l[2] <= MaxLines[c]
  BY <1>1 DEF Sent
<1>3. \A l \in Calls \X (1..MaxFrames) : l[1] \in Calls /\ l[2] \in 1..MaxFrames /\ l = <<l[1], l[2]>>
  OBVIOUS
<1>4. \A k \in Calls : k \notin Conns
  BY TelemetryAssumption
<1>5. ASSUME NEW c \in Conns, NEW n \in Nat, n > 0, n <= MaxLines[c]
      PROVE  <<c, n>> \in TcpLines
  <2>1. <<c, n>> \in Sent(c)
    BY <1>1, <1>5 DEF Sent
  <2> QED
    BY <2>1, LinesOf DEF TcpLines
<1>6. ASSUME NEW l \in TcpLines
      PROVE  /\ l \in Lines /\ l[1] \in Conns /\ l[2] \in Nat /\ l = <<l[1], l[2]>>
             /\ l[2] > 0 /\ l[2] <= MaxLines[l[1]]
  <2>1. l \in Lines /\ l[1] \in Conns /\ l[1] \notin Calls
    BY <1>4 DEF TcpLines
  <2>2. PICK c \in Conns : l \in Sent(c)
    BY <1>3, <2>1, LinesOf
  <2> QED
    BY <1>2, <2>1, <2>2
<1>7. ASSUME NEW k \in Calls, NEW n \in 1..MaxFrames
      PROVE  <<k, n>> \in Lines /\ <<k, n>> \notin TcpLines
  BY <1>4, LinesOf DEF TcpLines
<1>8. ASSUME NEW l \in Lines, l \notin TcpLines
      PROVE  l[1] \in Calls /\ l[2] \in 1..MaxFrames /\ l = <<l[1], l[2]>>
  <2>1. \A c \in Conns : l \notin Sent(c)
    BY <1>2, <1>8 DEF TcpLines
  <2> QED
    BY <1>3, <2>1, LinesOf
<1> QED
  BY <1>5, <1>6, <1>7, <1>8

\* There are finitely many lines.
LEMMA LinesFinite == IsFiniteSet(Lines)
<1>1. ASSUME NEW c \in Conns PROVE IsFiniteSet(Sent(c))
  <2>1. IsFiniteSet({c}) /\ MaxLines[c] \in Nat
    BY TelemetryAssumption, FS_Singleton
  <2>2. IsFiniteSet(1..MaxLines[c])
    BY <2>1, FS_Interval
  <2> QED
    BY <2>1, <2>2, FS_Product DEF Sent
<1> DEFINE S == {Sent(c) : c \in Conns}
<1>2. IsFiniteSet(S)
  <2>1. PICK n \in Nat : ExistsSurjection(1..n, Conns)
    BY TelemetryAssumption, FS_NatSurjection
  <2>2. PICK f \in [1..n -> Conns] : \A c \in Conns : \E i \in 1..n : f[i] = c
    BY <2>1 DEF ExistsSurjection, Surjection
  <2> DEFINE g == [i \in 1..n |-> Sent(f[i])]
  <2>3. g \in [1..n -> S] /\ \A T \in S : \E i \in 1..n : g[i] = T
    BY <2>2
  <2>4. ExistsSurjection(1..n, S)
    BY <2>3, Zenon DEF ExistsSurjection, Surjection
  <2> QED
    BY <2>4, FS_NatSurjection
<1>3. IsFiniteSet(UNION S)
  BY <1>1, <1>2, FS_UNION
<1>4. IsFiniteSet(Calls \X (1..MaxFrames))
  <2>1. IsFiniteSet(Calls) /\ IsFiniteSet(1..MaxFrames)
    BY TelemetryAssumption, FS_Interval
  <2> QED
    BY <2>1, FS_Product
<1>5. Lines = (UNION S) \union (Calls \X (1..MaxFrames))
  BY DEF Lines
<1> HIDE DEF S
<1> QED
  BY <1>3, <1>4, <1>5, FS_Union

\* One line, or frame, more is dropped and counted.
LEMMA OneMoreDropped ==
  ASSUME DropsCounted, NEW l \in Lines, fate[l] # "dropped", dropCount' = dropCount + 1,
         \A m \in Lines : fate'[m] = "dropped" <=> m = l \/ fate[m] = "dropped"
  PROVE  DropsCounted'
<1>1. Dropped' = Dropped \union {l} /\ l \notin Dropped
  BY DEF Dropped
<1>2. IsFiniteSet(Dropped)
  BY LinesFinite, FS_Subset DEF Dropped
<1>3. Cardinality(Dropped') = Cardinality(Dropped) + 1
  BY <1>1, <1>2, FS_AddElement
<1> QED
  BY <1>3 DEF DropsCounted, Dropped

\* A step that drops none counts none.
LEMMA NoneDropped ==
  ASSUME DropsCounted, dropCount' = dropCount,
         \A m \in Lines : fate'[m] = "dropped" <=> fate[m] = "dropped"
  PROVE  DropsCounted'
<1>1. Dropped' = Dropped
  BY DEF Dropped
<1> QED
  BY <1>1 DEF DropsCounted, Dropped

\* A step that moves one line.
LEMMA Moved ==
  ASSUME TypeOK, NEW l \in Lines, NEW f \in Fates, fate' = [fate EXCEPT ![l] = f]
  PROVE  /\ fate' \in [Lines -> Fates] /\ fate'[l] = f
         /\ \A m \in Lines : m # l => fate'[m] = fate[m]
BY DEF TypeOK

\* What does not touch a call leaves its books right.
LEMMA CallsStay ==
  ASSUME CallsInOrder, call' = call,
         \A k \in Calls, n \in 1..MaxFrames : fate'[<<k, n>>] = fate[<<k, n>>]
  PROVE  CallsInOrder'
<1> SUFFICES ASSUME NEW k \in Calls PROVE Through(k)' /\ Reported(k)'
  BY DEF CallsInOrder
<1>1. Through(k)'
  BY DEF CallsInOrder, Through
<1>2. {n \in 1..MaxFrames : fate'[<<k, n>>] \in {"published"}}
        = {n \in 1..MaxFrames : fate[<<k, n>>] \in {"published"}}
  OBVIOUS
<1>3. Reported(k)'
  BY <1>2 DEF CallsInOrder, Reported, Frames
<1> QED
  BY <1>1, <1>3

\* How a step of one connection changes what is counted.
LEMMA OpenCount ==
  ASSUME TypeOK, NEW c \in Conns, NEW s \in ConnStates, conn' = [conn EXCEPT ![c] = s]
  PROVE  /\ Cardinality(Open) \in Nat
         /\ c \in Open /\ s \notin {"none", "over"} => Open' = Open
         /\ c \in Open /\ s = "over" => Cardinality(Open') = Cardinality(Open) - 1
         /\ c \notin Open /\ s = "over" => Open' = Open
         /\ c \notin Open /\ s = "accepted" => Cardinality(Open') = Cardinality(Open) + 1
<1>1. IsFiniteSet(Open)
  BY TelemetryAssumption, FS_Subset DEF Open
<1>2. Open' = IF s \in {"none", "over"} THEN Open \ {c} ELSE Open \union {c}
  BY DEF Open, TypeOK
<1>3. Cardinality(Open) \in Nat
  BY <1>1, FS_CardinalityType
<1>4. c \in Open => Cardinality(Open \ {c}) = Cardinality(Open) - 1
  BY <1>1, FS_RemoveElement
<1>5. c \notin Open => Cardinality(Open \union {c}) = Cardinality(Open) + 1
  BY <1>1, FS_AddElement
<1> HIDE DEF Open
<1> QED
  BY <1>2, <1>3, <1>4, <1>5

\* How it changes Receiver.active.
LEMMA ActiveCount ==
  ASSUME TypeOK, NEW c \in Conns, NEW s \in ConnStates, conn' = [conn EXCEPT ![c] = s]
  PROVE  /\ Cardinality(Active) \in Nat
         /\ c \in Active /\ s \in {"open", "push", "full", "retry"} => Active' = Active
         /\ c \in Active /\ s = "over" => Cardinality(Active') = Cardinality(Active) - 1
         /\ c \notin Active /\ s \in {"accepted", "over"} => Active' = Active
         /\ c \notin Active /\ s = "open" => Cardinality(Active') = Cardinality(Active) + 1
<1>1. IsFiniteSet(Active)
  BY TelemetryAssumption, FS_Subset DEF Active
<1>2. Active' = IF s \in {"open", "push", "full", "retry"} THEN Active \union {c} ELSE Active \ {c}
  BY DEF Active, TypeOK
<1>3. Cardinality(Active) \in Nat
  BY <1>1, FS_CardinalityType
<1>4. c \in Active => Cardinality(Active \ {c}) = Cardinality(Active) - 1
  BY <1>1, FS_RemoveElement
<1>5. c \notin Active => Cardinality(Active \union {c}) = Cardinality(Active) + 1
  BY <1>1, FS_AddElement
<1> HIDE DEF Active
<1> QED
  BY <1>2, <1>3, <1>4, <1>5

\* Steps that move no line of a connection leave every line where it was.
LEMMA Undisturbed ==
  ASSUME Placed, InOrder, read' = read, queue' = queue, item' = item,
         worker' = "process" <=> worker = "process",
         \A c \in Conns : conn'[c] \in InPush <=> conn[c] \in InPush,
         \A l \in TcpLines : fate'[l] = fate[l]
  PROVE  Placed' /\ InOrder'
<1>1. TcpLines' = TcpLines /\ InPush' = InPush
  BY DEF TcpLines, InPush
<1>2. Placed'
  <2>1. \A l \in TcpLines : l[1] \in Conns
    BY DEF TcpLines
  <2> HIDE DEF TcpLines, InPush
  <2> QED
    BY <1>1, <2>1 DEF Placed
<1>3. InOrder'
  BY <1>1 DEF InOrder
<1> QED
  BY <1>2, <1>3

\* What the pushers, the worker and the calls are to find unchanged.
LEMMA NotMoved ==
  ASSUME Placed, InOrder, DropsCounted, CallsInOrder,
         UNCHANGED <<read, queue, work, call, dropCount, fate>>,
         \A c \in Conns : conn'[c] \in InPush <=> conn[c] \in InPush
  PROVE  Placed' /\ InOrder' /\ DropsCounted' /\ CallsInOrder'
<1>1. Placed' /\ InOrder'
  BY Undisturbed DEF work
<1>2. DropsCounted'
  BY NoneDropped
<1>3. CallsInOrder'
  BY CallsStay
<1> QED
  BY <1>1, <1>2, <1>3

\* Accept and the goroutines of the connections, outside Push.
LEMMA ReceiverKeeps ==
  ASSUME IndInv, NEW c \in Conns, Accept(c) \/ ConnOpens(c) \/ ConnEnds(c)
  PROVE  IndInv'
<1>1. TypeOK /\ Accounting /\ Stopping /\ Placed /\ InOrder /\ DropsCounted /\ CallsInOrder
  BY DEF IndInv
<1>2. UNCHANGED <<read, queue, qClosed, work, stop, call, dropCount, fate>>
  BY DEF Accept, ConnOpens, ConnEnds
<1>3. conn \in [Conns -> ConnStates] /\ wg \in Nat /\ active \in Nat /\ acceptor \in BOOLEAN
  BY <1>1 DEF TypeOK
<1>4. CASE Accept(c)
  <2>1. acceptor /\ conn[c] = "none" /\ acceptor' = acceptor /\ active' = active
    BY <1>4 DEF Accept
  <2>2. c \notin Open /\ c \notin Active
    BY <2>1 DEF Open, Active
  <2>3. PICK s \in {"over", "accepted"} :
          conn' = [conn EXCEPT ![c] = s] /\ wg' = IF s = "over" THEN wg ELSE wg + 1
    BY <1>4 DEF Accept
  <2>4. Accounting'
    BY <1>1, <1>3, <2>1, <2>2, <2>3, OpenCount, ActiveCount DEF Accounting, ConnStates
  <2>5. Stopping'
    BY <1>1, <1>2, <2>1 DEF Stopping
  <2>6. TypeOK'
    BY <1>1, <1>2, <1>4, <2>1, <2>3 DEF TypeOK, work, ConnStates, Accept
  <2>7. \A d \in Conns : conn'[d] \in InPush <=> conn[d] \in InPush
    BY <1>3, <2>1, <2>3 DEF InPush
  <2> QED
    BY <1>1, <1>2, <2>4, <2>5, <2>6, <2>7, NotMoved DEF IndInv
<1>5. CASE ConnOpens(c)
  <2>1. /\ conn[c] = "accepted" /\ conn' = [conn EXCEPT ![c] = "open"] /\ active' = active + 1
        /\ UNCHANGED <<listening, acceptor, wg>>
    BY <1>5 DEF ConnOpens
  <2>2. c \in Open /\ c \notin Active
    BY <2>1 DEF Open, Active
  <2>3. "open" \in ConnStates
    BY DEF ConnStates
  <2>4. Open' = Open /\ Cardinality(Active') = Cardinality(Active) + 1
    BY <1>1, <2>1, <2>2, <2>3, OpenCount, ActiveCount
  <2>5. Accounting'
    BY <1>1, <2>1, <2>4 DEF Accounting
  <2>6. Stopping'
    BY <1>1, <1>2, <2>1, <2>4 DEF Stopping
  <2>7. TypeOK'
    BY <1>1, <1>2, <2>1, <2>3 DEF TypeOK, work
  <2>8. \A d \in Conns : conn'[d] \in InPush <=> conn[d] \in InPush
    BY <1>3, <2>1 DEF InPush
  <2> QED
    BY <1>1, <1>2, <2>5, <2>6, <2>7, <2>8, NotMoved DEF IndInv
<1>6. CASE ConnEnds(c)
  <2>1. /\ conn[c] = "open" /\ conn' = [conn EXCEPT ![c] = "over"] /\ active' = active - 1
        /\ wg' = wg - 1 /\ UNCHANGED <<listening, acceptor>>
    BY <1>6 DEF ConnEnds
  <2>2. c \in Open /\ c \in Active
    BY <2>1 DEF Open, Active
  <2>3. "over" \in ConnStates
    BY DEF ConnStates
  <2>4. /\ Cardinality(Open') = Cardinality(Open) - 1
        /\ Cardinality(Active') = Cardinality(Active) - 1
        /\ Cardinality(Open) \in Nat /\ Cardinality(Active) \in Nat
    BY <1>1, <2>1, <2>2, <2>3, OpenCount, ActiveCount
  <2>5. Cardinality(Open') \in Nat /\ Cardinality(Active') \in Nat
    <3>1. IsFiniteSet(Open') /\ IsFiniteSet(Active')
      BY TelemetryAssumption, FS_Subset DEF Open, Active
    <3> QED
      BY <3>1, FS_CardinalityType
  <2>6. Accounting'
    BY <1>1, <1>3, <2>1, <2>4, <2>5 DEF Accounting
  <2>7. wg' \in Nat /\ active' \in Nat
    BY <1>3, <2>1, <2>5, <2>6 DEF Accounting
  <2>8. Stopping'
    <3>1. Open' \subseteq Open
      BY <1>3, <2>1 DEF Open
    <3> QED
      BY <1>1, <1>2, <2>1, <2>2, <3>1 DEF Stopping
  <2>9. TypeOK'
    BY <1>1, <1>2, <2>1, <2>3, <2>7 DEF TypeOK, work
  <2>10. \A d \in Conns : conn'[d] \in InPush <=> conn[d] \in InPush
    BY <1>3, <2>1 DEF InPush
  <2> QED
    BY <1>1, <1>2, <2>6, <2>8, <2>9, <2>10, NotMoved DEF IndInv
<1> QED
  BY <1>4, <1>5, <1>6

\* acceptLoop ends, whatever connections there are.
LEMMA AcceptFailsKeeps == IndInv /\ AcceptFails => IndInv'
<1> SUFFICES ASSUME IndInv, AcceptFails PROVE IndInv'
  OBVIOUS
<1>1. TypeOK /\ Accounting /\ Stopping /\ Placed /\ InOrder /\ DropsCounted /\ CallsInOrder
  BY DEF IndInv
<1>2. UNCHANGED <<read, queue, qClosed, work, stop, call, dropCount, fate>>
  BY DEF AcceptFails
<1>3. acceptor /\ acceptor' = FALSE /\ wg' = wg - 1 /\ UNCHANGED <<listening, conn, active>>
  BY DEF AcceptFails
<1>4. Open' = Open /\ Active' = Active
  BY <1>3 DEF Open, Active
<1>5. Cardinality(Open) \in Nat
  <2>1. IsFiniteSet(Open)
    BY TelemetryAssumption, FS_Subset DEF Open
  <2> QED
    BY <2>1, FS_CardinalityType
<1>6. wg = Cardinality(Open) + 1 /\ active = Cardinality(Active)
  BY <1>1, <1>3 DEF Accounting
<1>7. Accounting' /\ wg' \in Nat
  BY <1>3, <1>4, <1>5, <1>6 DEF Accounting
<1>8. Stopping'
  BY <1>1, <1>2, <1>3, <1>4 DEF Stopping
<1>9. TypeOK'
  BY <1>1, <1>2, <1>3, <1>7 DEF TypeOK, work
<1> QED
  BY <1>1, <1>2, <1>3, <1>7, <1>8, <1>9, NotMoved DEF IndInv

\* In and around Push a line of c is in the hands of its connection.
LEMMA InHand ==
  ASSUME IndInv, NEW c \in Conns, conn[c] \in InPush
  PROVE  /\ Line(c) \in TcpLines /\ fate[Line(c)] = "pushing"
         /\ \A l \in TcpLines : l[1] = c /\ l # Line(c) => l[2] # read[c]
<1>1. read[c] \in Nat /\ read[c] > 0 /\ read[c] <= MaxLines[c]
  BY DEF IndInv, TypeOK, Placed
<1>2. Line(c) \in TcpLines
  BY <1>1, LinesAre DEF Line
<1>3. fate[Line(c)] = "pushing"
  BY <1>2 DEF IndInv, Placed, Line
<1>4. \A l \in TcpLines : l = <<l[1], l[2]>>
  BY LinesAre
<1> QED
  BY <1>2, <1>3, <1>4 DEF Line

\* Steps of a connection between open and Push change no count.
LEMMA SameCounts ==
  ASSUME IndInv, NEW c \in Conns, conn[c] \in {"open", "push", "full", "retry"},
         NEW s \in {"open", "push", "full", "retry"}, conn' = [conn EXCEPT ![c] = s],
         UNCHANGED <<recv, qClosed, stop>>
  PROVE  Accounting' /\ Stopping' /\ conn' \in [Conns -> ConnStates]
<1>1. c \in Open /\ c \in Active /\ s \in ConnStates
  BY DEF Open, Active, ConnStates
<1>2. Open' = Open /\ Active' = Active
  BY <1>1, OpenCount, ActiveCount DEF IndInv
<1> QED
  BY <1>1, <1>2 DEF IndInv, TypeOK, Accounting, Stopping, recv

\* Frames of calls are not lines of connections.
LEMMA CallsKept ==
  ASSUME IndInv, call' = call, NEW l \in TcpLines, NEW f \in Fates,
         fate' = [fate EXCEPT ![l] = f]
  PROVE  CallsInOrder'
<1>1. \A k \in Calls, n \in 1..MaxFrames : <<k, n>> \in Lines /\ <<k, n>> # l
  BY LinesAre
<1>2. l \in Lines /\ CallsInOrder /\ TypeOK
  BY LinesAre DEF IndInv
<1>3. \A k \in Calls, n \in 1..MaxFrames : fate'[<<k, n>>] = fate[<<k, n>>]
  BY <1>1, <1>2, Moved
<1> QED
  BY <1>2, <1>3, CallsStay

\* A line is read.
LEMMA ReadKeeps ==
  ASSUME IndInv, NEW c \in Conns, ReadLine(c)
  PROVE  IndInv'
<1>1. TypeOK /\ Accounting /\ Stopping /\ Placed /\ InOrder /\ DropsCounted /\ CallsInOrder
  BY DEF IndInv
<1> DEFINE l == <<c, read[c] + 1>>
<1>2. /\ conn[c] = "open" /\ conn' = [conn EXCEPT ![c] = "push"] /\ read[c] < MaxLines[c]
      /\ read' = [read EXCEPT ![c] = @ + 1]
      /\ UNCHANGED <<call, recv, queue, qClosed, work, stop, dropCount>>
  BY DEF ReadLine
<1>3. read[c] \in Nat /\ MaxLines[c] \in Nat /\ read \in [Conns -> Nat]
  BY <1>1, TelemetryAssumption DEF TypeOK
<1>4. fate' = [fate EXCEPT ![l] = "pushing"]
  BY <1>2, <1>3 DEF ReadLine
<1>5. l \in TcpLines /\ l \in Lines
  BY <1>2, <1>3, LinesAre
<1>6. fate[l] = "unread"
  BY <1>1, <1>3, <1>5 DEF Placed
<1>7. /\ fate' \in [Lines -> Fates] /\ fate'[l] = "pushing"
      /\ \A m \in Lines : m # l => fate'[m] = fate[m]
  BY <1>1, <1>4, <1>5, Moved DEF Fates
<1>8. Accounting' /\ Stopping' /\ conn' \in [Conns -> ConnStates]
  BY <1>2, SameCounts
<1>9. TypeOK'
  BY <1>1, <1>2, <1>3, <1>7, <1>8 DEF TypeOK, recv, work
<1>10. CallsInOrder'
  BY <1>2, <1>4, <1>5, CallsKept DEF Fates
<1>11. DropsCounted'
  BY <1>1, <1>2, <1>6, <1>7, NoneDropped
<1>12. \A m \in TcpLines : /\ m \in Lines /\ m[1] \in Conns /\ m[2] \in Nat
                           /\ m = <<m[1], m[2]>>
  BY LinesAre
<1>13. /\ conn'[c] = "push" /\ \A d \in Conns : d # c => conn'[d] = conn[d] /\ read'[d] = read[d]
       /\ read'[c] = read[c] + 1
  BY <1>1, <1>2, <1>3 DEF TypeOK
<1>14. /\ l[1] = c /\ l[2] = read[c] + 1
       /\ \A m \in TcpLines : m # l /\ m[1] = c => m[2] # read[c] + 1
  BY <1>12
<1> HIDE DEF l
<1>15. Placed'
  <2>1. ASSUME NEW m \in TcpLines
        PROVE  /\ (fate[m] = "unread" <=> m[2] > read[m[1]])'
               /\ (fate[m] = "pushing" <=> conn[m[1]] \in InPush /\ m[2] = read[m[1]])'
               /\ (fate[m] = "queued" <=> \E i \in 1..Len(queue) : queue[i] = m)'
               /\ (fate[m] = "working" <=> worker = "process" /\ item = m)'
               /\ (fate[m] # "lost")'
    <3>1. CASE m = l
      BY <1>1, <1>2, <1>3, <1>5, <1>6, <1>7, <1>13, <1>14, <3>1 DEF Placed, InPush, work
    <3>2. CASE m # l
      <4>1. fate'[m] = fate[m]
        BY <1>7, <1>12, <3>2
      <4>2. CASE m[1] = c
        <5>1. m[2] # read[c] + 1 /\ m[2] \in Nat
          BY <1>12, <1>14, <3>2, <4>2
        <5>2. fate[m] # "pushing"
          BY <1>1, <1>2, <4>2 DEF Placed, InPush
        <5> QED
          BY <1>1, <1>2, <1>3, <1>13, <4>1, <4>2, <5>1, <5>2 DEF Placed, work
      <4>3. CASE m[1] # c
        BY <1>1, <1>2, <1>12, <1>13, <4>1, <4>3 DEF Placed, work, InPush
      <4> QED
        BY <4>2, <4>3
    <3> QED
      BY <3>1, <3>2
  <2>2. \A d \in Conns : conn'[d] \in InPush => read'[d] > 0
    BY <1>1, <1>3, <1>13 DEF Placed, InPush
  <2> QED
    BY <1>1, <1>2, <2>1, <2>2 DEF Placed, work, TcpLines, InPush
<1>16. InOrder'
  BY <1>1, <1>2, <1>6, <1>7, <1>12 DEF InOrder, TcpLines
<1> QED
  BY <1>8, <1>9, <1>10, <1>11, <1>15, <1>16 DEF IndInv

\* A line enters the queue, from a connection in Push.
LEMMA EnterKeeps ==
  ASSUME IndInv, NEW c \in Conns, conn[c] \in InPush, Enter(c),
         UNCHANGED <<call, recv, read, qClosed, work, stop>>
  PROVE  IndInv'
<1>1. TypeOK /\ Accounting /\ Stopping /\ Placed /\ InOrder /\ DropsCounted /\ CallsInOrder
  BY DEF IndInv
<1> DEFINE l == Line(c)
<1>2. /\ queue' = Append(queue, l) /\ fate' = [fate EXCEPT ![l] = "queued"]
      /\ conn' = [conn EXCEPT ![c] = "open"] /\ dropCount' = dropCount
      /\ Len(queue) < BufferSize
  BY DEF Enter
<1>3. l \in TcpLines /\ l \in Lines /\ fate[l] = "pushing"
  BY InHand, LinesAre
<1>4. /\ fate' \in [Lines -> Fates] /\ fate'[l] = "queued"
      /\ \A m \in Lines : m # l => fate'[m] = fate[m]
  BY <1>1, <1>2, <1>3, Moved DEF Fates
<1>5. Accounting' /\ Stopping' /\ conn' \in [Conns -> ConnStates]
  BY <1>2, SameCounts DEF InPush
<1>6. queue \in Seq(Lines) /\ Len(queue) \in Nat /\ BufferSize \in Nat
  BY <1>1, TelemetryAssumption DEF TypeOK
<1>7. /\ queue' \in Seq(Lines) /\ Len(queue') = Len(queue) + 1 /\ queue'[Len(queue) + 1] = l
      /\ \A i \in 1..Len(queue) : queue'[i] = queue[i]
  BY <1>2, <1>3, <1>6
<1>8. TypeOK'
  BY <1>1, <1>2, <1>4, <1>5, <1>6, <1>7 DEF TypeOK, recv, work
<1>9. CallsInOrder'
  BY <1>2, <1>3, CallsKept DEF Fates
<1>10. DropsCounted'
  BY <1>1, <1>2, <1>3, <1>4, NoneDropped
<1>11. \A m \in TcpLines : m \in Lines /\ m[1] \in Conns /\ m[2] \in Nat
  BY LinesAre
<1>12. /\ l[1] = c /\ l[2] = read[c] /\ read[c] \in Nat /\ read' = read /\ work' = work
       /\ \A m \in TcpLines : m[1] = c /\ m # l => m[2] # read[c]
  BY <1>1, InHand DEF TypeOK, Line
<1>13. conn'[c] = "open" /\ \A d \in Conns : d # c => conn'[d] = conn[d]
  BY <1>1, <1>2 DEF TypeOK
<1>14. \A i \in 1..Len(queue) : queue[i] \in TcpLines /\ fate[queue[i]] = "queued"
  BY <1>1 DEF Placed
<1> HIDE DEF l
<1>15. Placed'
  <2>1. ASSUME NEW m \in TcpLines
        PROVE  /\ (fate[m] = "unread" <=> m[2] > read[m[1]])'
               /\ (fate[m] = "pushing" <=> conn[m[1]] \in InPush /\ m[2] = read[m[1]])'
               /\ (fate[m] = "queued" <=> \E i \in 1..Len(queue) : queue[i] = m)'
               /\ (fate[m] = "working" <=> worker = "process" /\ item = m)'
               /\ (fate[m] # "lost")'
    <3>1. CASE m = l
      <4>1. \E i \in 1..Len(queue') : queue'[i] = m
        BY <1>6, <1>7, <3>1
      <4>2. m[2] = read[m[1]] /\ conn'[m[1]] \notin InPush /\ ~(worker = "process" /\ item = m)
        BY <1>1, <1>3, <1>12, <1>13, <3>1 DEF Placed, InPush
      <4> QED
        BY <1>4, <1>12, <3>1, <4>1, <4>2 DEF work, InPush
    <3>2. CASE m # l
      <4>1. fate'[m] = fate[m] /\ m[1] \in Conns /\ m[2] \in Nat
        BY <1>4, <1>11, <3>2
      <4>2. (\E i \in 1..Len(queue') : queue'[i] = m) <=> (\E i \in 1..Len(queue) : queue[i] = m)
        BY <1>6, <1>7, <3>2
      <4>3. fate[m] = "queued" <=> \E i \in 1..Len(queue) : queue[i] = m
        BY <1>1 DEF Placed
      <4>4. (fate[m] = "pushing" <=> conn[m[1]] \in InPush /\ m[2] = read[m[1]])'
        BY <1>1, <1>12, <1>13, <3>2, <4>1 DEF Placed, InPush
      <4> QED
        BY <1>1, <1>12, <4>1, <4>2, <4>3, <4>4 DEF Placed, work
    <3> QED
      BY <3>1, <3>2
  <2>2. \A i \in 1..Len(queue') : queue'[i] \in TcpLines
    BY <1>3, <1>6, <1>7, <1>14
  <2>3. (worker = "process" => item \in TcpLines)'
    BY <1>1, <1>12 DEF Placed, work, TcpLines
  <2>4. \A d \in Conns : conn'[d] \in InPush => read'[d] > 0
    BY <1>1, <1>12, <1>13 DEF Placed, InPush
  <2> QED
    BY <2>1, <2>2, <2>3, <2>4 DEF Placed, TcpLines, InPush
<1>16. InOrder'
  <2>1. ASSUME NEW i \in 1..Len(queue'), NEW j \in 1..Len(queue'),
               i < j, queue'[i][1] = queue'[j][1]
        PROVE  queue'[i][2] < queue'[j][2]
    <3>1. i \in 1..Len(queue)
      BY <1>6, <1>7, <2>1
    <3>2. CASE j \in 1..Len(queue)
      BY <1>1, <1>7, <2>1, <3>1, <3>2 DEF InOrder
    <3>3. CASE j = Len(queue) + 1
      <4>1. /\ queue[i] \in TcpLines /\ fate[queue[i]] = "queued" /\ queue[i][1] = c
            /\ queue[i] # l
        BY <1>3, <1>7, <1>12, <1>14, <2>1, <3>1, <3>3
      <4>2. ~(queue[i][2] > read[c]) /\ queue[i][2] # read[c] /\ queue[i][2] \in Nat
        BY <1>1, <1>11, <1>12, <4>1 DEF Placed
      <4> QED
        BY <1>7, <1>12, <3>1, <3>3, <4>2
    <3> QED
      BY <1>6, <1>7, <3>2, <3>3
  <2>2. ASSUME NEW k \in TcpLines, NEW m \in TcpLines, k[1] = m[1], k[2] < m[2],
               fate'[m] \in {"working", "published"}
        PROVE  fate'[k] \in {"published", "dropped"}
    <3>1. m # l /\ fate[m] = fate'[m]
      BY <1>4, <1>11, <2>2
    <3>2. fate[k] \in {"published", "dropped"}
      BY <1>1, <2>2, <3>1 DEF InOrder
    <3> QED
      BY <1>3, <1>4, <1>11, <3>2
  <2> QED
    BY <2>1, <2>2 DEF InOrder, TcpLines
<1> QED
  BY <1>5, <1>8, <1>9, <1>10, <1>15, <1>16 DEF IndInv

\* A pusher that finds the queue full, or nothing to throw away, moves no line.
LEMMA WaitsKeeps ==
  ASSUME IndInv, NEW c \in Conns, conn[c] \in InPush, NEW s \in InPush,
         conn' = [conn EXCEPT ![c] = s],
         UNCHANGED <<call, recv, read, queue, qClosed, work, stop, dropCount, fate>>
  PROVE  IndInv'
<1>1. TypeOK /\ Accounting /\ Stopping /\ Placed /\ InOrder /\ DropsCounted /\ CallsInOrder
  BY DEF IndInv
<1>2. Accounting' /\ Stopping' /\ conn' \in [Conns -> ConnStates]
  BY SameCounts DEF InPush
<1>3. \A d \in Conns : conn'[d] \in InPush <=> conn[d] \in InPush
  BY <1>1 DEF TypeOK, InPush
<1>4. Placed' /\ InOrder' /\ DropsCounted' /\ CallsInOrder'
  BY <1>1, <1>3, NotMoved
<1>5. TypeOK'
  BY <1>1, <1>2 DEF TypeOK, recv, work
<1> QED
  BY <1>2, <1>4, <1>5 DEF IndInv

\* The line at the head of the queue leaves it for one of two fates.
LEMMA HeadLeaves ==
  ASSUME IndInv, queue # << >>, NEW f \in {"dropped", "working"},
         queue' = Tail(queue), fate' = [fate EXCEPT ![Head(queue)] = f], read' = read,
         IF f = "working"
           THEN worker = "pop" /\ worker' = "process" /\ item' = Head(queue)
           ELSE worker' = worker /\ item' = item,
         \A c \in Conns : conn'[c] \in InPush <=> conn[c] \in InPush
  PROVE  /\ Placed' /\ InOrder' /\ Head(queue) \in TcpLines
         /\ queue' \in Seq(Lines) /\ Len(queue') = Len(queue) - 1
<1>1. TypeOK /\ Placed /\ InOrder
  BY DEF IndInv
<1> DEFINE h == Head(queue)
<1>2. /\ queue \in Seq(Lines) /\ Len(queue) \in Nat /\ Len(queue) > 0 /\ h = queue[1]
      /\ queue' \in Seq(Lines) /\ Len(queue') = Len(queue) - 1
      /\ \A i \in 1..Len(queue') : queue'[i] = queue[i + 1]
  BY <1>1 DEF TypeOK
<1>3. h \in TcpLines /\ h \in Lines /\ fate[h] = "queued"
  BY <1>1, <1>2, LinesAre DEF Placed
<1>4. \A m \in TcpLines : m \in Lines /\ m[1] \in Conns /\ m[2] \in Nat
  BY LinesAre
<1>5. fate'[h] = f /\ \A m \in TcpLines : m # h => fate'[m] = fate[m]
  BY <1>1, <1>3, <1>4 DEF TypeOK
<1>6. \A i \in 1..Len(queue) : queue[i] \in TcpLines /\ fate[queue[i]] = "queued"
  BY <1>1 DEF Placed
<1>7. \A i \in 2..Len(queue) : queue[i] # h /\ (queue[i][1] = h[1] => h[2] < queue[i][2])
  BY <1>1, <1>2, <1>3, <1>4 DEF InOrder
<1>8. \A c \in Conns : read[c] \in Nat
  BY <1>1 DEF TypeOK
<1> HIDE DEF h
<1>9. Placed'
  <2>1. ASSUME NEW m \in TcpLines
        PROVE  /\ (fate[m] = "unread" <=> m[2] > read[m[1]])'
               /\ (fate[m] = "pushing" <=> conn[m[1]] \in InPush /\ m[2] = read[m[1]])'
               /\ (fate[m] = "queued" <=> \E i \in 1..Len(queue) : queue[i] = m)'
               /\ (fate[m] = "working" <=> worker = "process" /\ item = m)'
               /\ (fate[m] # "lost")'
    <3>1. CASE m = h
      <4>1. ~ \E i \in 1..Len(queue') : queue'[i] = m
        BY <1>2, <1>7, <3>1
      <4>2. fate[m] # "unread" /\ fate[m] # "pushing" /\ fate[m] # "working"
        BY <1>3, <3>1
      <4>3. ~(m[2] > read[m[1]]) /\ ~(conn[m[1]] \in InPush /\ m[2] = read[m[1]])
        BY <1>1, <4>2 DEF Placed
      <4>4. fate'[m] = "working" <=> worker' = "process" /\ item' = m
        BY <1>1, <1>5, <3>1, <4>2 DEF Placed, h
      <4> QED
        BY <1>4, <1>5, <3>1, <4>1, <4>3, <4>4 DEF InPush
    <3>2. CASE m # h
      <4>1. fate'[m] = fate[m] /\ m[1] \in Conns
        BY <1>4, <1>5, <3>2
      <4>2. (\E i \in 1..Len(queue') : queue'[i] = m) <=> (\E i \in 1..Len(queue) : queue[i] = m)
        <5>1. ASSUME NEW i \in 1..Len(queue), queue[i] = m
              PROVE  i - 1 \in 1..Len(queue') /\ queue'[i - 1] = m
          BY <1>2, <3>2, <5>1
        <5>2. ASSUME NEW i \in 1..Len(queue'), queue'[i] = m
              PROVE  i + 1 \in 1..Len(queue) /\ queue[i + 1] = m
          BY <1>2, <5>2
        <5> QED
          BY <5>1, <5>2
      <4>3. fate[m] = "queued" <=> \E i \in 1..Len(queue) : queue[i] = m
        BY <1>1 DEF Placed
      <4>4. fate'[m] = "working" <=> worker' = "process" /\ item' = m
        BY <1>1, <3>2, <4>1 DEF Placed, h
      <4> QED
        BY <1>1, <4>1, <4>2, <4>3, <4>4 DEF Placed, InPush
    <3> QED
      BY <3>1, <3>2
  <2>2. \A i \in 1..Len(queue') : queue'[i] \in TcpLines
    BY <1>2, <1>6
  <2>3. worker' = "process" => item' \in TcpLines
    BY <1>1, <1>3 DEF Placed, h
  <2>4. \A d \in Conns : conn'[d] \in InPush => read'[d] > 0
    BY <1>1 DEF Placed, InPush
  <2> QED
    BY <2>1, <2>2, <2>3, <2>4 DEF Placed, TcpLines, InPush
<1>10. InOrder'
  <2>1. ASSUME NEW i \in 1..Len(queue'), NEW j \in 1..Len(queue'),
               i < j, queue'[i][1] = queue'[j][1]
        PROVE  queue'[i][2] < queue'[j][2]
    <3>1. i + 1 \in 1..Len(queue) /\ j + 1 \in 1..Len(queue) /\ i + 1 < j + 1
      BY <1>2, <2>1
    <3> QED
      BY <1>1, <1>2, <2>1, <3>1 DEF InOrder
  <2>2. ASSUME NEW k \in TcpLines, NEW m \in TcpLines, k[1] = m[1], k[2] < m[2],
               fate'[m] \in {"working", "published"}
        PROVE  fate'[k] \in {"published", "dropped"}
    <3>1. CASE m # h
      <4>1. fate[k] \in {"published", "dropped"}
        BY <1>1, <1>5, <2>2, <3>1 DEF InOrder
      <4> QED
        BY <1>3, <1>5, <4>1
    <3>2. CASE m = h
      <4>1. worker = "pop" /\ k # h
        BY <1>4, <1>5, <2>2, <3>2
      <4>2. ~(h[2] > read[h[1]]) /\ h[2] \in Nat /\ read[h[1]] \in Nat /\ k[2] \in Nat
        BY <1>1, <1>3, <1>4, <1>8 DEF Placed
      <4>3. fate[k] # "unread" /\ fate[k] # "pushing"
        BY <1>1, <2>2, <3>2, <4>2 DEF Placed
      <4>4. \A i \in 1..Len(queue) : queue[i] # k
        <5> SUFFICES ASSUME NEW i \in 1..Len(queue), queue[i] = k PROVE FALSE
          OBVIOUS
        <5>1. i \in 2..Len(queue)
          BY <1>2, <4>1
        <5> QED
          BY <1>7, <2>2, <3>2, <4>2, <5>1
      <4>5. fate[k] # "queued" /\ fate[k] # "working" /\ fate[k] # "lost"
        BY <1>1, <4>1, <4>4 DEF Placed
      <4>6. fate[k] \in Fates
        BY <1>1, <1>4 DEF TypeOK
      <4> QED
        BY <1>5, <4>1, <4>3, <4>5, <4>6 DEF Fates
    <3> QED
      BY <3>1, <3>2
  <2> QED
    BY <2>1, <2>2 DEF InOrder, TcpLines
<1> QED
  BY <1>2, <1>3, <1>9, <1>10 DEF h

\* A line leaves the hand of a pusher, or of the worker, for good.
LEMMA HandLeaves ==
  ASSUME IndInv, NEW l \in TcpLines, NEW f \in {"published", "dropped"},
         fate' = [fate EXCEPT ![l] = f], queue' = queue, read' = read,
         \/ /\ fate[l] = "pushing" /\ f = "dropped" /\ worker' = worker /\ item' = item
            /\ \A c \in Conns : conn'[c] \in InPush <=> conn[c] \in InPush /\ c # l[1]
         \/ /\ fate[l] = "working" /\ worker' = "top"
            /\ \A c \in Conns : conn'[c] \in InPush <=> conn[c] \in InPush
  PROVE  Placed' /\ InOrder'
<1>1. TypeOK /\ Placed /\ InOrder
  BY DEF IndInv
<1>2. \A m \in TcpLines : m \in Lines /\ m[1] \in Conns /\ m[2] \in Nat /\ m = <<m[1], m[2]>>
  BY LinesAre
<1>3. fate'[l] = f /\ \A m \in TcpLines : m # l => fate'[m] = fate[m]
  BY <1>1, <1>2 DEF TypeOK
<1>4. \A m \in TcpLines : (fate[m] = "queued") = (\E i \in 1..Len(queue) : queue[i] = m)
  BY <1>1 DEF Placed
<1>5. ASSUME NEW m \in TcpLines
      PROVE  /\ (fate[m] = "unread" <=> m[2] > read[m[1]])'
             /\ (fate[m] = "pushing" <=> conn[m[1]] \in InPush /\ m[2] = read[m[1]])'
             /\ (fate[m] = "queued" <=> \E i \in 1..Len(queue) : queue[i] = m)'
             /\ (fate[m] = "working" <=> worker = "process" /\ item = m)'
             /\ (fate[m] # "lost")'
  <2>1. m[1] \in Conns /\ l[1] \in Conns /\ (m # l /\ m[1] = l[1] => m[2] # l[2])
    BY <1>2
  <2>2. CASE fate[l] = "pushing"
    <3>1. l[2] = read[l[1]] /\ worker' = worker /\ item' = item
      BY <1>1, <2>2 DEF Placed
    <3>2. (fate[m] = "pushing" <=> conn[m[1]] \in InPush /\ m[2] = read[m[1]])'
      BY <1>1, <1>3, <2>1, <2>2, <3>1 DEF Placed, InPush
    <3>3. (fate[m] = "queued" <=> \E i \in 1..Len(queue) : queue[i] = m)'
      BY <1>3, <1>4, <2>2
    <3> QED
      BY <1>1, <1>3, <2>2, <3>1, <3>2, <3>3 DEF Placed
  <2>3. CASE fate[l] = "working"
    <3>1. worker = "process" /\ item = l /\ worker' = "top"
      BY <1>1, <2>3 DEF Placed
    <3>2. (fate[m] = "pushing" <=> conn[m[1]] \in InPush /\ m[2] = read[m[1]])'
      BY <1>1, <1>3, <2>1, <2>3 DEF Placed, InPush
    <3>3. (fate[m] = "queued" <=> \E i \in 1..Len(queue) : queue[i] = m)'
      BY <1>3, <1>4, <2>3
    <3> QED
      BY <1>1, <1>3, <2>3, <3>1, <3>2, <3>3 DEF Placed
  <2> QED
    BY <2>2, <2>3
<1>6. \A d \in Conns : conn'[d] \in InPush => read'[d] > 0
  BY <1>1 DEF Placed, InPush
<1>7. worker' = "process" => item' \in TcpLines
  BY <1>1 DEF Placed
<1>8. Placed'
  BY <1>1, <1>5, <1>6, <1>7 DEF Placed, TcpLines, InPush
<1>9. ASSUME NEW k \in TcpLines, NEW m \in TcpLines, k[1] = m[1], k[2] < m[2],
             fate'[m] \in {"working", "published"}
      PROVE  fate'[k] \in {"published", "dropped"}
  <2>1. CASE m # l
    BY <1>1, <1>3, <1>9, <2>1 DEF InOrder
  <2>2. CASE m = l /\ fate[l] = "working"
    BY <1>1, <1>3, <1>9, <2>2 DEF InOrder
  <2>3. CASE m = l /\ fate[l] = "pushing"
    BY <1>1, <1>3, <1>9, <2>3 DEF InOrder
  <2> QED
    BY <2>1, <2>2, <2>3
<1>10. InOrder'
  BY <1>1, <1>9 DEF InOrder, TcpLines
<1> QED
  BY <1>8, <1>10

\* Push, in all of its selects.
LEMMA PushKeeps ==
  ASSUME IndInv, NEW c \in Conns, Push(c)
  PROVE  IndInv'
<1>1. TypeOK /\ Accounting /\ Stopping /\ Placed /\ InOrder /\ DropsCounted /\ CallsInOrder
  BY DEF IndInv
<1>2. conn[c] \in InPush /\ UNCHANGED <<call, recv, read, qClosed, work, stop>>
  BY DEF Push, PushTry, DropOldest, PushAgain, InPush
<1>3. CASE Enter(c)
  BY <1>2, <1>3, EnterKeeps
<1>4. CASE /\ UNCHANGED <<queue, dropCount, fate>>
           /\ \E s \in InPush : conn' = [conn EXCEPT ![c] = s]
  BY <1>2, <1>4, WaitsKeeps
<1>5. CASE /\ conn[c] = "full" /\ conn' = [conn EXCEPT ![c] = "retry"] /\ queue # << >>
           /\ queue' = Tail(queue) /\ fate' = [fate EXCEPT ![Head(queue)] = "dropped"]
           /\ dropCount' = dropCount + 1
  <2>1. Accounting' /\ Stopping' /\ conn' \in [Conns -> ConnStates]
    BY <1>2, <1>5, SameCounts
  <2>2. \A d \in Conns : conn'[d] \in InPush <=> conn[d] \in InPush
    BY <1>1, <1>5 DEF TypeOK, InPush
  <2>3. worker' = worker /\ item' = item /\ read' = read
    BY <1>2 DEF work
  <2>4. /\ Placed' /\ InOrder' /\ Head(queue) \in TcpLines
        /\ queue' \in Seq(Lines) /\ Len(queue') = Len(queue) - 1
    BY <1>5, <2>2, <2>3, HeadLeaves
  <2>5. Head(queue) \in Lines /\ fate[Head(queue)] = "queued"
    <3>1. 1 \in 1..Len(queue) /\ Head(queue) = queue[1]
      BY <1>1, <1>5 DEF TypeOK
    <3> QED
      BY <1>1, <2>4, <3>1, LinesAre DEF Placed
  <2>6. /\ fate' \in [Lines -> Fates] /\ fate'[Head(queue)] = "dropped"
        /\ \A m \in Lines : m # Head(queue) => fate'[m] = fate[m]
    BY <1>1, <1>5, <2>5, Moved DEF Fates
  <2>7. DropsCounted'
    BY <1>1, <1>5, <2>5, <2>6, OneMoreDropped
  <2>8. CallsInOrder'
    BY <1>2, <1>5, <2>4, CallsKept DEF Fates
  <2>9. Len(queue') <= BufferSize /\ dropCount' \in Nat
    BY <1>1, <1>5, <2>4, TelemetryAssumption DEF TypeOK
  <2>10. TypeOK'
    BY <1>1, <1>2, <2>1, <2>4, <2>6, <2>9 DEF TypeOK, recv, work
  <2> QED
    BY <2>1, <2>4, <2>7, <2>8, <2>10 DEF IndInv
<1>6. CASE /\ conn[c] = "retry" /\ conn' = [conn EXCEPT ![c] = "open"] /\ queue' = queue
           /\ fate' = [fate EXCEPT ![Line(c)] = "dropped"] /\ dropCount' = dropCount + 1
  <2>1. Accounting' /\ Stopping' /\ conn' \in [Conns -> ConnStates]
    BY <1>2, <1>6, SameCounts
  <2>2. Line(c) \in TcpLines /\ fate[Line(c)] = "pushing" /\ Line(c)[1] = c
    BY <1>2, InHand DEF Line
  <2>3. \A d \in Conns : conn'[d] \in InPush <=> conn[d] \in InPush /\ d # Line(c)[1]
    BY <1>1, <1>6, <2>2 DEF TypeOK, InPush
  <2>4. worker' = worker /\ item' = item /\ read' = read
    BY <1>2 DEF work
  <2>5. Placed' /\ InOrder'
    BY <1>6, <2>2, <2>3, <2>4, HandLeaves
  <2>6. /\ fate' \in [Lines -> Fates] /\ fate'[Line(c)] = "dropped" /\ Line(c) \in Lines
        /\ \A m \in Lines : m # Line(c) => fate'[m] = fate[m]
    BY <1>1, <1>6, <2>2, LinesAre, Moved DEF Fates
  <2>7. DropsCounted'
    BY <1>1, <1>6, <2>2, <2>6, OneMoreDropped
  <2>8. CallsInOrder'
    BY <1>2, <1>6, <2>2, CallsKept DEF Fates
  <2>9. TypeOK'
    BY <1>1, <1>2, <1>6, <2>1, <2>6 DEF TypeOK, recv, work
  <2> QED
    BY <2>1, <2>5, <2>7, <2>8, <2>9 DEF IndInv
<1> QED
  BY <1>3, <1>4, <1>5, <1>6 DEF Push, PushTry, DropOldest, PushAgain, InPush

\* The worker, and the parser it is given.
LEMMA WorkKeeps ==
  ASSUME IndInv, Work \/ SetParser
  PROVE  IndInv'
<1>1. TypeOK /\ Accounting /\ Stopping /\ Placed /\ InOrder /\ DropsCounted /\ CallsInOrder
  BY DEF IndInv
<1>2. UNCHANGED <<call, recv, conn, read, qClosed, stop>>
  BY DEF Work, SetParser, WorkerTop, Pop, PopEnds, Process
<1>3. Accounting' /\ Stopping'
  <2>1. Open' = Open /\ Active' = Active
    BY <1>2 DEF Open, Active
  <2> QED
    BY <1>1, <1>2, <2>1 DEF Accounting, Stopping, recv
<1>4. CASE /\ UNCHANGED <<queue, item, dropCount, fate>>
           /\ worker' = "process" <=> worker = "process"
           /\ worker' \in {"top", "pop", "process", "exited"} /\ parserSet' \in BOOLEAN
  <2>1. Placed' /\ InOrder'
    BY <1>1, <1>2, <1>4, Undisturbed
  <2>2. DropsCounted' /\ CallsInOrder'
    BY <1>1, <1>2, <1>4, NoneDropped, CallsStay
  <2>3. TypeOK'
    BY <1>1, <1>2, <1>4 DEF TypeOK, recv
  <2> QED
    BY <1>3, <2>1, <2>2, <2>3 DEF IndInv
<1>5. CASE Pop
  <2>1. /\ queue # << >> /\ queue' = Tail(queue) /\ item' = Head(queue) /\ worker = "pop"
        /\ fate' = [fate EXCEPT ![Head(queue)] = "working"] /\ worker' = "process"
        /\ parserSet' = parserSet /\ dropCount' = dropCount
    BY <1>5 DEF Pop
  <2>2. /\ Placed' /\ InOrder' /\ Head(queue) \in TcpLines
        /\ queue' \in Seq(Lines) /\ Len(queue') = Len(queue) - 1
    BY <1>2, <2>1, HeadLeaves
  <2>3. Head(queue) \in Lines /\ fate[Head(queue)] = "queued"
    <3>1. 1 \in 1..Len(queue) /\ Head(queue) = queue[1]
      BY <1>1, <2>1 DEF TypeOK
    <3> QED
      BY <1>1, <2>2, <3>1, LinesAre DEF Placed
  <2>4. /\ fate' \in [Lines -> Fates] /\ fate'[Head(queue)] = "working"
        /\ \A m \in Lines : m # Head(queue) => fate'[m] = fate[m]
    BY <1>1, <2>1, <2>3, Moved DEF Fates
  <2>5. DropsCounted'
    BY <1>1, <2>1, <2>3, <2>4, NoneDropped
  <2>6. CallsInOrder'
    BY <1>2, <2>1, <2>2, CallsKept DEF Fates
  <2>7. Len(queue') <= BufferSize
    BY <1>1, <2>2, TelemetryAssumption DEF TypeOK
  <2>8. TypeOK'
    BY <1>1, <1>2, <2>1, <2>2, <2>3, <2>4, <2>7 DEF TypeOK, recv
  <2> QED
    BY <1>3, <2>2, <2>5, <2>6, <2>8 DEF IndInv
<1>6. CASE Process
  <2>1. /\ worker = "process" /\ worker' = "top" /\ item' = << >>
        /\ UNCHANGED <<queue, parserSet>>
    BY <1>6 DEF Process
  <2>2. PICK f \in {"published", "dropped"} :
          /\ fate' = [fate EXCEPT ![item] = f]
          /\ dropCount' = IF f = "dropped" THEN dropCount + 1 ELSE dropCount
    BY <1>6 DEF Process
  <2>3. item \in TcpLines /\ item \in Lines /\ fate[item] = "working"
    BY <1>1, <2>1, LinesAre DEF Placed
  <2>4. Placed' /\ InOrder'
    BY <1>2, <2>1, <2>2, <2>3, HandLeaves
  <2>5. /\ fate' \in [Lines -> Fates] /\ fate'[item] = f
        /\ \A m \in Lines : m # item => fate'[m] = fate[m]
    BY <1>1, <2>2, <2>3, Moved DEF Fates
  <2>6. DropsCounted'
    <3>1. CASE f = "dropped"
      BY <1>1, <2>2, <2>3, <2>5, <3>1, OneMoreDropped
    <3>2. CASE f = "published"
      BY <1>1, <2>2, <2>3, <2>5, <3>2, NoneDropped
    <3> QED
      BY <3>1, <3>2
  <2>7. CallsInOrder'
    BY <1>2, <2>2, <2>3, CallsKept DEF Fates
  <2>8. dropCount' \in Nat
    BY <1>1, <2>2 DEF TypeOK
  <2>9. TypeOK'
    BY <1>1, <1>2, <2>1, <2>5, <2>8 DEF TypeOK, recv
  <2> QED
    BY <1>3, <2>4, <2>6, <2>7, <2>9 DEF IndInv
<1>7. ASSUME WorkerTop \/ PopEnds \/ SetParser
      PROVE  /\ UNCHANGED <<queue, item, dropCount, fate>>
             /\ worker' = "process" <=> worker = "process"
             /\ worker' \in {"top", "pop", "process", "exited"} /\ parserSet' \in BOOLEAN
  <2>1. worker \in {"top", "pop", "process", "exited"} /\ parserSet \in BOOLEAN
    BY <1>1 DEF TypeOK
  <2>2. CASE WorkerTop
    BY <2>1, <2>2 DEF WorkerTop
  <2>3. CASE PopEnds
    BY <2>1, <2>3 DEF PopEnds
  <2>4. CASE SetParser
    BY <2>1, <2>4 DEF SetParser
  <2> QED
    BY <1>7, <2>2, <2>3, <2>4
<1> QED
  BY <1>4, <1>5, <1>6, <1>7 DEF Work

\* Stop: behind wg.Wait both counts are nought, so that acceptLoop has ended
\* and no connection is open; from then on nothing starts one.
LEMMA StopKeeps ==
  ASSUME IndInv, Stop \/ Stops
  PROVE  IndInv'
<1>1. TypeOK /\ Accounting /\ Stopping /\ Placed /\ InOrder /\ DropsCounted /\ CallsInOrder
  BY DEF IndInv
<1>2. UNCHANGED <<call, acceptor, conn, active, wg, read, queue, work, dropCount, fate>>
  BY DEF Stop, Stops, ReceiverStopped, CloseQueue, StopReturns, recv
<1>3. Placed' /\ InOrder' /\ DropsCounted' /\ CallsInOrder'
  BY <1>1, <1>2, NotMoved
<1>4. Open' = Open /\ Active' = Active
  BY <1>2 DEF Open, Active
<1>5. Accounting'
  BY <1>1, <1>2, <1>4 DEF Accounting
<1>6. Stopping'
  <2>1. CASE Stop
    BY <1>1, <1>2, <1>4, <2>1 DEF Stop, Stopping
  <2>2. CASE ReceiverStopped
    <3>1. IsFiniteSet(Open)
      BY TelemetryAssumption, FS_Subset DEF Open
    <3>2. Cardinality(Open) \in Nat /\ (Cardinality(Open) = 0 <=> Open = {})
      BY <3>1, FS_CardinalityType, FS_EmptySet
    <3>3. wg = 0 /\ stop = "receiver" /\ stop' = "stopCh" /\ qClosed' = qClosed
      BY <2>2 DEF ReceiverStopped
    <3>4. wg = Cardinality(Open) + (IF acceptor THEN 1 ELSE 0) /\ acceptor \in BOOLEAN
      BY <1>1 DEF Accounting, TypeOK
    <3>5. ~acceptor /\ Cardinality(Open) = 0
      BY <3>2, <3>3, <3>4
    <3> QED
      BY <1>1, <1>2, <1>4, <3>2, <3>3, <3>5 DEF Stopping
  <2>3. CASE CloseQueue
    BY <1>1, <1>2, <1>4, <2>3 DEF CloseQueue, Stopping
  <2>4. CASE StopReturns
    BY <1>1, <1>2, <1>4, <2>4 DEF StopReturns, Stopping
  <2> QED
    BY <2>1, <2>2, <2>3, <2>4 DEF Stops
<1>7. TypeOK'
  <2>1. /\ listening' \in BOOLEAN /\ qClosed' \in BOOLEAN
        /\ stop' \in {"no", "receiver", "stopCh", "closed", "done"}
    BY <1>1 DEF TypeOK, Stop, Stops, ReceiverStopped, CloseQueue, StopReturns, recv
  <2> QED
    BY <1>1, <1>2, <2>1 DEF TypeOK, work
<1> QED
  BY <1>3, <1>5, <1>6, <1>7 DEF IndInv

-----------------------------------------------------------------------------
\* How many frames of a call are on the bus.
LEMMA FramesCount ==
  \A k \in Calls : Frames(k, {"published"}) \in 0..MaxFrames /\ Frames(k, {"published"})' \in 0..MaxFrames
<1>1. MaxFrames \in Nat
  BY TelemetryAssumption
<1>2. IsFiniteSet(1..MaxFrames) /\ Cardinality(1..MaxFrames) = MaxFrames
  BY <1>1, FS_Interval
<1>3. ASSUME NEW F \in SUBSET (1..MaxFrames) PROVE Cardinality(F) \in 0..MaxFrames
  <2>1. IsFiniteSet(F) /\ Cardinality(F) <= MaxFrames
    BY <1>2, FS_Subset
  <2>2. Cardinality(F) \in Nat
    BY <2>1, FS_CardinalityType
  <2> QED
    BY <1>1, <2>1, <2>2
<1> QED
  BY <1>3 DEF Frames

\* One frame more is on the bus.
LEMMA FrameMore ==
  ASSUME NEW k \in Calls, NEW n \in 1..MaxFrames,
         fate[<<k, n>>] # "published", fate'[<<k, n>>] = "published",
         \A m \in 1..MaxFrames : m # n => fate'[<<k, m>>] = fate[<<k, m>>]
  PROVE  Frames(k, {"published"})' = Frames(k, {"published"}) + 1
<1> DEFINE F == {m \in 1..MaxFrames : fate[<<k, m>>] \in {"published"}}
           G == {m \in 1..MaxFrames : fate'[<<k, m>>] \in {"published"}}
<1>1. MaxFrames \in Nat
  BY TelemetryAssumption
<1>2. IsFiniteSet(1..MaxFrames)
  BY <1>1, FS_Interval
<1>3. IsFiniteSet(F)
  BY <1>2, FS_Subset
<1>4. n \notin F /\ G = F \union {n}
  OBVIOUS
<1> HIDE DEF F, G
<1>5. Cardinality(G) = Cardinality(F) + 1
  BY <1>3, <1>4, FS_AddElement
<1> QED
  BY <1>5 DEF Frames, F, G

\* No frame gets onto the bus, and none leaves it.
LEMMA FramesSame ==
  ASSUME NEW k \in Calls,
         \A n \in 1..MaxFrames : fate'[<<k, n>>] = "published" <=> fate[<<k, n>>] = "published"
  PROVE  Frames(k, {"published"})' = Frames(k, {"published"})
<1>1. {n \in 1..MaxFrames : fate'[<<k, n>>] \in {"published"}}
        = {n \in 1..MaxFrames : fate[<<k, n>>] \in {"published"}}
  OBVIOUS
<1> QED
  BY <1>1 DEF Frames

\* What a step of one call does to the lines.
LEMMA MarkedIs ==
  ASSUME TypeOK, NEW k \in Calls, NEW S, NEW f \in Fates, fate' = Marked(k, S, f)
  PROVE  /\ fate' \in [Lines -> Fates]
         /\ \A n \in 1..MaxFrames : fate'[<<k, n>>] = IF n \in S THEN f ELSE fate[<<k, n>>]
         /\ \A l \in Lines : l[1] # k \/ l[2] \notin S => fate'[l] = fate[l]
         /\ \A l \in Lines : l[1] = k /\ l[2] \in S => fate'[l] = f
<1>1. fate \in [Lines -> Fates] /\ fate' = [l \in Lines |-> IF l[1] = k /\ l[2] \in S THEN f ELSE fate[l]]
  BY DEF TypeOK, Marked
<1>2. \A n \in 1..MaxFrames : <<k, n>> \in Lines /\ <<k, n>>[1] = k /\ <<k, n>>[2] = n
  BY LinesAre
<1>3. \A l \in Lines : fate'[l] = IF l[1] = k /\ l[2] \in S THEN f ELSE fate[l]
  BY <1>1
<1>4. fate' \in [Lines -> Fates]
  BY <1>1
<1>5. \A n \in 1..MaxFrames : fate'[<<k, n>>] = IF n \in S THEN f ELSE fate[<<k, n>>]
  BY <1>2, <1>3
<1> QED
  BY <1>3, <1>4, <1>5

\* A step of one call leaves connections, worker, and other calls alone.
LEMMA CallAlone ==
  ASSUME IndInv, NEW k \in Calls, NEW S, NEW f \in Fates, NEW c \in Reports,
         fate' = Marked(k, S, f) \/ fate' = fate, call' = [call EXCEPT ![k] = c],
         UNCHANGED tcp, dropCount' \in Nat, DropsCounted', Through(k)', Reported(k)'
  PROVE  IndInv'
<1>1. TypeOK /\ Accounting /\ Stopping /\ Placed /\ InOrder /\ DropsCounted /\ CallsInOrder
  BY DEF IndInv
<1>2. fate' \in [Lines -> Fates] /\ \A l \in Lines : l[1] # k => fate'[l] = fate[l]
  BY <1>1, MarkedIs DEF TypeOK
<1>3. TypeOK'
  BY <1>1, <1>2 DEF TypeOK, tcp, recv, work
<1>4. Accounting' /\ Stopping'
  <2>1. Open' = Open /\ Active' = Active
    BY DEF Open, Active, tcp
  <2> QED
    BY <1>1, <2>1 DEF Accounting, Stopping, tcp, recv
<1>5. \A l \in TcpLines : fate'[l] = fate[l]
  <2>1. \A l \in TcpLines : l \in Lines /\ l[1] # k
    BY LinesAre, TelemetryAssumption
  <2> QED
    BY <1>2, <2>1
<1>6. Placed' /\ InOrder'
  BY <1>1, <1>5, Undisturbed DEF tcp, work
<1>7. ASSUME NEW d \in Calls, d # k
      PROVE  Through(d)' /\ Reported(d)'
  <2>1. call'[d] = call[d]
    BY <1>1, <1>7 DEF TypeOK
  <2>2. \A n \in 1..MaxFrames : fate'[<<d, n>>] = fate[<<d, n>>]
    <3>1. \A n \in 1..MaxFrames : <<d, n>> \in Lines /\ <<d, n>>[1] = d
      BY LinesAre
    <3> QED
      BY <1>2, <1>7, <3>1
  <2>3. Frames(d, {"published"})' = Frames(d, {"published"})
    BY <2>2, FramesSame
  <2> QED
    BY <1>1, <2>1, <2>2, <2>3 DEF CallsInOrder, Through, Reported
<1>8. CallsInOrder'
  BY <1>7 DEF CallsInOrder
<1> QED
  BY <1>3, <1>4, <1>6, <1>8 DEF IndInv

\* A call begins, or a stream goes on or breaks: no frame gets onto the bus and
\* none is dropped.
LEMMA CallBegins ==
  ASSUME IndInv, NEW k \in Calls,
         \/ IngestTelemetry(k) \/ SendTelemetry(k) \/ IngestStream(k)
         \/ StreamRecv(k) \/ StreamEnds(k) \/ StreamFails(k)
  PROVE  IndInv'
<1> DEFINE r == call[k]
<1>1. /\ TypeOK /\ DropsCounted /\ Through(k) /\ Reported(k)
      /\ call \in [Calls -> Reports] /\ r \in Reports /\ dropCount \in Nat
  BY DEF IndInv, CallsInOrder, TypeOK
<1>2. UNCHANGED tcp /\ dropCount' = dropCount
  BY DEF IngestTelemetry, SendTelemetry, IngestStream, StreamRecv, StreamEnds, StreamFails
<1>3. /\ MaxFrames \in Nat /\ MaxFrames > 0
      /\ r.total \in 0..MaxFrames /\ r.out \in 0..MaxFrames /\ r.out <= r.total
  BY <1>1, TelemetryAssumption DEF Reports, Reported
<1>4. ASSUME NEW S, NEW f \in {"pushing", "working", "lost"}, NEW c \in Reports,
             fate' = Marked(k, S, f), call' = [call EXCEPT ![k] = c],
             \A n \in 1..MaxFrames : n \in S => fate[<<k, n>>] \in {"unread", "pushing"},
             Through(k)', c.accepted = r.accepted,
             Frames(k, {"published"})' = Frames(k, {"published"}) => Reported(k)'
      PROVE  IndInv'
  <2>1. f \in Fates
    BY DEF Fates
  <2>2. \A n \in 1..MaxFrames : fate'[<<k, n>>] = IF n \in S THEN f ELSE fate[<<k, n>>]
    BY <1>1, <1>4, <2>1, MarkedIs
  <2>3. Frames(k, {"published"})' = Frames(k, {"published"})
    BY <1>4, <2>2, FramesSame
  <2>4. \A l \in Lines : fate'[l] = "dropped" <=> fate[l] = "dropped"
    <3> SUFFICES ASSUME NEW l \in Lines
                 PROVE  fate'[l] = "dropped" <=> fate[l] = "dropped"
      OBVIOUS
    <3>1. CASE l[1] = k /\ l[2] \in S
      <4>1. l \notin TcpLines
        BY <3>1, LinesAre, TelemetryAssumption
      <4>2. l[2] \in 1..MaxFrames /\ l = <<k, l[2]>>
        BY <3>1, <4>1, LinesAre
      <4> QED
        BY <1>4, <2>2, <3>1, <4>2
    <3>2. CASE l[1] # k \/ l[2] \notin S
      BY <1>1, <1>4, <2>1, <3>2, MarkedIs
    <3> QED
      BY <3>1, <3>2
  <2>5. DropsCounted'
    BY <1>1, <1>2, <2>4, NoneDropped
  <2> QED
    BY <1>1, <1>2, <1>4, <2>1, <2>3, <2>5, CallAlone
<1>5. CASE IngestTelemetry(k)
  <2>1. PICK n \in 1..MaxFrames :
          /\ call' = [call EXCEPT ![k] = [r EXCEPT !.api = "rest", !.at = "last", !.total = n]]
          /\ fate' = Marked(k, 1..n, "pushing")
    BY <1>5 DEF IngestTelemetry, Set
  <2> DEFINE c == [r EXCEPT !.api = "rest", !.at = "last", !.total = n]
  <2>2. r.at = "idle" /\ r.total = 0 /\ r.out = 0 /\ n \in 0..MaxFrames /\ n > 0
    <3>1. r.at = "idle"
      BY <1>5 DEF IngestTelemetry
    <3> QED
      BY <1>1, <1>3, <3>1 DEF Reported
  <2>3. c \in Reports
    BY <1>1, <2>2 DEF Reports
  <2>4. /\ c.at = "last" /\ c.api = "rest" /\ c.total = n /\ c.out = 0
        /\ c.accepted = r.accepted /\ c.metered = r.metered /\ call'[k] = c
    BY <1>1, <2>1, <2>2 DEF Reports
  <2> HIDE DEF c
  <2>5. \A m \in 1..MaxFrames : /\ fate[<<k, m>>] = "unread"
                                /\ fate'[<<k, m>>] = IF m \in 1..n THEN "pushing" ELSE fate[<<k, m>>]
    BY <1>1, <1>3, <2>1, <2>2, MarkedIs DEF Through, Fates
  <2>6. Through(k)'
    <3>1. \A m \in 1..MaxFrames : m \in 1..n <=> m <= n
      BY <2>2
    <3> QED
      BY <1>3, <2>2, <2>4, <2>5, <3>1 DEF Through
  <2>7. Frames(k, {"published"})' = Frames(k, {"published"}) => Reported(k)'
    BY <1>1, <1>3, <2>2, <2>4 DEF Reported
  <2> QED
    BY <1>4, <2>1, <2>3, <2>4, <2>5, <2>6, <2>7 DEF c
<1>6. CASE SendTelemetry(k)
  <2> DEFINE c == [r EXCEPT !.api = "send", !.at = "send", !.total = 1]
  <2>1. call' = [call EXCEPT ![k] = c] /\ fate' = Marked(k, {1}, "working")
    BY <1>6 DEF SendTelemetry, Set
  <2>2. r.at = "idle" /\ r.total = 0 /\ r.out = 0 /\ 1 \in 0..MaxFrames
    <3>1. r.at = "idle"
      BY <1>6 DEF SendTelemetry
    <3> QED
      BY <1>1, <1>3, <3>1 DEF Reported
  <2>3. c \in Reports
    BY <1>1, <2>2 DEF Reports
  <2>4. /\ c.at = "send" /\ c.api = "send" /\ c.total = 1 /\ c.out = 0
        /\ c.accepted = r.accepted /\ c.metered = r.metered /\ call'[k] = c
    BY <1>1, <2>1, <2>2 DEF Reports
  <2> HIDE DEF c
  <2>5. \A m \in 1..MaxFrames : /\ fate[<<k, m>>] = "unread"
                                /\ fate'[<<k, m>>] = IF m \in {1} THEN "working" ELSE fate[<<k, m>>]
    BY <1>1, <1>3, <2>1, <2>2, MarkedIs DEF Through, Fates
  <2>6. Through(k)'
    BY <1>3, <2>1, <2>4, <2>5 DEF Through
  <2>7. Frames(k, {"published"})' = Frames(k, {"published"}) => Reported(k)'
    BY <1>1, <1>3, <2>2, <2>4 DEF Reported
  <2> QED
    BY <1>4, <2>1, <2>3, <2>4, <2>5, <2>6, <2>7
<1>7. CASE IngestStream(k)
  <2> DEFINE c == [r EXCEPT !.api = "grpc", !.at = "recv"]
  <2>1. call' = [call EXCEPT ![k] = c] /\ fate' = fate
    BY <1>7 DEF IngestStream, Set
  <2>2. r.at = "idle" /\ r.total = 0 /\ r.out = 0
    BY <1>1, <1>3, <1>7 DEF IngestStream, Reported
  <2>3. c \in Reports
    BY <1>1, <1>3 DEF Reports
  <2>4. /\ c.at = "recv" /\ c.api = "grpc" /\ c.total = 0 /\ c.out = 0
        /\ c.accepted = r.accepted /\ c.metered = r.metered /\ call'[k] = c
    BY <1>1, <2>1, <2>2 DEF Reports
  <2> HIDE DEF c
  <2>5. Through(k)'
    BY <1>1, <1>3, <2>1, <2>2, <2>4 DEF Through
  <2>6. Frames(k, {"published"})' = Frames(k, {"published"})
    BY <2>1, FramesSame
  <2>7. Reported(k)'
    BY <1>1, <1>3, <2>2, <2>4, <2>6 DEF Reported
  <2>8. DropsCounted'
    BY <1>1, <1>2, <2>1, NoneDropped
  <2>9. "lost" \in Fates
    BY DEF Fates
  <2> QED
    BY <1>1, <1>2, <2>1, <2>3, <2>5, <2>7, <2>8, <2>9, CallAlone
<1>8. ASSUME r.at = "recv"
      PROVE  /\ r.api = "grpc" /\ r.metered = 0
             /\ \A n \in 1..MaxFrames : n > r.out /\ n <= r.total => fate[<<k, n>>] = "pushing"
             /\ \A n \in 1..MaxFrames : n > r.total => fate[<<k, n>>] = "unread"
  BY <1>1, <1>8 DEF Reported, Through
<1>9. CASE StreamRecv(k)
  <2> DEFINE n == r.total + 1
             a == IF n - r.out >= Batch THEN "flush" ELSE "recv"
             c == [r EXCEPT !.total = n, !.at = a]
             S == {n}
  <2>1. /\ r.at = "recv" /\ r.total < MaxFrames
        /\ call' = [call EXCEPT ![k] = c] /\ fate' = Marked(k, S, "pushing")
    BY <1>9 DEF StreamRecv, Set
  <2>2. n \in 1..MaxFrames /\ n \in 0..MaxFrames /\ n = r.total + 1
    BY <1>3, <2>1
  <2>3. a \in {"flush", "recv"}
    OBVIOUS
  <2> HIDE DEF n, a
  <2>4. c \in Reports
    BY <1>1, <2>2, <2>3 DEF Reports
  <2>5. /\ c.at = a /\ c.api = "grpc" /\ c.total = n /\ c.out = r.out
        /\ c.accepted = r.accepted /\ c.metered = 0 /\ call'[k] = c
    BY <1>1, <1>8, <2>1 DEF Reports
  <2> HIDE DEF c
  <2>6. \A m \in 1..MaxFrames : m \in S <=> m = n
    OBVIOUS
  <2> HIDE DEF S
  <2>7. \A m \in 1..MaxFrames :
          /\ fate'[<<k, m>>] = IF m \in S THEN "pushing" ELSE fate[<<k, m>>]
          /\ m \in S => fate[<<k, m>>] = "unread"
    BY <1>1, <1>3, <1>8, <2>1, <2>2, <2>6, MarkedIs DEF Fates
  <2>8. Through(k)'
    BY <1>1, <1>3, <1>8, <2>1, <2>2, <2>3, <2>5, <2>6, <2>7 DEF Through
  <2>9. Frames(k, {"published"})' = Frames(k, {"published"}) => Reported(k)'
    BY <1>1, <1>3, <2>1, <2>2, <2>3, <2>5, <1>8 DEF Reported
  <2> QED
    BY <1>4, <2>1, <2>4, <2>5, <2>7, <2>8, <2>9
<1>10. CASE StreamEnds(k)
  <2> DEFINE c == IF r.out = r.total THEN Metered(r) ELSE [r EXCEPT !.at = "last"]
  <2>1. r.at = "recv" /\ call' = [call EXCEPT ![k] = c] /\ fate' = fate
    BY <1>10 DEF StreamEnds, Set
  <2>2. c \in Reports
    BY <1>1, <1>3 DEF Reports, Metered
  <2>3. /\ c.at = IF r.out = r.total THEN "over" ELSE "last"
        /\ c.metered = IF r.out = r.total THEN r.total ELSE 0
        /\ c.api = "grpc" /\ c.total = r.total /\ c.out = r.out /\ c.accepted = r.accepted
    BY <1>1, <1>8, <2>1 DEF Reports, Metered
  <2>4. call'[k] = c
    BY <1>1, <2>1
  <2> HIDE DEF c
  <2>5. Through(k)'
    BY <1>1, <1>3, <1>8, <2>1, <2>3, <2>4 DEF Through
  <2>6. Frames(k, {"published"})' = Frames(k, {"published"})
    BY <2>1, FramesSame
  <2>7. Reported(k)'
    BY <1>1, <1>3, <1>8, <2>1, <2>3, <2>4, <2>6 DEF Reported
  <2>8. DropsCounted'
    BY <1>1, <1>2, <2>1, NoneDropped
  <2>9. "lost" \in Fates
    BY DEF Fates
  <2> QED
    BY <1>1, <1>2, <2>1, <2>2, <2>5, <2>7, <2>8, <2>9, CallAlone
<1>11. CASE StreamFails(k)
  <2> DEFINE c == [r EXCEPT !.at = "over"]
             S == (r.out + 1)..r.total
  <2>1. r.at = "recv" /\ call' = [call EXCEPT ![k] = c] /\ fate' = Marked(k, S, "lost")
    BY <1>11 DEF StreamFails, Set
  <2>2. c \in Reports
    BY <1>1 DEF Reports
  <2>3. /\ c.at = "over" /\ c.api = "grpc" /\ c.total = r.total /\ c.out = r.out
        /\ c.accepted = r.accepted /\ c.metered = 0 /\ call'[k] = c
    BY <1>1, <1>8, <2>1 DEF Reports
  <2>4. \A n \in 1..MaxFrames : n \in S <=> n > r.out /\ n <= r.total
    BY <1>3
  <2> HIDE DEF c, S
  <2>5. \A n \in 1..MaxFrames : fate'[<<k, n>>] = IF n \in S THEN "lost" ELSE fate[<<k, n>>]
    BY <1>1, <2>1, MarkedIs DEF Fates
  <2>6. Through(k)'
    BY <1>1, <1>3, <2>3, <2>4, <2>5 DEF Through
  <2>7. Frames(k, {"published"})' = Frames(k, {"published"}) => Reported(k)'
    BY <1>1, <1>3, <2>1, <2>3 DEF Reported
  <2>8. \A n \in 1..MaxFrames : n \in S => fate[<<k, n>>] \in {"unread", "pushing"}
    BY <1>8, <2>1, <2>4
  <2> QED
    BY <1>4, <2>1, <2>2, <2>3, <2>6, <2>7, <2>8
<1> QED
  BY <1>5, <1>6, <1>7, <1>9, <1>10, <1>11

\* A frame goes onto the bus, or is dropped and counted.
LEMMA FrameOut ==
  ASSUME IndInv, NEW k \in Calls, NEW n \in 1..MaxFrames, NEW f \in {"published", "dropped"},
         fate[<<k, n>>] \in {"pushing", "working"},
         NEW S, \A m : m \in S <=> m = n, fate' = Marked(k, S, f),
         dropCount' = IF f = "dropped" THEN dropCount + 1 ELSE dropCount
  PROVE  /\ DropsCounted' /\ dropCount' \in Nat
         /\ \A m \in 1..MaxFrames : fate'[<<k, m>>] = IF m = n THEN f ELSE fate[<<k, m>>]
         /\ Frames(k, {"published"})' =
              IF f = "published" THEN Frames(k, {"published"}) + 1 ELSE Frames(k, {"published"})
<1>1. TypeOK /\ DropsCounted /\ dropCount \in Nat /\ f \in Fates
  BY DEF IndInv, TypeOK, Fates
<1>2. \A m \in 1..MaxFrames : fate'[<<k, m>>] = IF m \in S THEN f ELSE fate[<<k, m>>]
  BY <1>1, MarkedIs
<1>3. \A m \in 1..MaxFrames : fate'[<<k, m>>] = IF m = n THEN f ELSE fate[<<k, m>>]
  BY <1>2
<1>4. <<k, n>> \in Lines /\ fate'[<<k, n>>] = f
  BY <1>3, LinesAre
<1>5. \A l \in Lines : l[1] # k \/ l[2] \notin S => fate'[l] = fate[l]
  BY <1>1, MarkedIs
<1>6. \A l \in Lines : l # <<k, n>> => fate'[l] = fate[l]
  <2>1. \A l \in Lines : l = <<l[1], l[2]>>
    BY LinesAre
  <2> QED
    BY <1>5, <2>1
<1>7. dropCount' \in Nat
  BY <1>1
<1>8. DropsCounted'
  <2>1. CASE f = "dropped"
    BY <1>1, <1>4, <1>6, <2>1, OneMoreDropped
  <2>2. CASE f = "published"
    <3>1. \A l \in Lines : fate'[l] = "dropped" <=> fate[l] = "dropped"
      BY <1>4, <1>6, <2>2
    <3> QED
      BY <1>1, <2>2, <3>1, NoneDropped
  <2> QED
    BY <2>1, <2>2
<1>9. Frames(k, {"published"})' =
         IF f = "published" THEN Frames(k, {"published"}) + 1 ELSE Frames(k, {"published"})
  <2>1. CASE f = "dropped"
    <3>1. \A m \in 1..MaxFrames :
            fate'[<<k, m>>] = "published" <=> fate[<<k, m>>] = "published"
      BY <1>3, <2>1
    <3> QED
      BY <2>1, <3>1, FramesSame
  <2>2. CASE f = "published"
    <3>1. \A m \in 1..MaxFrames : m # n => fate'[<<k, m>>] = fate[<<k, m>>]
      BY <1>3
    <3> QED
      BY <1>4, <2>2, <3>1, FrameMore
  <2> QED
    BY <2>1, <2>2
<1> QED
  BY <1>3, <1>7, <1>8, <1>9

\* A call publishes, or drops, its next frame.
LEMMA AnswerKeeps ==
  ASSUME IndInv, NEW k \in Calls, Answer(k)
  PROVE  IndInv'
<1> DEFINE r == call[k]
           n == r.out + 1
<1>1. /\ TypeOK /\ DropsCounted /\ Through(k) /\ Reported(k)
      /\ call \in [Calls -> Reports] /\ r \in Reports /\ dropCount \in Nat
  BY DEF IndInv, CallsInOrder, TypeOK
<1>2. UNCHANGED tcp /\ r.at \in {"flush", "last", "send"}
  BY DEF Answer, IngestFrame, ProcessSent
<1>3. /\ MaxFrames \in Nat /\ MaxFrames > 0 /\ r.accepted \in 0..MaxFrames
      /\ r.total \in 0..MaxFrames /\ r.out \in 0..MaxFrames /\ r.out < r.total /\ r.metered = 0
  <2>1. r.out < r.total /\ r.metered = 0
    BY <1>1, <1>2 DEF Reported
  <2> QED
    BY <1>1, <2>1, TelemetryAssumption DEF Reports
<1>4. n \in 1..MaxFrames /\ n = r.out + 1 /\ n <= r.total
  BY <1>3
<1> HIDE DEF n
<1>5. fate[<<k, n>>] \in {"pushing", "working"}
  BY <1>1, <1>2, <1>3, <1>4 DEF Through
<1>6. ASSUME NEW f \in {"published", "dropped"}, NEW c \in Reports,
             fate' = Marked(k, {n}, f), call' = [call EXCEPT ![k] = c],
             dropCount' = IF f = "dropped" THEN dropCount + 1 ELSE dropCount,
             c.out = n, c.total = r.total,
             r.at = "send" => c.at = "over", r.at # "send" => c.at \in {"recv", "last", "flush", "over"},
             c.at = "over" => n = r.total,
             Frames(k, {"published"})' =
               (IF f = "published" THEN Frames(k, {"published"}) + 1 ELSE Frames(k, {"published"}))
               => Reported(k)'
      PROVE  IndInv'
  <2>1. /\ DropsCounted' /\ dropCount' \in Nat
        /\ \A m \in 1..MaxFrames : fate'[<<k, m>>] = IF m = n THEN f ELSE fate[<<k, m>>]
        /\ Frames(k, {"published"})' =
             IF f = "published" THEN Frames(k, {"published"}) + 1 ELSE Frames(k, {"published"})
    <3> DEFINE S == {n}
    <3>1. fate' = Marked(k, S, f) /\ \A m : m \in S <=> m = n
      BY <1>6
    <3> HIDE DEF S
    <3>2. n \in 1..MaxFrames /\ fate[<<k, n>>] \in {"pushing", "working"}
      BY <1>4, <1>5
    <3>3. /\ f \in {"published", "dropped"} /\ fate' = Marked(k, S, f)
          /\ dropCount' = IF f = "dropped" THEN dropCount + 1 ELSE dropCount
      BY <1>6, <3>1
    <3> QED
      BY <3>1, <3>2, <3>3, FrameOut
  <2>2. call'[k] = c
    BY <1>1, <1>6
  <2>3. Through(k)'
    <3> SUFFICES ASSUME NEW m \in 1..MaxFrames
                 PROVE  /\ m <= c.out => fate'[<<k, m>>] \in {"published", "dropped"}
                        /\ m > c.total => fate'[<<k, m>>] = "unread"
                        /\ m > c.out /\ m <= c.total =>
                             /\ c.at = "send" => fate'[<<k, m>>] = "working"
                             /\ c.at = "over" => fate'[<<k, m>>] = "lost"
                             /\ c.at \notin {"send", "over"} => fate'[<<k, m>>] = "pushing"
      BY <2>2 DEF Through
    <3>1. fate'[<<k, m>>] = IF m = n THEN f ELSE fate[<<k, m>>]
      BY <2>1
    <3>2. /\ m <= r.out => fate[<<k, m>>] \in {"published", "dropped"}
          /\ m > r.total => fate[<<k, m>>] = "unread"
          /\ m > r.out /\ m <= r.total /\ r.at # "send" => fate[<<k, m>>] = "pushing"
      BY <1>1, <1>2 DEF Through
    <3>3. r.at = "send" => r.total = 1 /\ r.out = 0
      BY <1>1 DEF Reported
    <3> QED
      BY <1>3, <1>4, <1>6, <3>1, <3>2, <3>3
  <2>4. f \in Fates
    BY DEF Fates
  <2> QED
    BY <1>2, <1>6, <2>1, <2>3, <2>4, CallAlone
<1>7. CASE ProcessSent(k)
  <2> DEFINE c == [r EXCEPT !.at = "over", !.out = 1]
  <2>1. r.at = "send" /\ call' = [call EXCEPT ![k] = c]
    BY <1>7 DEF ProcessSent, Set
  <2>2. PICK f \in {"published", "dropped"} :
          /\ fate' = Marked(k, {1}, f)
          /\ dropCount' = IF f = "dropped" THEN dropCount + 1 ELSE dropCount
    BY <1>7 DEF ProcessSent
  <2>3. r.total = 1 /\ r.out = 0 /\ r.api = "send" /\ n = 1 /\ 1 \in 0..MaxFrames
    BY <1>1, <1>3, <1>4, <2>1 DEF Reported
  <2>4. c \in Reports
    BY <1>1, <2>3 DEF Reports
  <2>5. /\ c.at = "over" /\ c.api = "send" /\ c.total = 1 /\ c.out = 1
        /\ c.accepted = r.accepted /\ c.metered = 0 /\ call'[k] = c
    BY <1>1, <1>3, <2>1, <2>3 DEF Reports
  <2> HIDE DEF c
  <2>6. Reported(k)'
    BY <2>5 DEF Reported
  <2> QED
    BY <1>6, <2>1, <2>2, <2>3, <2>4, <2>5, <2>6
<1>8. CASE IngestFrame(k)
  <2> DEFINE b(ok) == [r EXCEPT !.out = @ + 1, !.accepted = IF ok THEN @ + 1 ELSE @]
             c(ok) == IF b(ok).out = b(ok).total THEN BatchOver(b(ok)) ELSE b(ok)
  <2>1. r.at \in {"flush", "last"}
    BY <1>8 DEF IngestFrame
  <2>2. PICK ok \in BOOLEAN :
          /\ call' = [call EXCEPT ![k] = c(ok)]
          /\ fate' = Marked(k, {b(ok).out}, IF ok THEN "published" ELSE "dropped")
          /\ dropCount' = IF ok THEN dropCount ELSE dropCount + 1
    BY <1>8 DEF IngestFrame, Set
  <2> DEFINE f == IF ok THEN "published" ELSE "dropped"
             a == IF ok THEN r.accepted + 1 ELSE r.accepted
             d == [r EXCEPT !.out = n, !.accepted = a]
             e == IF n = r.total THEN BatchOver(d) ELSE d
  <2>3. r.api \in {"rest", "grpc"} /\ r.accepted = Frames(k, {"published"})
    BY <1>1, <2>1 DEF Reported
  <2>4. f \in {"published", "dropped"} /\ (f = "dropped" <=> ~ok) /\ (f = "published" <=> ok)
    OBVIOUS
  <2>5. b(ok) = d
    BY <1>1, <1>4 DEF Reports
  <2>6. d.out = n /\ d.total = r.total /\ d.at = r.at /\ d.api = r.api /\ d.metered = 0
        /\ d.accepted = a
    BY <1>1, <1>3 DEF Reports
  <2>7. call' = [call EXCEPT ![k] = e] /\ fate' = Marked(k, {n}, f)
    BY <2>2, <2>5, <2>6
  <2>8. dropCount' = IF f = "dropped" THEN dropCount + 1 ELSE dropCount
    BY <2>2
  <2> HIDE DEF f, b, c
  <2>9. a = Frames(k, {"published"})' /\ a \in 0..MaxFrames
    <3>1. \A m : m \in {n} <=> m = n
      OBVIOUS
    <3>2. Frames(k, {"published"})' =
            IF f = "published" THEN Frames(k, {"published"}) + 1 ELSE Frames(k, {"published"})
      BY <1>4, <1>5, <2>4, <2>7, <2>8, <3>1, FrameOut
    <3> QED
      BY <2>3, <2>4, <3>2, FramesCount
  <2>10. d \in Reports
    <3>1. n \in 0..MaxFrames
      BY <1>3, <1>4
    <3> HIDE DEF a
    <3> QED
      BY <1>1, <2>9, <3>1 DEF Reports
  <2> HIDE DEF a, d
  <2>11. CASE n # r.total
    <3>1. e = d
      BY <2>11
    <3>2. call'[k] = d
      BY <1>1, <2>7, <3>1
    <3>3. Reported(k)'
      BY <1>1, <1>3, <1>4, <2>1, <2>3, <2>6, <2>9, <2>11, <3>2 DEF Reported
    <3> QED
      BY <1>3, <1>6, <2>1, <2>4, <2>6, <2>7, <2>8, <2>10, <2>11, <3>1, <3>3
  <2>12. CASE n = r.total /\ r.at = "flush"
    <3>1. r.api = "grpc"
      BY <1>1, <2>12 DEF Reported
    <3>2. e = [d EXCEPT !.at = "recv"]
      BY <2>6, <2>12, <3>1 DEF BatchOver
    <3>3. /\ e \in Reports /\ e.out = n /\ e.total = r.total /\ e.api = r.api /\ e.metered = 0
          /\ e.accepted = a /\ e.at = "recv"
      BY <2>6, <2>10, <3>2 DEF Reports
    <3>4. call'[k] = e
      BY <1>1, <2>7
    <3> HIDE DEF e
    <3>5. Reported(k)'
      BY <1>3, <1>4, <2>9, <2>12, <3>1, <3>3, <3>4 DEF Reported
    <3> QED
      BY <1>6, <2>4, <2>7, <2>8, <2>12, <3>3, <3>5
  <2>13. CASE n = r.total /\ r.at = "last" /\ r.api = "rest" /\ a = 0
    <3>1. e = [d EXCEPT !.at = "over"]
      BY <2>6, <2>13 DEF BatchOver
    <3>2. /\ e \in Reports /\ e.out = n /\ e.total = r.total /\ e.api = r.api /\ e.metered = 0
          /\ e.accepted = a /\ e.at = "over"
      BY <2>6, <2>10, <3>1 DEF Reports
    <3>3. call'[k] = e
      BY <1>1, <2>7
    <3> HIDE DEF e
    <3>4. Reported(k)'
      BY <1>3, <1>4, <2>9, <2>13, <3>2, <3>3 DEF Reported
    <3> QED
      BY <1>6, <2>4, <2>7, <2>8, <2>13, <3>2, <3>4
  <2>14. CASE n = r.total /\ r.at = "last" /\ ~(r.api = "rest" /\ a = 0)
    <3>1. e = [d EXCEPT !.at = "over", !.metered = d.total]
      BY <2>6, <2>14 DEF BatchOver, Metered
    <3>2. /\ e \in Reports /\ e.out = n /\ e.total = r.total /\ e.api = r.api
          /\ e.metered = r.total /\ e.accepted = a /\ e.at = "over"
      BY <1>3, <2>6, <2>10, <3>1 DEF Reports
    <3>3. call'[k] = e
      BY <1>1, <2>7
    <3> HIDE DEF e
    <3>4. Reported(k)'
      BY <1>3, <1>4, <2>3, <2>9, <2>14, <3>2, <3>3 DEF Reported
    <3> QED
      BY <1>6, <2>4, <2>7, <2>8, <2>14, <3>2, <3>4
  <2> QED
    BY <2>1, <2>11, <2>12, <2>13, <2>14
<1> QED
  BY <1>7, <1>8 DEF Answer

-----------------------------------------------------------------------------
\* A pipeline that has just been started keeps its books.
LEMMA InitInv == Init => IndInv
<1> SUFFICES ASSUME Init PROVE IndInv
  OBVIOUS
<1>1. \A c \in Conns : MaxLines[c] \in Nat
  BY TelemetryAssumption
<1>2. MaxFrames \in Nat /\ BufferSize \in Nat
  BY TelemetryAssumption
<1>3. \A l \in Lines : fate[l] = "unread"
  BY DEF Init
<1>4. \A k \in Calls : call[k] = [api |-> "none", at |-> "idle", total |-> 0, out |-> 0,
                                  accepted |-> 0, metered |-> 0]
  BY DEF Init
<1>5. \A l \in TcpLines : l \in Lines /\ l[1] \in Conns /\ l[2] > 0
  BY LinesAre
<1>6. \A k \in Calls, n \in 1..MaxFrames : <<k, n>> \in Lines
  BY LinesAre
<1>7. TypeOK
  <2>1. /\ call \in [Calls -> Reports] /\ fate \in [Lines -> Fates]
        /\ conn \in [Conns -> ConnStates] /\ read \in [Conns -> Nat]
    <3>1. 0 \in 0..MaxFrames
      BY <1>2
    <3> QED
      BY <3>1 DEF Init, Reports, Fates, ConnStates
  <2>2. \A c \in Conns : read[c] <= MaxLines[c]
    BY <1>1 DEF Init
  <2>3. queue \in Seq(Lines) /\ Len(queue) <= BufferSize
    BY <1>2 DEF Init
  <2> QED
    BY <2>1, <2>2, <2>3 DEF Init, TypeOK
<1>8. Accounting
  <2>1. Open = {} /\ Active = {}
    BY DEF Init, Open, Active
  <2> QED
    BY <2>1, FS_EmptySet DEF Init, Accounting
<1>9. Stopping
  BY DEF Init, Stopping
<1>10. Placed
  <2>1. queue = << >> /\ worker = "top" /\ \A c \in Conns : conn[c] = "none" /\ read[c] = 0
    BY DEF Init
  <2> QED
    BY <1>3, <1>5, <2>1 DEF Placed, InPush
<1>11. InOrder
  <2>1. queue = << >>
    BY DEF Init
  <2> QED
    BY <1>3, <1>5, <2>1 DEF InOrder
<1>12. DropsCounted
  <2>1. {l \in Lines : fate[l] = "dropped"} = {}
    BY <1>3
  <2> QED
    BY <2>1, FS_EmptySet DEF Init, DropsCounted
<1>13. ASSUME NEW k \in Calls PROVE Through(k) /\ Reported(k)
  <2>1. {n \in 1..MaxFrames : fate[<<k, n>>] \in {"published"}} = {}
    BY <1>3, <1>6
  <2>2. Frames(k, {"published"}) = 0
    BY <2>1, FS_EmptySet DEF Frames
  <2> QED
    BY <1>2, <1>3, <1>4, <1>6, <2>2 DEF Through, Reported
<1> QED
  BY <1>7, <1>8, <1>9, <1>10, <1>11, <1>12, <1>13 DEF IndInv, CallsInOrder

\* So does every step, of whichever actor.
LEMMA StepInv == IndInv /\ [Next]_vars => IndInv'
<1> SUFFICES ASSUME IndInv, [Next]_vars PROVE IndInv'
  OBVIOUS
<1>1. ASSUME NEW c \in Conns, Accept(c) \/ ConnOpens(c) \/ ConnEnds(c) PROVE IndInv'
  BY <1>1, ReceiverKeeps
<1>2. ASSUME NEW c \in Conns, ReadLine(c) PROVE IndInv'
  BY <1>2, ReadKeeps
<1>3. ASSUME NEW c \in Conns, Push(c) PROVE IndInv'
  BY <1>3, PushKeeps
<1>4. CASE AcceptFails
  BY <1>4, AcceptFailsKeeps
<1>5. CASE Work \/ SetParser
  BY <1>5, WorkKeeps
<1>6. CASE Stop \/ Stops
  BY <1>6, StopKeeps
<1>7. ASSUME NEW k \in Calls,
             \/ IngestTelemetry(k) \/ SendTelemetry(k) \/ IngestStream(k)
             \/ StreamRecv(k) \/ StreamEnds(k) \/ StreamFails(k)
      PROVE  IndInv'
  BY <1>7, CallBegins
<1>8. ASSUME NEW k \in Calls, Answer(k) PROVE IndInv'
  BY <1>8, AnswerKeeps
<1>9. CASE UNCHANGED vars
  <2>1. UNCHANGED <<recv, conn, read, queue, qClosed, work, stop, call, dropCount, fate>>
    BY <1>9 DEF vars
  <2>2. TypeOK /\ Accounting /\ Stopping /\ Placed /\ InOrder /\ DropsCounted /\ CallsInOrder
    BY DEF IndInv
  <2>3. Placed' /\ InOrder' /\ DropsCounted' /\ CallsInOrder'
    BY <2>1, <2>2, NotMoved
  <2>4. Open' = Open /\ Active' = Active
    BY <2>1 DEF Open, Active
  <2>5. TypeOK' /\ Accounting' /\ Stopping'
    BY <2>1, <2>2, <2>4 DEF TypeOK, Accounting, Stopping, recv, work
  <2> QED
    BY <2>3, <2>5 DEF IndInv
<1> QED
  BY <1>1, <1>2, <1>3, <1>4, <1>5, <1>6, <1>7, <1>8, <1>9 DEF Next

\* Every reachable state keeps the accounts: of the connections by the
\* WaitGroup, of the lines by their places, of the frames by their calls.
THEOREM Invariance == Spec => []IndInv
<1> QED
  BY InitInv, StepInv, PTL DEF Spec

\* Stop never closes the queue while a connection is open, and so never while
\* one is about to push: whatever the peers and the scheduler do.
THEOREM StopIsSafe == Spec => []NoPushAfterClose
<1>1. IndInv => NoPushAfterClose
  BY DEF IndInv, Stopping, NoPushAfterClose
<1> QED
  BY <1>1, Invariance, PTL

\* The variables keep their types, with the queue within its capacity.
THEOREM TelemetryTypes == Spec => []TypeOK
<1>1. IndInv => TypeOK
  BY DEF IndInv
<1> QED
  BY <1>1, Invariance, PTL

\* Lines of a connection and frames of a call go out in order.
LEMMA OrderKept == IndInv => PerConnOrder
<1> SUFFICES ASSUME IndInv, NEW k \in Lines, NEW l \in Lines, k[1] = l[1], k[2] < l[2],
                    fate[l] \in {"working", "published"}
             PROVE  fate[k] \in {"published", "dropped"}
  BY DEF PerConnOrder
<1>1. CASE l \in TcpLines
  <2>1. k \in TcpLines
    BY <1>1 DEF TcpLines
  <2> QED
    BY <1>1, <2>1 DEF IndInv, InOrder
<1>2. CASE l \notin TcpLines
  <2>1. k \notin TcpLines
    BY <1>2 DEF TcpLines
  <2>2. /\ l[1] \in Calls /\ l[2] \in 1..MaxFrames /\ l = <<l[1], l[2]>>
        /\ k[2] \in 1..MaxFrames /\ k = <<l[1], k[2]>>
    BY <1>2, <2>1, LinesAre
  <2>3. Through(l[1]) /\ Reported(l[1]) /\ call[l[1]] \in Reports /\ MaxFrames \in Nat
    BY <2>2, TelemetryAssumption DEF IndInv, CallsInOrder, TypeOK
  <2>4. call[l[1]].out \in Nat /\ call[l[1]].total \in Nat
    BY <2>3 DEF Reports
  <2>5. l[2] <= call[l[1]].out
    BY <2>2, <2>3, <2>4 DEF Through, Reported
  <2> QED
    BY <2>2, <2>3, <2>4, <2>5 DEF Through
<1> QED
  BY <1>1, <1>2

\* What a call reports is what became of its frames.
LEMMA BooksRight == IndInv => IngestMetered
<1> SUFFICES ASSUME IndInv, NEW k \in Calls, call[k].at = "over"
             PROVE  LET c == call[k] IN
                      /\ c.api # "send" => c.accepted = Frames(k, {"published"})
                      /\ Frames(k, {"published", "dropped", "lost"}) = c.total
                      /\ c.metered \in {0, Frames(k, {"published", "dropped"})}
                      /\ c.metered > 0 => Frames(k, {"lost"}) = 0
                      /\ c.api = "rest" => (c.metered > 0 <=> c.accepted > 0)
  BY DEF IngestMetered
<1> DEFINE c == call[k]
           F(fates) == {n \in 1..MaxFrames : fate[<<k, n>>] \in fates}
<1>1. Through(k) /\ Reported(k) /\ c \in Reports /\ MaxFrames \in Nat
  BY TelemetryAssumption DEF IndInv, CallsInOrder, TypeOK
<1>2. c.total \in 0..MaxFrames /\ c.out \in 0..MaxFrames /\ c.out <= c.total
  BY <1>1 DEF Reports, Reported
<1>3. \A n \in 1..MaxFrames :
        /\ n <= c.out => fate[<<k, n>>] \in {"published", "dropped"}
        /\ n > c.total => fate[<<k, n>>] = "unread"
        /\ n > c.out /\ n <= c.total => fate[<<k, n>>] = "lost"
  BY <1>1 DEF Through
<1>4. Cardinality(1..c.total) = c.total
  <2>1. c.total \in Nat
    BY <1>1, <1>2
  <2> HIDE DEF c
  <2> QED
    BY <2>1, FS_Interval
<1>5. Frames(k, {"published", "dropped", "lost"}) = c.total
  <2>1. F({"published", "dropped", "lost"}) = 1..c.total
    BY <1>1, <1>2, <1>3
  <2> QED
    BY <1>4, <2>1 DEF Frames
<1>6. c.out = c.total =>
        /\ Frames(k, {"published", "dropped"}) = c.total
        /\ Frames(k, {"lost"}) = 0
  <2> SUFFICES ASSUME c.out = c.total
               PROVE  /\ Frames(k, {"published", "dropped"}) = c.total
                      /\ Frames(k, {"lost"}) = 0
    OBVIOUS
  <2>1. F({"published", "dropped"}) = 1..c.total /\ F({"lost"}) = {}
    BY <1>1, <1>2, <1>3
  <2> QED
    BY <1>4, <2>1, FS_EmptySet DEF Frames
<1>7. /\ c.metered \in {0, c.total} /\ (c.metered > 0 => c.out = c.total) /\ c.metered \in Nat
      /\ c.api # "send" => c.accepted = Frames(k, {"published"})
      /\ c.api = "rest" => (c.metered > 0 <=> c.accepted > 0)
  BY <1>1 DEF Reported, Reports
<1> QED
  BY <1>5, <1>6, <1>7

\* Nothing is lost without being counted, nothing overtakes, and what a call
\* reports and meters is what became of its frames.
THEOREM LinesKeptInBooks == Spec => []LinesAccounted
<1>1. IndInv => LinesAccounted
  BY OrderKept, BooksRight DEF IndInv, LinesAccounted
<1> QED
  BY <1>1, Invariance, PTL
=============================================================================
