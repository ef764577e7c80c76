--------------------------- MODULE NatsBusProofs ---------------------------
(***************************************************************************)
(* Proofs about NATSBus inside TracedBus, for any events, subscribers,     *)
(* buffers, batches and replays.                                           *)
(***************************************************************************)
EXTENDS TracedBus, SequenceTheorems, WellFoundedInduction, TLAPS

-----------------------------------------------------------------------------
(* What the operators of the model return.                                 *)

\* A set of numbers that has 0, and with each number the next, has them all.
LEMMA CountUp ==
  ASSUME NEW d \in Nat, NEW T, 0 \in T, \A k \in 0..(d - 1) : k \in T => k + 1 \in T
  PROVE  0..d \subseteq T
<1> DEFINE Bad == (0..d) \ T
<1>1. SUFFICES ASSUME Bad # {} PROVE FALSE
  OBVIOUS
<1>2. IsWellFoundedOn(OpToRel(<, Nat), Nat)
  BY NatLessThanWellFounded
<1>3. Bad \subseteq Nat
  OBVIOUS
<1>4. PICK n \in Bad : \A m \in Bad : ~(<<m, n>> \in OpToRel(<, Nat))
  <2> HIDE DEF Bad
  <2> QED
    BY <1>1, <1>2, <1>3, WFMin
<1>5. \A m \in Bad : ~(m < n)
  BY <1>3, <1>4 DEF OpToRel
<1>6. n - 1 \in 0..(d - 1) /\ n - 1 < n /\ (n - 1) + 1 = n
  OBVIOUS
<1>7. n - 1 \in T
  BY <1>5, <1>6
<1> QED
  BY <1>6, <1>7

\* The smaller of two numbers, as Min has it.
LEMMA MinOfTwo ==
  ASSUME NEW a \in Nat, NEW b \in Nat
  PROVE  Min({a, b}) = IF a <= b THEN a ELSE b
<1>1. \E x \in {a, b} : \A y \in {a, b} : x <= y
  OBVIOUS
<1>2. Min({a, b}) \in {a, b} /\ \A y \in {a, b} : Min({a, b}) <= y
  BY <1>1 DEF Min
<1> QED
  BY <1>2

\* A part of a sequence, from behind its m-th element to its k-th.
LEMMA PartOf ==
  ASSUME NEW S, NEW q \in Seq(S), NEW k \in 0..Len(q), NEW m \in 0..k
  PROVE  /\ SubSeq(q, m + 1, k) \in Seq(S)
         /\ Len(SubSeq(q, m + 1, k)) = k - m
         /\ \A i \in 1..(k - m) : SubSeq(q, m + 1, k)[i] = q[m + i]
<1>1. Len(q) \in Nat /\ q \in [1..Len(q) -> S]
  BY LenProperties
<1> DEFINE a == m + 1
<1>2. a \in Int /\ k \in Int /\ k - a + 1 = k - m
  BY <1>1
<1>3. \A i \in a..k : q[i] \in S
  BY <1>1
<1> HIDE DEF a
<1>4. /\ SubSeq(q, a, k) \in Seq(S)
      /\ Len(SubSeq(q, a, k)) = IF a <= k THEN k - a + 1 ELSE 0
      /\ \A i \in 1..(k - a + 1) : SubSeq(q, a, k)[i] = q[a + i - 1]
  BY <1>2, <1>3, SubSeqProperties
<1>5. Len(SubSeq(q, a, k)) = k - m
  BY <1>1, <1>2, <1>4 DEF a
<1>6. \A i \in 1..(k - m) : a + i - 1 = m + i
  BY <1>1 DEF a
<1>7. \A i \in 1..(k - m) : SubSeq(q, a, k)[i] = q[m + i]
  BY <1>2, <1>4, <1>6
<1> QED
  BY <1>4, <1>5, <1>7 DEF a

\* What one more element at the end adds to a part that reaches up to it.
LEMMA PartGrows ==
  ASSUME NEW S, NEW q \in Seq(S), NEW k \in 1..Len(q), NEW m \in 0..(k - 1)
  PROVE  SubSeq(q, m + 1, k) = Append(SubSeq(q, m + 1, k - 1), q[k])
<1>1. Len(q) \in Nat
  BY LenProperties
<1>2. k \in 0..Len(q) /\ k - 1 \in 0..Len(q) /\ m \in 0..k /\ q[k] \in S
  BY <1>1, ElementOfSeq
<1> DEFINE p == SubSeq(q, m + 1, k)
           o == SubSeq(q, m + 1, k - 1)
<1>3. /\ p \in Seq(S) /\ Len(p) = k - m
      /\ \A i \in 1..(k - m) : p[i] = q[m + i]
  BY <1>2, PartOf
<1>4. /\ o \in Seq(S) /\ Len(o) = (k - 1) - m
      /\ \A i \in 1..((k - 1) - m) : o[i] = q[m + i]
  BY <1>2, PartOf
<1> HIDE DEF p, o
<1>5. /\ Append(o, q[k]) \in Seq(S) /\ Len(Append(o, q[k])) = k - m
      /\ \A i \in 1..((k - 1) - m) : Append(o, q[k])[i] = o[i]
      /\ Append(o, q[k])[k - m] = q[k]
  <2>1. Len(o) + 1 = k - m
    BY <1>1, <1>4
  <2> QED
    BY <1>2, <1>4, <2>1, AppendProperties
<1>6. \A i \in 1..(k - m) : p[i] = Append(o, q[k])[i]
  <2> SUFFICES ASSUME NEW i \in 1..(k - m) PROVE p[i] = Append(o, q[k])[i]
    OBVIOUS
  <2>1. CASE i = k - m
    <3>1. m + i = k
      BY <1>1, <2>1
    <3> QED
      BY <1>3, <1>5, <2>1, <3>1
  <2>2. CASE i # k - m
    <3>1. i \in 1..((k - 1) - m)
      BY <1>1, <2>2
    <3> QED
      BY <1>3, <1>4, <1>5, <3>1
  <2> QED
    BY <2>1, <2>2
<1>7. p = Append(o, q[k])
  BY <1>3, <1>5, <1>6, SeqEqual
<1> QED
  BY <1>7 DEF p, o

\* The elements of a sequence with one more.
LEMMA AppendedSet ==
  ASSUME NEW S, NEW q \in Seq(S), NEW e \in S
  PROVE  Append(q, e) \in Seq(S) /\ ToSet(Append(q, e)) = ToSet(q) \union {e}
<1>1. /\ Len(q) \in Nat /\ DOMAIN q = 1..Len(q)
      /\ Append(q, e) \in Seq(S) /\ DOMAIN Append(q, e) = 1..(Len(q) + 1)
      /\ \A i \in 1..Len(q) : Append(q, e)[i] = q[i]
      /\ Append(q, e)[Len(q) + 1] = e
  BY AppendProperties, LenProperties
<1>2. \A i \in 1..(Len(q) + 1) : i \in 1..Len(q) \/ i = Len(q) + 1
  BY <1>1
<1>3. \A i \in 1..Len(q) : i \in 1..(Len(q) + 1)
  BY <1>1
<1>4. Len(q) + 1 \in 1..(Len(q) + 1)
  BY <1>1
<1>5. ToSet(Append(q, e)) \subseteq ToSet(q) \union {e}
  BY <1>1, <1>2 DEF ToSet
<1>6. ToSet(q) \subseteq ToSet(Append(q, e)) /\ e \in ToSet(Append(q, e))
  BY <1>1, <1>3, <1>4 DEF ToSet
<1> QED
  BY <1>1, <1>5, <1>6

\* The elements of two sequences one after the other.
LEMMA JoinedSet ==
  ASSUME NEW S, NEW p \in Seq(S), NEW q \in Seq(S)
  PROVE  ToSet(p \o q) = ToSet(p) \union ToSet(q)
<1>1. /\ Len(p) \in Nat /\ DOMAIN p = 1..Len(p) /\ Len(q) \in Nat /\ DOMAIN q = 1..Len(q)
  BY LenProperties
<1>2. /\ DOMAIN (p \o q) = 1..(Len(p) + Len(q))
      /\ \A i \in 1..(Len(p) + Len(q)) :
           (p \o q)[i] = IF i <= Len(p) THEN p[i] ELSE q[i - Len(p)]
  <2>1. p \o q \in Seq(S) /\ Len(p \o q) = Len(p) + Len(q)
    BY ConcatProperties
  <2>2. DOMAIN (p \o q) = 1..Len(p \o q)
    BY <2>1, LenProperties
  <2> QED
    BY <2>1, <2>2, ConcatProperties
<1>3. ASSUME NEW i \in 1..(Len(p) + Len(q))
      PROVE  (p \o q)[i] \in ToSet(p) \union ToSet(q)
  <2>1. CASE i <= Len(p)
    BY <1>1, <1>2, <2>1 DEF ToSet
  <2>2. CASE ~(i <= Len(p))
    <3>1. i - Len(p) \in DOMAIN q
      BY <1>1, <2>2
    <3> QED
      BY <1>2, <2>2, <3>1 DEF ToSet
  <2> QED
    BY <2>1, <2>2
<1>4. ASSUME NEW i \in DOMAIN p PROVE p[i] \in ToSet(p \o q)
  <2>1. i \in 1..(Len(p) + Len(q)) /\ i <= Len(p)
    BY <1>1
  <2> QED
    BY <1>2, <2>1 DEF ToSet
<1>5. ASSUME NEW i \in DOMAIN q PROVE q[i] \in ToSet(p \o q)
  <2> DEFINE j == Len(p) + i
  <2>1. j \in 1..(Len(p) + Len(q)) /\ ~(j <= Len(p)) /\ j - Len(p) = i
    BY <1>1
  <2> HIDE DEF j
  <2>2. (p \o q)[j] = q[i]
    BY <1>2, <2>1
  <2> QED
    BY <1>2, <2>1, <2>2 DEF ToSet
<1>6. ToSet(p \o q) \subseteq ToSet(p) \union ToSet(q)
  BY <1>2, <1>3 DEF ToSet
<1>7. ToSet(p) \subseteq ToSet(p \o q)
  BY <1>4 DEF ToSet
<1>8. ToSet(q) \subseteq ToSet(p \o q)
  BY <1>5 DEF ToSet
<1> QED
  BY <1>6, <1>7, <1>8

\* Kept is what its definition says, for every sequence.
LEMMA KeptUnfolds ==
  ASSUME NEW types, NEW q, Len(q) \in Nat
  PROVE  /\ Kept(types, q)[0] = << >>
         /\ \A n \in 1..Len(q) :
              Kept(types, q)[n] = IF Matches(types, q[n])
                                  THEN Append(Kept(types, q)[n - 1], q[n])
                                  ELSE Kept(types, q)[n - 1]
<1> DEFINE With(k, n) == IF Matches(types, q[n]) THEN Append(k, q[n]) ELSE k
           Fits(c, n) == c = [i \in 0..n |-> IF i = 0 THEN << >> ELSE With(c[i - 1], i)]
           T == {n \in Nat : \E c : Fits(c, n)}
<1> HIDE DEF With
<1>1. 0 \in T
  <2> DEFINE c == [i \in 0..0 |-> << >>]
  <2>1. Fits(c, 0)
    OBVIOUS
  <2> QED
    BY <2>1
<1>2. ASSUME NEW n \in 0..(Len(q) - 1), n \in T PROVE n + 1 \in T
  <2>1. PICK c : Fits(c, n)
    BY <1>2
  <2> DEFINE d == [i \in 0..(n + 1) |-> IF i = n + 1 THEN With(c[n], n + 1) ELSE c[i]]
  <2>2. ASSUME NEW i \in 0..(n + 1)
        PROVE  d[i] = IF i = 0 THEN << >> ELSE With(d[i - 1], i)
    <3>1. CASE i = n + 1
      <4>1. i # 0 /\ i - 1 = n /\ n \in 0..(n + 1) /\ n # n + 1
        BY <3>1
      <4>2. d[i] = With(c[n], n + 1) /\ d[n] = c[n]
        BY <3>1, <4>1
      <4> QED
        BY <3>1, <4>1, <4>2
    <3>2. CASE i \in 1..n
      <4>1. /\ i # 0 /\ i - 1 \in 0..n /\ i \in 0..n /\ i # n + 1 /\ i - 1 # n + 1
            /\ i - 1 \in 0..(n + 1)
        BY <3>2
      <4>2. d[i] = c[i] /\ d[i - 1] = c[i - 1]
        BY <4>1
      <4>3. c[i] = With(c[i - 1], i)
        BY <2>1, <4>1
      <4> QED
        BY <4>1, <4>2, <4>3
    <3>3. CASE i = 0
      BY <2>1, <3>3
    <3> QED
      BY <3>1, <3>2, <3>3
  <2>3. Fits(d, n + 1)
    BY <2>2
  <2>4. n + 1 \in Nat
    OBVIOUS
  <2> HIDE DEF d, Fits
  <2> QED
    BY <2>3, <2>4
<1>3. Len(q) \in T
  <2> HIDE DEF T
  <2>1. 0..Len(q) \subseteq T
    BY <1>1, <1>2, CountUp
  <2> QED
    BY <2>1
<1>4. Fits(Kept(types, q), Len(q))
  BY <1>3 DEF Kept, With
<1>5. Kept(types, q)[0] = << >>
  BY <1>4
<1>6. ASSUME NEW n \in 1..Len(q)
      PROVE  Kept(types, q)[n] = With(Kept(types, q)[n - 1], n)
  <2>1. n \in 0..Len(q) /\ n # 0
    OBVIOUS
  <2> QED
    BY <1>4, <2>1
<1> QED
  BY <1>5, <1>6 DEF With

\* Nothing of nothing.
LEMMA MatchingNone ==
  ASSUME NEW types
  PROVE  Matching(types, << >>) = << >>
<1>1. Len(<< >>) = 0
  OBVIOUS
<1> QED
  BY <1>1, KeptUnfolds DEF Matching

\* Of one more event, that one if it matches.
LEMMA MatchingOneMore ==
  ASSUME NEW types, NEW S, NEW q \in Seq(S), NEW e \in S
  PROVE  Matching(types, Append(q, e)) =
           IF Matches(types, e) THEN Append(Matching(types, q), e) ELSE Matching(types, q)
<1> DEFINE r == Append(q, e)
           T == {n \in 0..Len(q) : Kept(types, q)[n] = Kept(types, r)[n]}
<1>1. /\ Len(q) \in Nat /\ Len(r) = Len(q) + 1
      /\ \A i \in 1..Len(q) : r[i] = q[i]
      /\ r[Len(q) + 1] = e
  BY AppendProperties, LenProperties
<1> HIDE DEF r
<1>2. /\ Kept(types, q)[0] = << >>
      /\ \A n \in 1..Len(q) :
           Kept(types, q)[n] = IF Matches(types, q[n])
                               THEN Append(Kept(types, q)[n - 1], q[n])
                               ELSE Kept(types, q)[n - 1]
  BY <1>1, KeptUnfolds
<1>3. /\ Kept(types, r)[0] = << >>
      /\ \A n \in 1..(Len(q) + 1) :
           Kept(types, r)[n] = IF Matches(types, r[n])
                               THEN Append(Kept(types, r)[n - 1], r[n])
                               ELSE Kept(types, r)[n - 1]
  BY <1>1, KeptUnfolds
<1>4. 0 \in T
  BY <1>1, <1>2, <1>3
<1>5. ASSUME NEW k \in 0..(Len(q) - 1), k \in T PROVE k + 1 \in T
  <2>1. k + 1 \in 1..Len(q) /\ k + 1 \in 1..(Len(q) + 1) /\ (k + 1) - 1 = k
        /\ k + 1 \in 0..Len(q)
    BY <1>1
  <2>2. r[k + 1] = q[k + 1]
    BY <1>1, <2>1
  <2>3. Kept(types, q)[k] = Kept(types, r)[k]
    BY <1>5
  <2>4. Kept(types, q)[k + 1] = Kept(types, r)[k + 1]
    BY <1>2, <1>3, <2>1, <2>2, <2>3
  <2> QED
    BY <2>1, <2>4
<1>6. Kept(types, q)[Len(q)] = Kept(types, r)[Len(q)]
  <2>1. Len(q) \in T
    <3> HIDE DEF T
    <3>1. 0..Len(q) \subseteq T
      BY <1>1, <1>4, <1>5, CountUp
    <3> QED
      BY <1>1, <3>1
  <2> QED
    BY <2>1
<1>7. Len(q) + 1 \in 1..(Len(q) + 1) /\ (Len(q) + 1) - 1 = Len(q)
  BY <1>1
<1> QED
  BY <1>1, <1>3, <1>6, <1>7 DEF Matching, r

\* Matching returns events of the sequence, and all of them that match.
LEMMA MatchingReturns ==
  ASSUME NEW types, NEW S, NEW q \in Seq(S)
  PROVE  /\ Matching(types, q) \in Seq(S)
         /\ \A e \in ToSet(Matching(types, q)) : \E i \in 1..Len(q) : e = q[i]
         /\ \A i \in 1..Len(q) :
              Matches(types, q[i]) => q[i] \in ToSet(Matching(types, q))
<1> DEFINE k == Kept(types, q)
           T == {n \in 0..Len(q) :
                   /\ k[n] \in Seq(S)
                   /\ \A e \in ToSet(k[n]) : \E i \in 1..n : e = q[i]
                   /\ \A i \in 1..n : Matches(types, q[i]) => q[i] \in ToSet(k[n])}
<1>1. Len(q) \in Nat /\ \A i \in 1..Len(q) : q[i] \in S
  BY LenProperties, ElementOfSeq
<1>2. /\ k[0] = << >>
      /\ \A n \in 1..Len(q) :
           k[n] = IF Matches(types, q[n]) THEN Append(k[n - 1], q[n]) ELSE k[n - 1]
  BY <1>1, KeptUnfolds
<1> HIDE DEF k
<1>3. 0 \in T
  <2>1. << >> \in Seq(S) /\ ToSet(<< >>) = {}
    BY EmptySeq DEF ToSet
  <2>2. 0 \in 0..Len(q) /\ \A i \in 1..0 : FALSE
    BY <1>1
  <2> QED
    BY <1>2, <2>1, <2>2
<1>4. ASSUME NEW n \in 0..(Len(q) - 1), n \in T PROVE n + 1 \in T
  <2>1. /\ n + 1 \in 1..Len(q) /\ n + 1 \in 0..Len(q) /\ (n + 1) - 1 = n
        /\ \A i \in 1..(n + 1) : i \in 1..n \/ i = n + 1
        /\ \A i \in 1..n : i \in 1..(n + 1)
    BY <1>1
  <2>2. /\ k[n] \in Seq(S)
        /\ \A e \in ToSet(k[n]) : \E i \in 1..n : e = q[i]
        /\ \A i \in 1..n : Matches(types, q[i]) => q[i] \in ToSet(k[n])
    BY <1>4
  <2>3. CASE ~Matches(types, q[n + 1])
    <3>1. k[n + 1] = k[n]
      BY <1>2, <2>1, <2>3
    <3> QED
      BY <2>1, <2>2, <2>3, <3>1
  <2>4. CASE Matches(types, q[n + 1])
    <3>1. k[n + 1] = Append(k[n], q[n + 1])
      BY <1>2, <2>1, <2>4
    <3>2. k[n + 1] \in Seq(S) /\ ToSet(k[n + 1]) = ToSet(k[n]) \union {q[n + 1]}
      BY <1>1, <2>1, <2>2, <3>1, AppendedSet
    <3> QED
      BY <2>1, <2>2, <3>2
  <2> QED
    BY <2>3, <2>4
<1>5. Len(q) \in T
  <2> HIDE DEF T
  <2>1. 0..Len(q) \subseteq T
    BY <1>1, <1>3, <1>4, CountUp
  <2> QED
    BY <1>1, <2>1
<1> QED
  BY <1>5 DEF Matching, k

-----------------------------------------------------------------------------
(* Each part of the inductive invariant is preserved.                      *)

\* The steps of Publish on the caller's side, but for its beginning.
Outcome(e) == PublishRefused(e) \/ PublishAcked(e) \/ PublishFails(e)

\* Subscribe and unsubscribe, apart from the consumer.
Membership(s) ==
  Register(s) \/ SubscribeFails(s) \/ Delete(s) \/ StopIter(s) \/ CloseChan(s)

\* The goroutine of a subscription, without an event in its hand.
Turn(s) == Loop(s) \/ NextStopped(s) \/ NextFails(s)

\* The steps that touch neither the stream nor what is read of it: of Close and
\* of the forwarders.
Aside == UNCHANGED <<pub, flight, stream, sub, consumer, start, cursor, heard, replay>>

\* The steps of the system, as the proofs below distinguish them.
LEMMA NextCases ==
  ASSUME [TNext]_tbvars
  PROVE  \/ \E e \in Events : PublishSend(e) \/ Outcome(e) \/ Store(e)
         \/ \E s \in Subscribers : \/ Membership(s) \/ StartConsumer(s)
                                   \/ Turn(s) \/ NextMessage(s) \/ Send(s)
         \/ \E r \in Replays : ReplayStart(r.types, r.limit)
         \/ ReplayFetch \/ ReplayCut \/ Aside
<1>1. CASE BusStep
  <2>1. CASE Close \/ CloseReturns
    BY <2>1 DEF Close, CloseReturns, pvars, svars, Aside
  <2> QED
    BY <1>1, <2>1 DEF BusStep, Outcome, Membership, Turn
<1>2. CASE \E s \in Subscribers : Subscribe(s) \/ Forward(s) \/ ForwardEnds(s) \/ Read(s)
  BY <1>2 DEF Subscribe, Forward, ForwardEnds, Read, Take, vars, pvars, svars, Aside
<1>3. CASE UNCHANGED tbvars
  BY <1>3 DEF tbvars, vars, pvars, svars, Aside
<1> QED
  BY <1>1, <1>2, <1>3 DEF TNext

\* Publish leaves the subscriptions and the Replay alone, ...
LEMMA PublishFrame ==
  ASSUME NEW e \in Events, PublishSend(e) \/ Outcome(e) \/ Store(e)
  PROVE  UNCHANGED <<sub, consumer, start, cursor, heard, replay>>
BY DEF PublishSend, Outcome, PublishRefused, PublishAcked, PublishFails, Store, svars

\* ... the subscriptions leave Publish, the stream and the Replay alone, ...
LEMMA SubscriptionFrame ==
  ASSUME NEW s \in Subscribers,
         \/ Membership(s) \/ StartConsumer(s) \/ Turn(s) \/ NextMessage(s) \/ Send(s)
  PROVE  UNCHANGED <<pub, flight, stream, replay>>
BY DEF Membership, Register, SubscribeFails, Delete, StopIter, CloseChan,
   UnsubscribeStep, StartConsumer, Turn, Loop, NextStopped, NextFails, NextMessage,
   Send, pvars

\* ... and a Replay leaves them all alone.
LEMMA ReplayFrame ==
  ASSUME \/ \E r \in Replays : ReplayStart(r.types, r.limit)
         \/ ReplayFetch \/ ReplayCut
  PROVE  UNCHANGED <<pub, flight, stream, sub, consumer, start, cursor, heard>>
BY DEF ReplayStart, ReplayFetch, ReplayCut, pvars, svars

\* What a fetch of Replay reads, and what it keeps of it.
LEMMA FetchReads ==
  ASSUME Shape, replay.at <= Len(stream), ReplayFetch
  PROVE  \E upto \in replay.at..Len(stream), out \in Seq(Events) :
           /\ upto = replay.at => upto = Len(stream)
           /\ out = replay.out \o
                      Matching(replay.types, SubSeq(stream, replay.at + 1, upto))
           /\ replay' \in ReplayCalls /\ replay'.at = upto
           /\ replay'.types = replay.types /\ replay'.limit = replay.limit
           /\ replay'.due = replay.due
           /\ replay.limit = 0 =>
                replay'.out = out /\ (replay'.state = "done" => upto = replay.at)
<1> DEFINE upto == Min({replay.at + BatchSize, Len(stream)})
           found == Matching(replay.types, SubSeq(stream, replay.at + 1, upto))
           out == replay.out \o found
           full == replay.limit > 0 /\ Len(out) >= replay.limit
<1>1. /\ stream \in Seq(Events) /\ Len(stream) \in Nat
      /\ replay.at \in 0..Len(stream) /\ replay.limit \in Nat
      /\ replay.out \in Seq(Events)
  BY LenProperties DEF Shape, ReplayCalls
<1>2. BatchSize \in Nat \ {0}
  BY <1>1, NatsAssumption, MinOfTwo DEF BatchSize
<1>3. upto \in replay.at..Len(stream) /\ (upto = replay.at => upto = Len(stream))
  <2> DEFINE a == replay.at + BatchSize
             b == Len(stream)
  <2>1. a \in Nat /\ b \in Nat /\ a > replay.at /\ b >= replay.at
    BY <1>1, <1>2
  <2>2. upto = IF a <= b THEN a ELSE b
    <3> HIDE DEF a, b
    <3> QED
      BY <2>1, MinOfTwo DEF a, b
  <2> HIDE DEF upto
  <2> QED
    BY <1>1, <2>1, <2>2
<1>4. replay' = [replay EXCEPT
        !.at = upto,
        !.out = IF full THEN SubSeq(out, 1, replay.limit) ELSE out,
        !.state = IF full \/ upto = replay.at THEN "done" ELSE @]
  BY DEF ReplayFetch
<1>5. replay.state = "running"
  BY DEF ReplayFetch
<1> HIDE DEF upto
<1>6. found \in Seq(Events) /\ out \in Seq(Events)
  <2>1. SubSeq(stream, replay.at + 1, upto) \in Seq(Events)
    BY <1>1, <1>3, PartOf
  <2>2. found \in Seq(Events)
    BY <2>1, MatchingReturns
  <2> QED
    BY <1>1, <2>2, ConcatProperties
<1>7. full => SubSeq(out, 1, replay.limit) \in Seq(Events)
  <2>1. Len(out) \in Nat
    BY <1>6, LenProperties
  <2> HIDE DEF out
  <2>2. ASSUME full PROVE SubSeq(out, 0 + 1, replay.limit) \in Seq(Events)
    BY <1>1, <1>6, <2>1, <2>2, PartOf
  <2> QED
    BY <2>2
<1> HIDE DEF out, found
<1>8. PICK kept \in Seq(Events), state \in {"running", "done"} :
        /\ replay' = [replay EXCEPT !.at = upto, !.out = kept, !.state = state]
        /\ ~full => kept = out /\ (state = "done" => upto = replay.at)
  <2>1. CASE full
    BY <1>4, <1>7, <2>1
  <2>2. CASE ~full
    BY <1>4, <1>5, <1>6, <2>2
  <2> QED
    BY <2>1, <2>2
<1>9. upto \in Nat /\ replay \in ReplayCalls
  BY <1>1, <1>3 DEF Shape
<1>10. /\ replay' \in ReplayCalls /\ replay'.at = upto
       /\ replay'.types = replay.types /\ replay'.limit = replay.limit
       /\ replay'.due = replay.due /\ replay'.out = kept /\ replay'.state = state
  BY <1>8, <1>9 DEF ReplayCalls
<1>11. replay.limit = 0 => ~full
  OBVIOUS
<1> QED
  BY <1>3, <1>6, <1>8, <1>10, <1>11 DEF out, found

\* Every step keeps the types.
LEMMA StepShape ==
  ASSUME Shape, Listening, Replaying, [TNext]_tbvars
  PROVE  Shape'
<1> DEFINE Calls == /\ pub' \in [Events -> {"new", "sent", "ok", "failed"}]
                    /\ flight' \subseteq Events /\ stream' \in Seq(Events)
           Subs  == /\ sub' \in [Subscribers -> {"none", "registered", "nil", "on",
                                                 "deleted", "stopped", "off"}]
                    /\ consumer' \in [Subscribers -> {"none", "loop", "next", "send",
                                                      "gone"}]
                    /\ start' \in [Subscribers -> Nat]
                    /\ cursor' \in [Subscribers -> Nat]
                    /\ heard' \in [Subscribers -> Seq(Events)]
           Rep   == replay' \in ReplayCalls
<1>1. ASSUME Calls, Subs, Rep PROVE Shape'
  BY <1>1 DEF Shape
<1>2. UNCHANGED <<pub, flight, stream>> => Calls
  BY DEF Shape
<1>3. UNCHANGED <<sub, consumer, start, cursor, heard>> => Subs
  BY DEF Shape
<1>4. UNCHANGED replay => Rep
  BY DEF Shape
<1>5. /\ pub \in [Events -> {"new", "sent", "ok", "failed"}]
      /\ flight \subseteq Events /\ stream \in Seq(Events) /\ Len(stream) \in Nat
  BY LenProperties DEF Shape
<1>6. /\ sub \in [Subscribers -> {"none", "registered", "nil", "on", "deleted",
                                  "stopped", "off"}]
      /\ consumer \in [Subscribers -> {"none", "loop", "next", "send", "gone"}]
      /\ start \in [Subscribers -> Nat] /\ cursor \in [Subscribers -> Nat]
      /\ heard \in [Subscribers -> Seq(Events)]
  BY DEF Shape
<1>7. replay \in ReplayCalls
  BY DEF Shape
<1> HIDE DEF Calls, Subs, Rep
<1>8. ASSUME NEW e \in Events, PublishSend(e) \/ Outcome(e) PROVE Shape'
  <2>1. Calls
    BY <1>5, <1>8 DEF PublishSend, Outcome, PublishRefused, PublishAcked,
       PublishFails, Calls
  <2> QED
    BY <1>1, <1>3, <1>4, <1>8, <2>1, PublishFrame
<1>9. ASSUME NEW e \in Events, Store(e) PROVE Shape'
  <2>1. stream' = Append(stream, e) /\ pub' = pub /\ flight' = flight \ {e}
    BY <1>9 DEF Store
  <2>2. stream' \in Seq(Events)
    BY <1>5, <2>1, AppendProperties
  <2>3. Calls
    BY <1>5, <2>1, <2>2 DEF Calls
  <2> QED
    BY <1>1, <1>3, <1>4, <1>9, <2>3, PublishFrame
<1>10. ASSUME NEW s \in Subscribers, Membership(s) PROVE Shape'
  <2>1. Subs
    BY <1>6, <1>10 DEF Membership, Register, SubscribeFails, Delete, StopIter,
       CloseChan, UnsubscribeStep, Subs
  <2> QED
    BY <1>1, <1>2, <1>4, <1>10, <2>1, SubscriptionFrame
<1>11. ASSUME NEW s \in Subscribers, StartConsumer(s) PROVE Shape'
  <2>1. Subs
    BY <1>5, <1>6, <1>11 DEF StartConsumer, Subs
  <2> QED
    BY <1>1, <1>2, <1>4, <1>11, <2>1, SubscriptionFrame
<1>12. ASSUME NEW s \in Subscribers, Turn(s) PROVE Shape'
  <2>1. Subs
    BY <1>6, <1>12 DEF Turn, Loop, NextStopped, NextFails, At, Subs
  <2> QED
    BY <1>1, <1>2, <1>4, <1>12, <2>1, SubscriptionFrame
<1>13. ASSUME NEW s \in Subscribers, NextMessage(s) PROVE Shape'
  <2>1. Subs
    BY <1>6, <1>13 DEF NextMessage, At, Subs
  <2> QED
    BY <1>1, <1>2, <1>4, <1>13, <2>1, SubscriptionFrame
<1>14. ASSUME NEW s \in Subscribers, Send(s) PROVE Shape'
  <2>1. UNCHANGED <<sub, start, cursor>>
        /\ consumer' \in [Subscribers -> {"none", "loop", "next", "send", "gone"}]
    BY <1>6, <1>14 DEF Send, At
  <2>2. heard' = heard \/ heard' = [heard EXCEPT ![s] = Append(@, stream[cursor[s]])]
    BY <1>14 DEF Send
  <2>3. stream[cursor[s]] \in Events
    <3>1. cursor[s] \in 1..Len(stream)
      BY <1>5, <1>6, <1>14 DEF Send, Listening
    <3> QED
      BY <1>5, <3>1, ElementOfSeq
  <2>4. heard' \in [Subscribers -> Seq(Events)]
    <3>1. Append(heard[s], stream[cursor[s]]) \in Seq(Events)
      BY <1>6, <2>3, AppendProperties
    <3> QED
      BY <1>6, <2>2, <3>1
  <2>5. Subs
    BY <1>6, <2>1, <2>4 DEF Subs
  <2> QED
    BY <1>1, <1>2, <1>4, <1>14, <2>5, SubscriptionFrame
<1>15. ASSUME NEW r \in Replays, ReplayStart(r.types, r.limit) PROVE Shape'
  <2>1. replay' = [state |-> "running", types |-> r.types, limit |-> r.limit, at |-> 0,
                   out |-> << >>, due |-> {e \in Events : pub[e] = "ok"}]
    BY <1>15 DEF ReplayStart
  <2>2. << >> \in Seq(Events) /\ r.limit \in Nat
        /\ {e \in Events : pub[e] = "ok"} \subseteq Events
    BY EmptySeq, NatsAssumption
  <2>3. Rep
    BY <2>1, <2>2 DEF Rep, ReplayCalls
  <2> QED
    BY <1>1, <1>2, <1>3, <1>15, <2>3, ReplayFrame
<1>16. CASE ReplayFetch
  <2>1. Rep
    BY <1>16, FetchReads DEF Replaying, Rep
  <2> QED
    BY <1>1, <1>2, <1>3, <1>16, <2>1, ReplayFrame
<1>17. CASE ReplayCut
  <2>1. Rep
    BY <1>7, <1>17 DEF ReplayCut, Rep, ReplayCalls
  <2> QED
    BY <1>1, <1>2, <1>3, <1>17, <2>1, ReplayFrame
<1>18. CASE Aside
  BY <1>1, <1>2, <1>3, <1>4, <1>18 DEF Aside
<1> QED
  BY <1>8, <1>9, <1>10, <1>11, <1>12, <1>13, <1>14, <1>15, <1>16, <1>17, <1>18, NextCases

\* A message is handed to the connection once, and stored once at most.
LEMMA StepStoredOnce ==
  ASSUME Shape, StoredOnce, [TNext]_tbvars
  PROVE  StoredOnce'
<1>1. /\ pub \in [Events -> {"new", "sent", "ok", "failed"}]
      /\ flight \subseteq Events /\ stream \in Seq(Events)
      /\ Len(stream) \in Nat /\ DOMAIN stream = 1..Len(stream)
      /\ ToSet(stream) \subseteq Events
  BY LenProperties, ElementOfSeq DEF Shape, ToSet
<1>2. CASE UNCHANGED <<pub, flight, stream>>
  BY <1>2 DEF StoredOnce, ToSet
<1>3. ASSUME NEW e \in Events, PublishSend(e) \/ Outcome(e) PROVE StoredOnce'
  <2>1. /\ stream' = stream
        /\ \/ pub[e] = "new" /\ flight' = flight \union {e}
           \/ flight' = flight
        /\ \E o \in {"sent", "ok", "failed"} :
             pub' = [pub EXCEPT ![e] = o] /\ (o = "ok" => e \in ToSet(stream))
    BY <1>3 DEF PublishSend, Outcome, PublishRefused, PublishAcked, PublishFails
  <2>2. ToSet(stream)' = ToSet(stream)
    BY <2>1 DEF ToSet
  <2>3. \A d \in Events : pub[d] # "new" => pub'[d] # "new"
    BY <1>1, <2>1
  <2>4. pub'[e] # "new"
    BY <1>1, <2>1
  <2>5. \A d \in Events : pub'[d] = "ok" => d \in ToSet(stream)
    BY <1>1, <2>1 DEF StoredOnce
  <2>6. \A d \in flight' : pub'[d] # "new" /\ d \notin ToSet(stream)
    BY <1>1, <2>1, <2>3, <2>4 DEF StoredOnce
  <2>7. \A d \in ToSet(stream) : pub'[d] # "new"
    BY <1>1, <2>3 DEF StoredOnce
  <2> QED
    BY <2>1, <2>2, <2>5, <2>6, <2>7 DEF StoredOnce
<1>4. ASSUME NEW e \in Events, Store(e) PROVE StoredOnce'
  <2>1. /\ e \in flight /\ stream' = Append(stream, e)
        /\ flight' = flight \ {e} /\ pub' = pub
    BY <1>4 DEF Store
  <2>2. ToSet(stream') = ToSet(stream) \union {e}
    BY <1>1, <2>1, AppendedSet
  <2>3. ToSet(stream)' = ToSet(stream')
    BY DEF ToSet
  <2>4. pub[e] # "new" /\ e \notin ToSet(stream)
    BY <2>1 DEF StoredOnce
  <2>5. /\ DOMAIN stream' = 1..(Len(stream) + 1)
        /\ \A i \in 1..Len(stream) : stream'[i] = stream[i]
        /\ stream'[Len(stream) + 1] = e
    BY <1>1, <2>1, AppendProperties, LenProperties
  <2>6. \A i \in 1..Len(stream) : stream[i] # e
    BY <1>1, <2>4 DEF ToSet
  <2>7. \A i \in DOMAIN stream' : i \in 1..Len(stream) \/ i = Len(stream) + 1
    BY <1>1, <2>5
  <2>8. \A i, j \in DOMAIN stream' : stream'[i] = stream'[j] => i = j
    BY <1>1, <2>5, <2>6, <2>7 DEF StoredOnce
  <2> QED
    BY <2>1, <2>2, <2>3, <2>4, <2>8 DEF StoredOnce
<1> QED
  BY <1>2, <1>3, <1>4, SubscriptionFrame, ReplayFrame, NextCases DEF Aside

\* What was due of the stream are messages of it, and stays due when it grows.
LEMMA DueStays ==
  ASSUME Shape, NEW s \in Subscribers, NEW n \in 0..Len(stream), start[s] <= n
  PROVE  /\ Due(s, n) \in Seq(Events)
         /\ \A e \in ToSet(Due(s, n)) : \E k \in 1..n : e = stream[k]
         /\ \A e \in Events :
              Matching(Filter[s], SubSeq(Append(stream, e), start[s] + 1, n)) = Due(s, n)
<1>1. /\ stream \in Seq(Events) /\ Len(stream) \in Nat
      /\ start[s] \in 0..n /\ n \in 0..Len(stream)
  BY LenProperties DEF Shape
<1> DEFINE part == SubSeq(stream, start[s] + 1, n)
<1>2. /\ part \in Seq(Events) /\ Len(part) = n - start[s]
      /\ \A i \in 1..(n - start[s]) : part[i] = stream[start[s] + i]
  BY <1>1, PartOf
<1>3. ASSUME NEW e \in Events
      PROVE  SubSeq(Append(stream, e), start[s] + 1, n) = part
  <2> DEFINE more == Append(stream, e)
             other == SubSeq(more, start[s] + 1, n)
  <2>1. /\ more \in Seq(Events) /\ Len(more) = Len(stream) + 1
        /\ \A i \in 1..Len(stream) : more[i] = stream[i]
    <3>1. stream \in Seq(Events)
      BY <1>1
    <3> QED
      BY <3>1, AppendProperties
  <2> HIDE DEF more
  <2>2. /\ more \in Seq(Events) /\ n \in 0..Len(more) /\ start[s] \in 0..n
    BY <1>1, <2>1
  <2>3. /\ other \in Seq(Events) /\ Len(other) = n - start[s]
        /\ \A i \in 1..(n - start[s]) : other[i] = more[start[s] + i]
    BY <2>2, PartOf
  <2> HIDE DEF other, part
  <2>4. \A i \in 1..(n - start[s]) : start[s] + i \in 1..Len(stream)
    BY <1>1
  <2>5. \A i \in 1..(n - start[s]) : other[i] = part[i]
    BY <1>2, <2>1, <2>3, <2>4
  <2>6. other = part
    BY <1>2, <2>3, <2>5, SeqEqual
  <2> QED
    BY <2>6 DEF other, more
<1>4. /\ Matching(Filter[s], part) \in Seq(Events)
      /\ \A e \in ToSet(Matching(Filter[s], part)) : \E i \in 1..Len(part) : e = part[i]
  <2> HIDE DEF part
  <2> QED
    BY <1>2, MatchingReturns
<1>5. \A e \in ToSet(Due(s, n)) : \E k \in 1..n : e = stream[k]
  <2> SUFFICES ASSUME NEW e \in ToSet(Due(s, n)) PROVE \E k \in 1..n : e = stream[k]
    OBVIOUS
  <2>1. PICK i \in 1..Len(part) : e = part[i]
    BY <1>4 DEF Due
  <2> HIDE DEF part
  <2>2. i \in 1..(n - start[s]) /\ start[s] + i \in 1..n
    BY <1>1, <1>2, <2>1
  <2> QED
    BY <1>2, <2>1, <2>2
<1> QED
  BY <1>3, <1>4, <1>5 DEF Due

\* What the n-th message of the stream adds to it, as NextMessage decides.
LEMMA DueGrows ==
  ASSUME Shape, NEW s \in Subscribers, NEW n \in 1..Len(stream), start[s] < n
  PROVE  Due(s, n) = IF Matches(Filter[s], stream[n])
                     THEN Append(Due(s, n - 1), stream[n]) ELSE Due(s, n - 1)
<1>1. /\ stream \in Seq(Events) /\ Len(stream) \in Nat
      /\ start[s] \in 0..(n - 1) /\ n - 1 \in 0..Len(stream)
  BY LenProperties DEF Shape
<1>2. stream[n] \in Events
  BY <1>1, ElementOfSeq
<1> DEFINE part == SubSeq(stream, start[s] + 1, n)
           old  == SubSeq(stream, start[s] + 1, n - 1)
<1>3. old \in Seq(Events)
  BY <1>1, PartOf
<1>4. part = Append(old, stream[n])
  BY <1>1, PartGrows
<1> HIDE DEF part, old
<1>5. Matching(Filter[s], part) =
        IF Matches(Filter[s], stream[n])
        THEN Append(Matching(Filter[s], old), stream[n]) ELSE Matching(Filter[s], old)
  BY <1>2, <1>3, <1>4, MatchingOneMore
<1> QED
  BY <1>5 DEF Due, part, old

\* Listening, of one subscriber.
Hears(s) ==
  /\ start[s] <= cursor[s] /\ cursor[s] <= Len(stream)
  /\ sub[s] \in {"none", "registered", "nil"} => consumer[s] = "none"
  /\ consumer[s] = "none" => start[s] = cursor[s]
  /\ \/ consumer[s] # "send" /\ heard[s] = Due(s, cursor[s])
     \/ /\ consumer[s] \in {"send", "gone"} /\ start[s] < cursor[s]
        /\ Matches(Filter[s], stream[cursor[s]])
        /\ heard[s] = Due(s, cursor[s] - 1)

\* The subscription that takes a step still hears what is due to it.
LEMMA SubscriptionHears ==
  ASSUME Shape, NEW s \in Subscribers, Hears(s),
         \/ Membership(s) \/ StartConsumer(s) \/ Turn(s) \/ NextMessage(s) \/ Send(s)
  PROVE  Hears(s)'
<1>1. /\ stream \in Seq(Events) /\ Len(stream) \in Nat /\ stream' = stream
      /\ sub \in [Subscribers -> {"none", "registered", "nil", "on", "deleted",
                                  "stopped", "off"}]
      /\ consumer \in [Subscribers -> {"none", "loop", "next", "send", "gone"}]
      /\ start \in [Subscribers -> Nat] /\ cursor \in [Subscribers -> Nat]
      /\ heard \in [Subscribers -> Seq(Events)]
  BY SubscriptionFrame, LenProperties DEF Shape
<1>2. start'[s] = start[s] => \A n : Due(s, n)' = Due(s, n)
  BY <1>1 DEF Due
<1>3. CASE Membership(s)
  <2>1. /\ UNCHANGED <<consumer, start, cursor, heard>>
        /\ sub'[s] \in {"none", "registered", "nil"} =>
             sub[s] \in {"none", "registered", "nil"}
    BY <1>1, <1>3 DEF Membership, Register, SubscribeFails, Delete, StopIter,
       CloseChan, UnsubscribeStep
  <2> QED
    BY <1>1, <1>2, <2>1 DEF Hears
<1>4. CASE StartConsumer(s)
  <2>1. /\ sub[s] = "registered" /\ sub'[s] = "on" /\ consumer'[s] = "loop"
        /\ start'[s] = Len(stream) /\ cursor'[s] = Len(stream) /\ heard' = heard
    BY <1>1, <1>4 DEF StartConsumer
  <2>2. Due(s, start[s]) = << >>
    <3>1. SubSeq(stream, start[s] + 1, start[s]) = << >>
      BY <1>1, SubSeqEmpty
    <3> QED
      BY <3>1, MatchingNone DEF Due
  <2>3. heard[s] = << >>
    BY <2>1, <2>2 DEF Hears
  <2>4. Due(s, Len(stream))' = << >>
    <3>1. SubSeq(stream, Len(stream) + 1, Len(stream)) = << >>
      BY <1>1, SubSeqEmpty
    <3> QED
      BY <1>1, <2>1, <3>1, MatchingNone DEF Due
  <2> QED
    BY <1>1, <2>1, <2>3, <2>4 DEF Hears
<1>5. CASE Turn(s)
  <2>1. /\ UNCHANGED <<sub, start, cursor, heard>> /\ consumer[s] \in {"loop", "next"}
        /\ consumer'[s] \in {"loop", "next", "gone"}
    BY <1>1, <1>5 DEF Turn, Loop, NextStopped, NextFails, At
  <2> QED
    BY <1>1, <1>2, <2>1 DEF Hears
<1>6. CASE NextMessage(s)
  <2>1. /\ consumer[s] = "next" /\ cursor[s] < Len(stream)
        /\ cursor'[s] = cursor[s] + 1 /\ UNCHANGED <<sub, start, heard>>
        /\ consumer'[s] = IF Matches(Filter[s], stream[cursor[s] + 1])
                          THEN "send" ELSE "loop"
    BY <1>1, <1>6 DEF NextMessage, At
  <2>2. cursor[s] + 1 \in 1..Len(stream) /\ start[s] < cursor[s] + 1
        /\ (cursor[s] + 1) - 1 = cursor[s]
    BY <1>1, <2>1 DEF Hears
  <2>3. Due(s, cursor[s] + 1) = IF Matches(Filter[s], stream[cursor[s] + 1])
                                THEN Append(Due(s, cursor[s]), stream[cursor[s] + 1])
                                ELSE Due(s, cursor[s])
    BY <2>2, DueGrows
  <2>4. heard[s] = Due(s, cursor[s]) /\ consumer[s] \notin {"none", "send", "gone"}
    BY <2>1 DEF Hears
  <2>5. sub[s] \notin {"none", "registered", "nil"}
    BY <2>1 DEF Hears
  <2>6. CASE Matches(Filter[s], stream[cursor[s] + 1])
    BY <1>1, <1>2, <2>1, <2>2, <2>4, <2>5, <2>6 DEF Hears
  <2>7. CASE ~Matches(Filter[s], stream[cursor[s] + 1])
    BY <1>1, <1>2, <2>1, <2>2, <2>3, <2>4, <2>5, <2>7 DEF Hears
  <2> QED
    BY <2>6, <2>7
<1>7. CASE Send(s)
  <2>1. consumer[s] = "send" /\ UNCHANGED <<sub, start, cursor>>
    BY <1>7 DEF Send
  <2>2. /\ start[s] < cursor[s] /\ cursor[s] \in 1..Len(stream)
        /\ Matches(Filter[s], stream[cursor[s]])
        /\ heard[s] = Due(s, cursor[s] - 1)
        /\ sub[s] \notin {"none", "registered", "nil"}
    BY <1>1, <2>1 DEF Hears
  <2>3. Due(s, cursor[s]) = Append(heard[s], stream[cursor[s]])
    BY <2>2, DueGrows
  <2>4. CASE consumer'[s] = "loop"
             /\ heard' = [heard EXCEPT ![s] = Append(@, stream[cursor[s]])]
    <3>1. heard'[s] = Due(s, cursor[s])
      BY <1>1, <2>3, <2>4
    <3> QED
      BY <1>1, <1>2, <2>1, <2>2, <2>4, <3>1 DEF Hears
  <2>5. CASE consumer'[s] \in {"send", "gone"} /\ heard' = heard
    BY <1>1, <1>2, <2>1, <2>2, <2>5 DEF Hears
  <2>6. \/ consumer'[s] = "loop" /\ heard' = [heard EXCEPT ![s] = Append(@, stream[cursor[s]])]
        \/ consumer'[s] \in {"send", "gone"} /\ heard' = heard
    BY <1>1, <1>7, <2>1 DEF Send, At
  <2> QED
    BY <2>4, <2>5, <2>6
<1> QED
  BY <1>3, <1>4, <1>5, <1>6, <1>7

\* The steps of one subscription do not disturb another.
LEMMA OthersStay ==
  ASSUME Shape, NEW s \in Subscribers, NEW t \in Subscribers, t # s,
         \/ Membership(t) \/ StartConsumer(t) \/ Turn(t) \/ NextMessage(t) \/ Send(t)
  PROVE  /\ sub'[s] = sub[s] /\ consumer'[s] = consumer[s] /\ start'[s] = start[s]
         /\ cursor'[s] = cursor[s] /\ heard'[s] = heard[s]
<1>1. CASE Membership(t)
  BY <1>1 DEF Shape, Membership, Register, SubscribeFails, Delete, StopIter,
     CloseChan, UnsubscribeStep
<1>2. CASE StartConsumer(t)
  BY <1>2 DEF Shape, StartConsumer
<1>3. CASE Turn(t)
  BY <1>3 DEF Shape, Turn, Loop, NextStopped, NextFails, At
<1>4. CASE NextMessage(t)
  BY <1>4 DEF Shape, NextMessage, At
<1>5. CASE Send(t)
  <2>1. UNCHANGED <<sub, start, cursor>> /\ consumer'[s] = consumer[s]
    BY <1>5 DEF Shape, Send, At
  <2>2. heard'[s] = heard[s]
    BY <1>5 DEF Shape, Send
  <2> QED
    BY <2>1, <2>2
<1> QED
  BY <1>1, <1>2, <1>3, <1>4, <1>5

\* Whatever happens, every subscriber has heard what its goroutine has read.
LEMMA StepListening ==
  ASSUME Shape, Listening, [TNext]_tbvars
  PROVE  Listening'
<1> SUFFICES ASSUME NEW s \in Subscribers PROVE Hears(s)'
  BY DEF Listening, Hears
<1>1. Hears(s)
  BY DEF Listening, Hears
<1>2. /\ stream \in Seq(Events) /\ Len(stream) \in Nat
      /\ start[s] \in Nat /\ cursor[s] \in Nat
  BY LenProperties DEF Shape
<1>3. ASSUME sub'[s] = sub[s], consumer'[s] = consumer[s], start'[s] = start[s],
             cursor'[s] = cursor[s], heard'[s] = heard[s], stream' = stream
      PROVE  Hears(s)'
  <2>1. \A n : Due(s, n)' = Due(s, n)
    BY <1>3 DEF Due
  <2> QED
    BY <1>1, <1>3, <2>1 DEF Hears
<1>4. ASSUME NEW e \in Events, Store(e) PROVE Hears(s)'
  <2>1. stream' = Append(stream, e) /\ UNCHANGED <<sub, consumer, start, cursor, heard>>
    BY <1>4, PublishFrame DEF Store
  <2>2. /\ Len(stream') = Len(stream) + 1
        /\ \A i \in 1..Len(stream) : stream'[i] = stream[i]
    BY <1>2, <2>1, AppendProperties
  <2>3. \A n \in 0..Len(stream) : start[s] <= n => Due(s, n)' = Due(s, n)
    BY <2>1, DueStays DEF Due
  <2>4. /\ cursor[s] \in 0..Len(stream) /\ cursor[s] <= Len(stream')
        /\ start[s] < cursor[s] =>
             /\ cursor[s] \in 1..Len(stream) /\ cursor[s] - 1 \in 0..Len(stream)
             /\ start[s] <= cursor[s] - 1
    BY <1>1, <1>2, <2>2 DEF Hears
  <2>5. Due(s, cursor[s])' = Due(s, cursor[s])
    BY <1>1, <2>1, <2>3, <2>4 DEF Hears
  <2>6. start[s] < cursor[s] =>
          /\ Due(s, cursor[s] - 1)' = Due(s, cursor[s] - 1)
          /\ stream'[cursor[s]] = stream[cursor[s]]
    BY <2>1, <2>2, <2>3, <2>4
  <2> QED
    BY <1>1, <2>1, <2>4, <2>5, <2>6 DEF Hears
<1>5. ASSUME NEW e \in Events, PublishSend(e) \/ Outcome(e) PROVE Hears(s)'
  <2>1. stream' = stream
    BY <1>5 DEF PublishSend, Outcome, PublishRefused, PublishAcked, PublishFails
  <2> QED
    BY <1>3, <1>5, <2>1, PublishFrame
<1>6. ASSUME NEW t \in Subscribers,
             \/ Membership(t) \/ StartConsumer(t) \/ Turn(t) \/ NextMessage(t) \/ Send(t)
      PROVE  Hears(s)'
  <2>1. CASE t = s
    BY <1>1, <1>6, <2>1, SubscriptionHears
  <2>2. CASE t # s
    BY <1>3, <1>6, <2>2, OthersStay, SubscriptionFrame
  <2> QED
    BY <2>1, <2>2
<1>7. CASE \/ \E r \in Replays : ReplayStart(r.types, r.limit)
           \/ ReplayFetch \/ ReplayCut
  BY <1>3, <1>7, ReplayFrame
<1>8. CASE Aside
  BY <1>3, <1>8 DEF Aside
<1> QED
  BY <1>4, <1>5, <1>6, <1>7, <1>8, NextCases

\* A Replay loses nothing of what was acknowledged before it.
LEMMA StepReplaying ==
  ASSUME Shape, StoredOnce, Replaying, [TNext]_tbvars
  PROVE  Replaying'
<1>1. /\ stream \in Seq(Events) /\ Len(stream) \in Nat /\ DOMAIN stream = 1..Len(stream)
      /\ replay.at \in 0..Len(stream) /\ replay.due \subseteq ToSet(stream)
      /\ replay.out \in Seq(Events) /\ replay.limit \in Nat
  BY LenProperties DEF Shape, ReplayCalls, Replaying
<1>2. CASE UNCHANGED <<stream, replay>>
  BY <1>2 DEF Replaying, ToSet
<1>3. ASSUME NEW e \in Events, Store(e) PROVE Replaying'
  <2>1. stream' = Append(stream, e) /\ replay' = replay
    BY <1>3, PublishFrame DEF Store
  <2>2. /\ Len(stream') = Len(stream) + 1
        /\ \A i \in 1..Len(stream) : stream'[i] = stream[i]
    BY <1>1, <2>1, AppendProperties
  <2>3. ToSet(stream) \subseteq ToSet(stream')
    BY <1>1, <2>1, AppendedSet
  <2>4. \A i \in 1..replay.at : stream'[i] = stream[i]
    BY <1>1, <2>2
  <2>5. replay'.due \subseteq ToSet(stream)' /\ replay'.at <= Len(stream')
    <3>1. ToSet(stream)' = ToSet(stream')
      BY DEF ToSet
    <3> QED
      BY <1>1, <2>1, <2>2, <2>3, <3>1
  <2>6. ToSet(replay.out)' = ToSet(replay.out)
    BY <2>1 DEF ToSet
  <2> QED
    BY <2>1, <2>4, <2>5, <2>6 DEF Replaying
<1>4. ASSUME NEW r \in Replays, ReplayStart(r.types, r.limit) PROVE Replaying'
  <2>1. /\ replay' = [state |-> "running", types |-> r.types, limit |-> r.limit, at |-> 0,
                      out |-> << >>, due |-> {e \in Events : pub[e] = "ok"}]
        /\ stream' = stream
    BY <1>4 DEF ReplayStart, pvars
  <2>2. replay'.due \subseteq ToSet(stream)
    BY <2>1 DEF StoredOnce
  <2>3. /\ replay'.at = 0 /\ replay'.state = "running"
        /\ replay'.due \subseteq ToSet(stream)'
    BY <2>1, <2>2 DEF ToSet
  <2>4. \A i \in 1..0 : FALSE
    OBVIOUS
  <2> QED
    BY <1>1, <2>1, <2>3, <2>4 DEF Replaying
<1>5. CASE ReplayFetch
  <2>1. PICK upto \in replay.at..Len(stream), out \in Seq(Events) :
          /\ upto = replay.at => upto = Len(stream)
          /\ out = replay.out \o
                     Matching(replay.types, SubSeq(stream, replay.at + 1, upto))
          /\ replay'.at = upto
          /\ replay'.types = replay.types /\ replay'.limit = replay.limit
          /\ replay'.due = replay.due
          /\ replay.limit = 0 =>
               replay'.out = out /\ (replay'.state = "done" => upto = replay.at)
    BY <1>5, FetchReads DEF Replaying
  <2>2. stream' = stream /\ ToSet(stream)' = ToSet(stream)
    BY <1>5, ReplayFrame DEF ToSet
  <2>3. /\ upto \in 0..Len(stream) /\ replay.at \in 0..upto
        /\ upto \in Nat /\ upto <= Len(stream) /\ replay.at \in Nat
    <3>1. Len(stream) \in Nat /\ replay.at \in 0..Len(stream)
      BY <1>1
    <3>2. upto \in replay.at..Len(stream)
      OBVIOUS
    <3> QED
      BY <3>1, <3>2
  <2>4. ASSUME replay.limit = 0, NEW i \in 1..upto, Matches(replay.types, stream[i])
        PROVE  stream[i] \in ToSet(out)
    <3> DEFINE part == SubSeq(stream, replay.at + 1, upto)
               more == Matching(replay.types, part)
    <3>1. /\ part \in Seq(Events) /\ Len(part) = upto - replay.at
          /\ \A j \in 1..(upto - replay.at) : part[j] = stream[replay.at + j]
      <4>1. /\ stream \in Seq(Events) /\ upto \in 0..Len(stream)
            /\ replay.at \in 0..upto
        BY <1>1, <2>3
      <4>2. ASSUME NEW a \in 0..upto
            PROVE  /\ SubSeq(stream, a + 1, upto) \in Seq(Events)
                   /\ Len(SubSeq(stream, a + 1, upto)) = upto - a
                   /\ \A j \in 1..(upto - a) :
                        SubSeq(stream, a + 1, upto)[j] = stream[a + j]
        BY <4>1, PartOf
      <4> QED
        BY <4>1, <4>2
    <3>2. /\ more \in Seq(Events)
          /\ \A j \in 1..Len(part) :
               Matches(replay.types, part[j]) => part[j] \in ToSet(more)
      <4> HIDE DEF part
      <4> QED
        BY <3>1, MatchingReturns
    <3>3. ToSet(out) = ToSet(replay.out) \union ToSet(more)
      <4>1. out = replay.out \o more
        BY <2>1
      <4>2. replay.out \in Seq(Events) /\ more \in Seq(Events)
        BY <1>1, <3>2
      <4> HIDE DEF more
      <4>3. ToSet(replay.out \o more) = ToSet(replay.out) \union ToSet(more)
        BY <4>2, JoinedSet
      <4> QED
        BY <4>1, <4>3
    <3> HIDE DEF part, more
    <3>4. CASE i \in 1..replay.at
      BY <2>4, <3>3, <3>4 DEF Replaying
    <3>5. CASE i \notin 1..replay.at
      <4> DEFINE j == i - replay.at
      <4>1. j \in 1..(upto - replay.at) /\ replay.at + j = i
        BY <1>1, <2>3, <3>5
      <4> HIDE DEF j
      <4>2. part[j] = stream[i] /\ j \in 1..Len(part)
        BY <3>1, <4>1
      <4> QED
        BY <2>4, <3>2, <3>3, <4>2
    <3> QED
      BY <3>4, <3>5
  <2>5. ASSUME replay.limit = 0, replay'.state = "done", NEW e \in replay.due
        PROVE  \E i \in 1..upto : stream[i] = e
    <3>1. upto = Len(stream)
      BY <2>1, <2>5
    <3> QED
      BY <1>1, <3>1 DEF ToSet
  <2>6. replay.limit = 0 => ToSet(replay.out)' = ToSet(out)
    BY <2>1 DEF ToSet
  <2> QED
    BY <1>1, <2>1, <2>2, <2>3, <2>4, <2>5, <2>6 DEF Replaying
<1>6. CASE ReplayCut
  <2>1. stream' = stream /\ replay' = [replay EXCEPT !.state = "cut"]
    BY <1>6 DEF ReplayCut, pvars
  <2>2. /\ replay'.state = "cut" /\ replay'.at = replay.at /\ replay'.due = replay.due
        /\ replay'.types = replay.types /\ replay'.limit = replay.limit
        /\ replay'.out = replay.out
    BY <2>1 DEF Shape, ReplayCalls
  <2> QED
    BY <2>1, <2>2 DEF Replaying, ToSet
<1>7. ASSUME NEW e \in Events, PublishSend(e) \/ Outcome(e) PROVE Replaying'
  <2>1. stream' = stream
    BY <1>7 DEF PublishSend, Outcome, PublishRefused, PublishAcked, PublishFails
  <2> QED
    BY <1>2, <1>7, <2>1, PublishFrame
<1>8. CASE Aside
  BY <1>2, <1>8 DEF Aside
<1> QED
  BY <1>2, <1>3, <1>4, <1>5, <1>6, <1>7, <1>8, SubscriptionFrame, NextCases

\* Everything starts empty: no call made, no message stored, nothing due.
LEMMA InitIndInv == TInit => IndInv
<1> SUFFICES ASSUME TInit PROVE IndInv
  OBVIOUS
<1>1. /\ pub = [e \in Events |-> "new"] /\ flight = {} /\ stream = << >>
      /\ sub = [s \in Subscribers |-> "none"]
      /\ consumer = [s \in Subscribers |-> "none"]
      /\ start = [s \in Subscribers |-> 0] /\ cursor = [s \in Subscribers |-> 0]
      /\ heard = [s \in Subscribers |-> << >>]
      /\ replay = [state |-> "none", types |-> {}, limit |-> 0, at |-> 0,
                   out |-> << >>, due |-> {}]
  BY DEF TInit, Init
<1>2. << >> \in Seq(Events) /\ ToSet(<< >>) = {} /\ Len(<< >>) = 0
  BY EmptySeq DEF ToSet
<1>3. Shape
  BY <1>1, <1>2 DEF Shape, ReplayCalls
<1>4. StoredOnce
  BY <1>1, <1>2 DEF StoredOnce
<1>5. Listening
  <2> SUFFICES ASSUME NEW s \in Subscribers
               PROVE  /\ start[s] = 0 /\ cursor[s] = 0 /\ Len(stream) = 0
                      /\ consumer[s] = "none" /\ heard[s] = Due(s, 0)
    BY DEF Listening
  <2>1. SubSeq(stream, start[s] + 1, 0) = << >>
    <3>1. start[s] + 1 = 1
      BY <1>1
    <3> QED
      BY <1>1, <1>2, <3>1, SubSeqEmpty
  <2>2. Due(s, 0) = << >>
    BY <2>1, MatchingNone DEF Due
  <2> QED
    BY <1>1, <1>2, <2>2
<1>6. Replaying
  <2>1. /\ replay.due = {} /\ replay.at = 0 /\ replay.state = "none"
        /\ Len(stream) = 0 /\ \A i \in 1..0 : FALSE
    BY <1>1, <1>2
  <2> QED
    BY <2>1 DEF Replaying
<1> QED
  BY <1>3, <1>4, <1>5, <1>6 DEF IndInv

-----------------------------------------------------------------------------
(* The theorems.                                                           *)

\* The bus and the forwarders around it never leave the inductive invariant.
THEOREM Invariance == TSpec => []IndInv
<1>1. IndInv /\ [TNext]_tbvars => IndInv'
  BY StepShape, StepStoredOnce, StepListening, StepReplaying DEF IndInv
<1> QED
  BY <1>1, InitIndInv, PTL DEF TSpec

\* A sequence without the element just appended to it.
LEMMA FrontOfAppended ==
  ASSUME NEW S, NEW q \in Seq(S), NEW e \in S
  PROVE  Append(q, e) # << >> /\ Front(Append(q, e)) = q
<1> DEFINE more == Append(q, e)
<1>1. Len(q) \in Nat
  BY LenProperties
<1>2. /\ more \in Seq(S) /\ Len(more) = Len(q) + 1
      /\ \A i \in 1..Len(q) : more[i] = q[i]
  BY AppendProperties
<1> HIDE DEF more
<1>3. Len(q) \in 0..Len(more) /\ 0 \in 0..Len(q) /\ Len(more) - 1 = Len(q)
  BY <1>1, <1>2
<1>4. /\ SubSeq(more, 0 + 1, Len(q)) \in Seq(S)
      /\ Len(SubSeq(more, 0 + 1, Len(q))) = Len(q) - 0
      /\ \A i \in 1..(Len(q) - 0) : SubSeq(more, 0 + 1, Len(q))[i] = more[0 + i]
  BY <1>2, <1>3, PartOf
<1>5. SubSeq(more, 1, Len(q)) = q
  <2> DEFINE part == SubSeq(more, 1, Len(q))
  <2>1. /\ part \in Seq(S) /\ Len(part) = Len(q)
        /\ \A i \in 1..Len(q) : part[i] = more[i]
    BY <1>1, <1>4
  <2> HIDE DEF part
  <2>2. \A i \in 1..Len(q) : part[i] = q[i]
    BY <1>2, <2>1
  <2>3. part = q
    BY <2>1, <2>2, SeqEqual
  <2> QED
    BY <2>3 DEF part
<1>6. Front(more) = q
  BY <1>3, <1>5 DEF Front
<1>7. more # << >>
  BY <1>1, <1>2, EmptySeq
<1> QED
  BY <1>6, <1>7 DEF more

\* NoGap: the goroutine of a subscription waits for room in the channel and
\* passes over no message of the subscriber's types (nats_bus.go).
THEOREM NoGaps == TSpec => []NoGap
<1>1. IndInv => NoGap
  <2> SUFFICES ASSUME IndInv, NEW s \in Subscribers
               PROVE  \/ heard[s] = Due(s, cursor[s])
                      \/ /\ consumer[s] \in {"send", "gone"}
                         /\ Due(s, cursor[s]) # << >>
                         /\ heard[s] = Front(Due(s, cursor[s]))
    BY DEF NoGap, Due
  <2>1. /\ stream \in Seq(Events) /\ Len(stream) \in Nat
        /\ start[s] \in Nat /\ cursor[s] \in Nat
    BY LenProperties DEF IndInv, Shape
  <2>2. CASE consumer[s] # "send" /\ heard[s] = Due(s, cursor[s])
    BY <2>2
  <2>3. CASE /\ consumer[s] \in {"send", "gone"} /\ start[s] < cursor[s]
             /\ Matches(Filter[s], stream[cursor[s]])
             /\ heard[s] = Due(s, cursor[s] - 1)
    <3>1. cursor[s] <= Len(stream)
      BY DEF IndInv, Listening
    <3>2. /\ cursor[s] \in 1..Len(stream)
          /\ cursor[s] - 1 \in 0..Len(stream) /\ start[s] <= cursor[s] - 1
      BY <2>1, <2>3, <3>1
    <3>3. stream[cursor[s]] \in Events
      BY <2>1, <3>2, ElementOfSeq
    <3>4. Due(s, cursor[s] - 1) \in Seq(Events)
      BY <3>2, DueStays DEF IndInv
    <3>5. Due(s, cursor[s]) = Append(Due(s, cursor[s] - 1), stream[cursor[s]])
      BY <2>3, <3>2, DueGrows DEF IndInv
    <3> QED
      BY <2>3, <3>3, <3>4, <3>5, FrontOfAppended
  <2> QED
    BY <2>2, <2>3 DEF IndInv, Listening
<1> QED
  BY <1>1, Invariance, PTL

\* ReplayComplete: publishing goes on while Replay reads batch after batch, and
\* it still returns all that was acknowledged before it (nats_bus.go).
THEOREM ReplaysComplete == TSpec => []ReplayComplete
<1>1. IndInv => ReplayComplete
  <2> SUFFICES ASSUME IndInv, replay.state = "done", replay.limit = 0,
                      NEW e \in replay.due, Matches(replay.types, e)
               PROVE  e \in ToSet(replay.out)
    BY DEF ReplayComplete
  <2>1. PICK i \in 1..replay.at : stream[i] = e
    BY DEF IndInv, Replaying
  <2> QED
    BY <2>1 DEF IndInv, Replaying
<1> QED
  BY <1>1, Invariance, PTL

\* The server stores a message: the bus persists the event and orders it last.
LEMMA StorePersists ==
  ASSUME IndInv, NEW e \in Events, Store(e)
  PROVE  Bus!PersistInOrder(e)
<1>1. stream \in Seq(Events)
  BY DEF IndInv, Shape
<1>2. e \in flight /\ stream' = Append(stream, e) /\ heard' = heard
  BY DEF Store, svars
<1>3. e \notin ToSet(stream)
  BY <1>2 DEF IndInv, StoredOnce
<1>4. ToSet(stream)' = ToSet(stream) \union {e}
  <2>1. ToSet(Append(stream, e)) = ToSet(stream) \union {e}
    BY <1>1, AppendedSet
  <2>2. ToSet(stream)' = ToSet(stream')
    BY DEF ToSet
  <2> QED
    BY <1>2, <2>1, <2>2
<1> QED
  BY <1>2, <1>3, <1>4 DEF Bus!PersistInOrder

\* A message sent to a subscriber is one it has not heard, and a later one than
\* all it has heard.
LEMMA SendIsHeard ==
  ASSUME IndInv, NEW s \in Subscribers, Send(s)
  PROVE  \/ UNCHANGED heard
         \/ cursor[s] \in DOMAIN stream /\ Bus!Hear(s, cursor[s])
<1>1. /\ stream \in Seq(Events) /\ Len(stream) \in Nat /\ DOMAIN stream = 1..Len(stream)
      /\ start[s] \in Nat /\ cursor[s] \in Nat
  BY LenProperties DEF IndInv, Shape
<1>2. /\ start[s] < cursor[s] /\ cursor[s] <= Len(stream)
      /\ heard[s] = Due(s, cursor[s] - 1)
  BY DEF Send, IndInv, Listening
<1>3. cursor[s] \in DOMAIN stream
  BY <1>1, <1>2
<1>4. ASSUME NEW j \in DOMAIN heard[s], NEW k \in DOMAIN stream, heard[s][j] = stream[k]
      PROVE  k < cursor[s]
  <2>1. cursor[s] - 1 \in 0..Len(stream) /\ start[s] <= cursor[s] - 1
    BY <1>1, <1>2
  <2>2. heard[s][j] \in ToSet(Due(s, cursor[s] - 1))
    BY <1>2 DEF ToSet
  <2>3. PICK i \in 1..(cursor[s] - 1) : heard[s][j] = stream[i]
    BY <2>1, <2>2, DueStays DEF IndInv
  <2>4. i \in DOMAIN stream
    BY <1>1, <1>2
  <2>5. k = i
    BY <1>4, <2>3, <2>4 DEF IndInv, StoredOnce
  <2> QED
    BY <1>1, <2>5
<1>5. stream' = stream /\ ToSet(stream)' = ToSet(stream)
  BY SubscriptionFrame DEF ToSet
<1>6. CASE heard' = [heard EXCEPT ![s] = Append(@, stream[cursor[s]])]
  BY <1>3, <1>4, <1>5, <1>6 DEF Bus!Hear
<1> QED
  BY <1>3, <1>6 DEF Send

\* Every other step leaves what the bus promises about alone.
LEMMA SilentSteps ==
  ASSUME [TNext]_tbvars
  PROVE  \/ UNCHANGED <<stream, heard>>
         \/ \E e \in Events : Store(e)
         \/ \E s \in Subscribers : Send(s)
<1>1. ASSUME NEW e \in Events, PublishSend(e) \/ Outcome(e)
      PROVE  UNCHANGED <<stream, heard>>
  BY <1>1, PublishFrame
     DEF PublishSend, Outcome, PublishRefused, PublishAcked, PublishFails
<1>2. ASSUME NEW s \in Subscribers,
             Membership(s) \/ StartConsumer(s) \/ Turn(s) \/ NextMessage(s)
      PROVE  UNCHANGED <<stream, heard>>
  <2>1. heard' = heard
    BY <1>2 DEF Membership, Register, SubscribeFails, Delete, StopIter, CloseChan,
       UnsubscribeStep, StartConsumer, Turn, Loop, NextStopped, NextFails, NextMessage
  <2> QED
    BY <1>2, <2>1, SubscriptionFrame
<1>3. CASE Aside
  BY <1>3 DEF Aside
<1> QED
  BY <1>1, <1>2, <1>3, ReplayFrame, NextCases

\* NATSBus, behind TracedBus, does what the MessageBus interface promises: the
\* same contract LocalBus is proved to keep (core/bus.go).
THEOREM BusImplemented == TSpec => ImplementsMessageBus
<1>1. TInit => Bus!Start
  <2>1. ToSet(<< >>) = {}
    BY EmptySeq DEF ToSet
  <2> QED
    BY <2>1 DEF TInit, Init, Bus!Start
<1>2. IndInv /\ [TNext]_tbvars => [Bus!Step]_(Bus!bvars)
  <2> SUFFICES ASSUME IndInv, [TNext]_tbvars PROVE [Bus!Step]_(Bus!bvars)
    OBVIOUS
  <2>1. CASE UNCHANGED <<stream, heard>>
    BY <2>1 DEF Bus!bvars, ToSet
  <2>2. ASSUME NEW e \in Events, Store(e) PROVE Bus!Step
    BY <2>2, StorePersists DEF Bus!Step
  <2>3. ASSUME NEW s \in Subscribers, Send(s)
        PROVE  UNCHANGED <<stream, heard>> \/ Bus!Step
    <3>1. CASE cursor[s] \in DOMAIN stream /\ Bus!Hear(s, cursor[s])
      BY <3>1 DEF Bus!Step
    <3> QED
      BY <2>3, <3>1, SendIsHeard, SubscriptionFrame
  <2> QED
    BY <2>1, <2>2, <2>3, SilentSteps
<1> QED
  BY <1>1, <1>2, Invariance, PTL DEF TSpec, Bus!Spec, ImplementsMessageBus
=============================================================================
