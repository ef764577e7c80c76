--------------------------- MODULE LocalBusProofs ---------------------------
(***************************************************************************)
(* Proofs about LocalBus, for any events, subscribers, filters, buffers    *)
(* and limits: a Replay lets its subscribers catch up whatever is          *)
(* published, fanned out and cleaned up beside it, and every step is one   *)
(* the contract of MessageBus allows or changes nothing it speaks of.      *)
(***************************************************************************)
EXTENDS LocalBus, FiniteSetTheorems, SequenceTheorems, TLAPS

-----------------------------------------------------------------------------
(* What the operators of the model return.                                 *)

\* A part of a sequence, from behind its m-th element to its k-th.
LEMMA PartOf ==
  ASSUME NEW S, NEW q \in Seq(S), NEW k \in 0..Len(q), NEW m \in 0..k
  PROVE  /\ SubSeq(q, m + 1, k) \in Seq(S)
         /\ Len(SubSeq(q, m + 1, k)) = k - m
         /\ \A i \in 1..(k - m) : SubSeq(q, m + 1, k)[i] = q[m + i]
<1>1. Len(q) \in Nat /\ q \in [1..Len(q) -> S]
  BY LenProperties
<1> DEFINE a == m + 1
<1>2. a \in Int /\ k \in Int /\ k - a + 1 = k - m
  BY <1>1
<1>3. \A i \in a..k : q[i] \in S
  BY <1>1
<1> HIDE DEF a
<1>4. /\ SubSeq(q, a, k) \in Seq(S)
      /\ Len(SubSeq(q, a, k)) = IF a <= k THEN k - a + 1 ELSE 0
      /\ \A i \in 1..(k - a + 1) : SubSeq(q, a, k)[i] = q[a + i - 1]
  BY <1>2, <1>3, SubSeqProperties
<1>5. Len(SubSeq(q, a, k)) = k - m
  BY <1>1, <1>2, <1>4 DEF a
<1>6. \A i \in 1..(k - m) : a + i - 1 = m + i
  BY <1>1 DEF a
<1>7. \A i \in 1..(k - m) : SubSeq(q, a, k)[i] = q[m + i]
  BY <1>2, <1>4, <1>6
<1> QED
  BY <1>4, <1>5, <1>7 DEF a

\* One more event in one of the histories keeps their types.
LEMMA AppendTo ==
  ASSUME NEW S, NEW T, NEW h \in [T -> Seq(S)], NEW t \in T, NEW e \in S
  PROVE  [h EXCEPT ![t] = Append(@, e)] \in [T -> Seq(S)]
<1>1. Append(h[t], e) \in Seq(S)
  BY AppendProperties
<1> QED
  BY <1>1

\* publishCh holds what was written and not taken.
LEMMA ChannelLength ==
  ASSUME Shape, taken \in 0..Len(written)
  PROVE  Len(publishCh) = Len(written) - taken
<1>1. written \in Seq(Events) /\ Len(written) \in 0..Len(written)
  BY LenProperties DEF Shape
<1> QED
  BY <1>1, PartOf DEF publishCh

\* A channel that is not empty has an event to take.
LEMMA ChannelHead ==
  ASSUME Shape, taken \in 0..Len(written), publishCh # << >>
  PROVE  taken + 1 \in 1..Len(written) /\ written[taken + 1] \in Events
<1>1. Len(written) \in Nat /\ written \in [1..Len(written) -> Events]
  BY LenProperties DEF Shape
<1>2. taken # Len(written)
  <2> SUFFICES ASSUME taken = Len(written) PROVE FALSE
    OBVIOUS
  <2>1. Len(publishCh) = 0 /\ publishCh \in Seq(Events)
    <3>1. written \in Seq(Events) /\ Len(written) \in 0..Len(written)
      BY <1>1 DEF Shape
    <3>2. publishCh \in Seq(Events) /\ Len(publishCh) = Len(written) - taken
      BY <3>1, PartOf DEF publishCh
    <3> QED
      BY <1>1, <3>2
  <2> QED
    BY <2>1, EmptySeq
<1>3. Len(written) \in Nat
  BY <1>1
<1>4. taken + 1 \in 1..Len(written)
  BY <1>2, <1>3
<1> QED
  BY <1>4, ElementOfSeq DEF Shape

\* The ways to sort a set leave nothing out: as many places as events, and no
\* event twice.
LEMMA SortedAll ==
  ASSUME NEW S \in SUBSET Events, NEW q \in ByTime(S)
  PROVE  /\ q \in Seq(Events)
         /\ DOMAIN q = 1..Cardinality(S)
         /\ {q[i] : i \in DOMAIN q} = S
<1> DEFINE n == Cardinality(S)
<1>1. IsFiniteSet(S) /\ n \in Nat
  BY BusAssumption, FS_Subset, FS_CardinalityType
<1> HIDE DEF n
<1>2. q \in [1..n -> S] /\ \A i, j \in 1..n : i < j => q[i] # q[j]
  BY DEF ByTime, n
<1>3. q \in Injection(1..n, S)
  <2>1. \A i, j \in 1..n : q[i] = q[j] => i = j
    BY <1>1, <1>2
  <2> QED
    BY <1>2, <2>1 DEF Injection, IsInjective
<1>4. Cardinality(1..n) = n
  BY <1>1, FS_Interval
<1>5. q \in Surjection(1..n, S)
  BY <1>1, <1>3, <1>4, FS_Injection DEF n
<1>6. {q[i] : i \in 1..n} = S
  BY <1>2, <1>5 DEF Surjection
<1>7. q \in Seq(Events)
  BY <1>1, <1>2
<1> QED
  BY <1>2, <1>6, <1>7 DEF n

\* Query returns events of the store, and all of them when it is asked for all.
LEMMA QueryReturns ==
  ASSUME InStore \subseteq Events, NEW types, NEW limit \in Nat,
         NEW q \in QueryResults(types, limit)
  PROVE  /\ q \in Seq(Events)
         /\ types = {} /\ limit = 0 => {q[i] : i \in DOMAIN q} = InStore
<1> DEFINE found == {e \in InStore : types = {} \/ Type[e] \in types}
<1>1. PICK r \in ByTime(found) :
        q = IF limit > 0 /\ limit < Len(r) THEN SubSeq(r, 1, limit) ELSE r
  BY DEF QueryResults
<1>2. found \in SUBSET Events
  OBVIOUS
<1> HIDE DEF found
<1>3. /\ r \in Seq(Events)
      /\ {r[i] : i \in DOMAIN r} = found
  BY <1>1, <1>2, SortedAll
<1>4. q \in Seq(Events)
  <2>1. CASE limit > 0 /\ limit < Len(r)
    <3>1. Len(r) \in Nat /\ r \in [1..Len(r) -> Events]
      BY <1>3, LenProperties
    <3>2. \A i \in 1..limit : r[i] \in Events
      BY <2>1, <3>1
    <3> QED
      BY <1>1, <2>1, <3>2, SubSeqProperties
  <2>2. CASE ~(limit > 0 /\ limit < Len(r))
    BY <1>1, <1>3, <2>2
  <2> QED
    BY <2>1, <2>2
<1>5. ASSUME types = {}, limit = 0
      PROVE  {q[i] : i \in DOMAIN q} = InStore
  <2>1. found = InStore
    BY <1>5 DEF found
  <2>2. q = r
    BY <1>1, <1>5
  <2> QED
    BY <1>3, <2>1, <2>2
<1> QED
  BY <1>4, <1>5

\* Cleanup keeps a part of the store, in its order.
LEMMA CleanupKeeps ==
  ASSUME Shape, Cleanup
  PROVE  entries' \in Seq(Events) /\ InStore' \subseteq InStore
<1>1. /\ entries \in Seq(Events) /\ Len(entries) \in Nat
      /\ DOMAIN entries = 1..Len(entries)
      /\ \A i \in 1..Len(entries) : entries[i] \in Events
  BY LenProperties DEF Shape
<1>2. PICK n \in 0..Len(entries) :
        LET fresh  == SubSeq(entries, n + 1, Len(entries))
            excess == Len(fresh) - MaxEvents
        IN  entries' = IF excess > 0 THEN SubSeq(fresh, excess + 1, Len(fresh))
                       ELSE fresh
  BY DEF Cleanup
<1> DEFINE fresh  == SubSeq(entries, n + 1, Len(entries))
           excess == Len(fresh) - MaxEvents
<1>3. /\ fresh \in Seq(Events) /\ Len(fresh) = Len(entries) - n
      /\ \A i \in 1..(Len(entries) - n) : fresh[i] = entries[n + i]
  <2>1. Len(entries) \in 0..Len(entries)
    BY <1>1
  <2> QED
    BY <1>1, <2>1, PartOf
<1>4. entries' = IF excess > 0 THEN SubSeq(fresh, excess + 1, Len(fresh)) ELSE fresh
  BY <1>2
<1> HIDE DEF fresh
<1>5. CASE excess > 0
  <2>1. excess \in Nat /\ excess <= Len(fresh)
    BY <1>1, <1>3, <1>5, BusAssumption
  <2>2. excess \in 0..Len(fresh) /\ Len(fresh) \in 0..Len(fresh)
    BY <1>1, <1>3, <2>1
  <2>3. /\ entries' \in Seq(Events) /\ Len(entries') = Len(fresh) - excess
        /\ \A i \in 1..(Len(fresh) - excess) : entries'[i] = fresh[excess + i]
    BY <1>3, <1>4, <1>5, <2>2, PartOf
  <2>4. DOMAIN entries' = 1..(Len(fresh) - excess)
    BY <2>3, LenProperties
  <2>5. ASSUME NEW i \in DOMAIN entries'
        PROVE  entries'[i] = entries[n + excess + i]
               /\ n + excess + i \in DOMAIN entries
    <3>1. i \in 1..(Len(fresh) - excess) /\ excess + i \in 1..(Len(entries) - n)
      BY <1>1, <1>3, <2>1, <2>4
    <3>2. entries'[i] = fresh[excess + i]
      BY <2>3, <3>1
    <3>3. fresh[excess + i] = entries[n + (excess + i)]
      BY <1>3, <3>1
    <3>4. n + (excess + i) = n + excess + i /\ n + excess + i \in DOMAIN entries
      BY <1>1, <2>1, <3>1
    <3> QED
      BY <3>2, <3>3, <3>4
  <2> QED
    BY <2>3, <2>5 DEF InStore
<1>6. CASE ~(excess > 0)
  <2>1. DOMAIN entries' = 1..(Len(entries) - n)
    BY <1>3, <1>4, <1>6, LenProperties
  <2>2. \A i \in DOMAIN entries' : entries'[i] = entries[n + i]
                                   /\ n + i \in DOMAIN entries
    BY <1>1, <1>3, <1>4, <1>6, <2>1
  <2> QED
    BY <1>3, <1>4, <1>6, <2>2 DEF InStore
<1> QED
  BY <1>5, <1>6

\* One send of fanout: the subscriber is served, and others are left alone.
LEMMA OfferEffect ==
  ASSUME TypeOK, Shape, NEW f \in Fanouts, NEW s \in Subscribers, NEW e \in Events,
         Offer(f, s, e)
  PROVE  /\ s \in fan[f]
         /\ fan' \in [Fanouts -> SUBSET Subscribers]
         /\ fan'[f] = fan[f] \ {s}
         /\ \A g \in Fanouts : g # f => fan'[g] = fan[g]
         /\ buffered' \in [Subscribers -> 0..SubBuffer]
         /\ got' \in [Subscribers -> SUBSET Events]
         /\ e \in got'[s] /\ \A t \in Subscribers : got[t] \subseteq got'[t]
         /\ heard' \in [Subscribers -> Seq(Events)]
         /\ \/ heard' = heard
            \/ f = "live" /\ heard' = [heard EXCEPT ![s] = Append(@, e)]
         /\ sub' = sub
<1>1. /\ s \in fan[f] /\ sub' = sub
      /\ fan' = [fan EXCEPT ![f] = @ \ {s}]
      /\ got' = [got EXCEPT ![s] = @ \union {e}]
  BY DEF Offer
<1>2. /\ fan' \in [Fanouts -> SUBSET Subscribers]
      /\ fan'[f] = fan[f] \ {s}
      /\ \A g \in Fanouts : g # f => fan'[g] = fan[g]
  BY <1>1 DEF TypeOK
<1>3. /\ got' \in [Subscribers -> SUBSET Events]
      /\ e \in got'[s] /\ \A t \in Subscribers : got[t] \subseteq got'[t]
  BY <1>1 DEF TypeOK
<1>4. buffered' \in [Subscribers -> 0..SubBuffer]
  <2>1. buffered \in [Subscribers -> 0..SubBuffer] /\ SubBuffer \in Nat
    BY BusAssumption DEF TypeOK
  <2>2. \/ buffered' = buffered
        \/ buffered[s] < SubBuffer /\ buffered' = [buffered EXCEPT ![s] = @ + 1]
    BY DEF Offer
  <2> QED
    BY <2>1, <2>2
<1>5. \/ heard' = heard
      \/ f = "live" /\ heard' = [heard EXCEPT ![s] = Append(@, e)]
  BY DEF Offer
<1>6. heard' \in [Subscribers -> Seq(Events)]
  <2>1. heard \in [Subscribers -> Seq(Events)]
    BY DEF Shape
  <2>2. [heard EXCEPT ![s] = Append(@, e)] \in [Subscribers -> Seq(Events)]
    BY <2>1, AppendTo
  <2> QED
    BY <1>5, <2>1, <2>2
<1> QED
  BY <1>1, <1>2, <1>3, <1>4, <1>5, <1>6

-----------------------------------------------------------------------------
(* Each part of the inductive invariant is preserved.                      *)

\* The steps that change no more than where the loops, Publish before it
\* persists, Close and the readers are.
QuietStep ==
  \/ \E e \in Events : PublishCheck(e) \/ PublishRefused(e) \/ PublishAbandon(e)
  \/ StartDrain \/ DrainEnds \/ CleanupLoopExits \/ ReplayEnds \/ Close
  \/ \E s \in Subscribers : Subscribe(s) \/ Unsubscribe(s) \/ Receive(s)
  \/ UNCHANGED vars

\* What they leave as it is.
LEMMA QuietFrame ==
  ASSUME TypeOK, Shape, QuietStep
  PROVE  /\ UNCHANGED <<entries, written, taken, fan, heard, got, replay.todo,
                        replay.for>>
         /\ \A e \in Events : (pub[e] = "ok" <=> pub'[e] = "ok")
                              /\ (e \in Persisted <=> e \in Persisted')
         /\ \/ UNCHANGED replay
            \/ replay.todo = << >> /\ replay' = [replay EXCEPT !.state = "done"]
<1>1. CASE \E e \in Events : PublishCheck(e) \/ PublishRefused(e) \/ PublishAbandon(e)
  BY <1>1 DEF PublishCheck, PublishRefused, PublishAbandon, store, loop, subs,
     TypeOK, Persisted
<1>2. CASE StartDrain \/ DrainEnds \/ CleanupLoopExits \/ Close \/ UNCHANGED vars
  BY <1>2 DEF StartDrain, DrainEnds, CleanupLoopExits, Close, vars, store, loop,
     subs, Persisted
<1>3. CASE ReplayEnds
  BY <1>3 DEF ReplayEnds, store, loop, subs, Persisted, Shape
<1>4. CASE \E s \in Subscribers : Subscribe(s) \/ Unsubscribe(s) \/ Receive(s)
  BY <1>4 DEF Subscribe, Unsubscribe, Receive, store, loop, subs, Persisted
<1> QED
  BY <1>1, <1>2, <1>3, <1>4 DEF QuietStep

\* The steps of the system, as the proofs below distinguish them.
LEMMA NextCases ==
  ASSUME [Next]_vars
  PROVE  \/ QuietStep
         \/ \E e \in Events : PublishAppend(e)
         \/ \E e \in Events : PublishSend(e)
         \/ Take
         \/ \E s \in Subscribers : OfferLive(s)
         \/ Cleanup
         \/ \E types \in SUBSET {Type[e] : e \in Events}, limit \in Limits :
              ReplayQuery(types, limit)
         \/ ReplayNext
         \/ \E s \in Subscribers : OfferReplayed(s)
         \/ CloseReturns
BY DEF Next, Publish, Dispatch, Replay, QuietStep

\* Every step keeps the types.
LEMMA StepTypes ==
  ASSUME TypeOK, Shape, Hearing, Replaying, [Next]_vars
  PROVE  TypeOK' /\ Shape'
<1> DEFINE Rest == /\ pub' \in [Events -> PubStates]
                   /\ cleaner' \in BOOLEAN
                   /\ dispatcher' \in {"select", "drain", "exited"}
                   /\ closeState' \in {"open", "closing", "closed"}
                   /\ sub' \in [Subscribers -> {"none", "on", "off"}]
           Seqs == /\ entries' \in Seq(Events) /\ InStore' \subseteq Events
                   /\ written' \in Seq(Events)
                   /\ taken' \in 0..Len(written')
                   /\ Len(written') - taken' <= PublishBuffer
           Fans == /\ fan' \in [Fanouts -> SUBSET Subscribers]
                   /\ buffered' \in [Subscribers -> 0..SubBuffer]
                   /\ heard' \in [Subscribers -> Seq(Events)]
                   /\ got' \in [Subscribers -> SUBSET Events]
           Rep  == replay' \in [state : {"none", "running", "done"}, todo : Seq(Events),
                                for : SUBSET Subscribers]
           All  == Rest /\ Seqs /\ Fans /\ Rep
<1>1. ASSUME All PROVE TypeOK' /\ Shape'
  <2>1. Shape'
    BY <1>1 DEF Shape
  <2>2. Len(publishCh') = Len(written') - taken'
    <3>1. written' \in Seq(Events) /\ Len(written') \in 0..Len(written')
      BY <1>1, LenProperties
    <3> QED
      BY <1>1, <3>1, PartOf DEF publishCh
  <2>3. replay'.state \in {"none", "running", "done"} /\ replay'.for \subseteq Subscribers
    BY <1>1
  <2> QED
    BY <1>1, <2>1, <2>2, <2>3 DEF TypeOK
<1>2. /\ entries \in Seq(Events) /\ InStore \subseteq Events
      /\ written \in Seq(Events) /\ Len(written) \in Nat
      /\ taken \in 0..Len(written) /\ Len(written) - taken <= PublishBuffer
      /\ PublishBuffer \in Nat
  BY ChannelLength, LenProperties, BusAssumption DEF TypeOK, Shape
<1>3. /\ pub \in [Events -> PubStates]
      /\ cleaner \in BOOLEAN
      /\ dispatcher \in {"select", "drain", "exited"}
      /\ closeState \in {"open", "closing", "closed"}
      /\ sub \in [Subscribers -> {"none", "on", "off"}]
  BY DEF TypeOK
<1>4. /\ fan \in [Fanouts -> SUBSET Subscribers]
      /\ buffered \in [Subscribers -> 0..SubBuffer]
      /\ heard \in [Subscribers -> Seq(Events)]
      /\ got \in [Subscribers -> SUBSET Events]
  BY DEF TypeOK, Shape
<1>5. replay \in [state : {"none", "running", "done"}, todo : Seq(Events),
                  for : SUBSET Subscribers]
  BY DEF Shape
<1>6. CASE QuietStep
  <2>1. UNCHANGED <<entries, written, taken, fan, heard, got>>
    BY <1>6, QuietFrame
  <2>2. Seqs
    BY <1>2, <2>1 DEF InStore
  <2>3. Rep
    BY <1>5, <1>6, QuietFrame
  <2>4. Rest
    BY <1>3, <1>6 DEF QuietStep, PublishCheck, PublishRefused, PublishAbandon,
       PubStates, StartDrain, DrainEnds, CleanupLoopExits, ReplayEnds, Close,
       Subscribe, Unsubscribe, Receive, vars, store, loop, subs
  <2>5. buffered' \in [Subscribers -> 0..SubBuffer]
    <3>1. CASE \E s \in Subscribers : Receive(s)
      BY <1>4, <3>1, BusAssumption DEF Receive
    <3>2. CASE ~\E s \in Subscribers : Receive(s)
      BY <1>4, <1>6, <3>2 DEF QuietStep, PublishCheck, PublishRefused,
         PublishAbandon, StartDrain, DrainEnds, CleanupLoopExits, ReplayEnds,
         Close, Subscribe, Unsubscribe, vars, subs
    <3> QED
      BY <3>1, <3>2
  <2> QED
    BY <1>1, <1>4, <2>1, <2>2, <2>3, <2>4, <2>5
<1>7. ASSUME NEW e \in Events, PublishAppend(e) PROVE TypeOK' /\ Shape'
  <2>1. entries' = Append(entries, e)
        /\ pub' = [pub EXCEPT ![e] = "stored"]
        /\ UNCHANGED <<cleaner, written, loop, fan, replay, closeState, subs>>
    BY <1>7 DEF PublishAppend
  <2>2. entries' \in Seq(Events) /\ InStore' \subseteq Events
    <3>1. entries' \in Seq(Events)
      BY <1>2, <2>1, AppendProperties
    <3> QED
      BY <3>1, LenProperties DEF InStore
  <2>3. Rest
    BY <1>3, <2>1 DEF loop, subs, PubStates
  <2> QED
    BY <1>1, <1>2, <1>4, <1>5, <2>1, <2>2, <2>3 DEF loop, subs
<1>8. ASSUME NEW e \in Events, PublishSend(e) PROVE TypeOK' /\ Shape'
  <2>1. /\ Len(publishCh) < PublishBuffer
        /\ pub' = [pub EXCEPT ![e] = "ok"]
        /\ written' = Append(written, e)
        /\ UNCHANGED <<store, loop, fan, replay, closeState, subs>>
    BY <1>8 DEF PublishSend
  <2>2. written' \in Seq(Events) /\ Len(written') = Len(written) + 1
    BY <1>2, <2>1, AppendProperties
  <2>3. Len(written) - taken < PublishBuffer
    BY <1>2, <2>1, ChannelLength
  <2>4. Seqs
    BY <1>2, <2>1, <2>2, <2>3 DEF store, loop, InStore
  <2>5. Rest
    BY <1>3, <2>1 DEF store, loop, subs, PubStates
  <2> QED
    BY <1>1, <1>4, <1>5, <2>1, <2>4, <2>5 DEF subs
<1>9. CASE Take
  <2>1. taken + 1 \in 1..Len(written)
    BY <1>2, <1>9, ChannelHead DEF Take
  <2>2. Seqs
    BY <1>2, <1>9, <2>1 DEF Take, store, InStore
  <2>3. fan' \in [Fanouts -> SUBSET Subscribers]
    BY <1>4, <1>9 DEF Take, Snapshot, Active
  <2> QED
    BY <1>1, <1>3, <1>4, <1>5, <1>9, <2>2, <2>3 DEF Take, store, subs
<1>10. ASSUME NEW s \in Subscribers, OfferLive(s) PROVE TypeOK' /\ Shape'
  <2>1. Offer("live", s, written[taken])
        /\ UNCHANGED <<pub, store, written, loop, replay, closeState>>
    BY <1>10 DEF OfferLive
  <2>2. taken \in 1..Len(written) /\ written[taken] \in Events
    BY <1>2, <2>1, LenProperties DEF Offer, Hearing
  <2>3. Fans /\ sub' = sub
    BY <2>1, <2>2, OfferEffect DEF Fanouts
  <2> QED
    BY <1>1, <1>2, <1>3, <1>5, <2>1, <2>3 DEF store, loop, InStore
<1>11. CASE Cleanup
  <2>1. entries' \in Seq(Events) /\ InStore' \subseteq InStore
    BY <1>11, CleanupKeeps
  <2> QED
    BY <1>1, <1>2, <1>3, <1>4, <1>5, <1>11, <2>1 DEF Cleanup, loop, subs
<1>12. ASSUME NEW types \in SUBSET {Type[e] : e \in Events}, NEW limit \in Limits,
              ReplayQuery(types, limit)
       PROVE  TypeOK' /\ Shape'
  <2>1. PICK found \in QueryResults(types, limit) :
          replay' = [state |-> "running", todo |-> found,
                     for |-> IF types = {} /\ limit = 0 THEN Active ELSE {}]
    BY <1>12 DEF ReplayQuery
  <2>2. found \in Seq(Events)
    BY <1>2, BusAssumption, QueryReturns
  <2>3. Rep
    BY <2>1, <2>2 DEF Active
  <2> QED
    BY <1>1, <1>2, <1>3, <1>4, <1>12, <2>3 DEF ReplayQuery, store, loop, subs, InStore
<1>13. CASE ReplayNext
  <2>1. replay.todo \in Seq(Events) /\ replay.todo # << >>
    BY <1>5, <1>13 DEF ReplayNext
  <2>2. Tail(replay.todo) \in Seq(Events)
    BY <2>1, HeadTailProperties
  <2>3. Rep
    BY <1>5, <1>13, <2>2 DEF ReplayNext
  <2>4. fan' \in [Fanouts -> SUBSET Subscribers]
    BY <1>4, <1>13 DEF ReplayNext, Snapshot, Active
  <2> QED
    BY <1>1, <1>2, <1>3, <1>4, <1>13, <2>3, <2>4
       DEF ReplayNext, store, loop, subs, InStore
<1>14. ASSUME NEW s \in Subscribers, OfferReplayed(s) PROVE TypeOK' /\ Shape'
  <2>1. /\ Offer("replay", s, Head(replay.todo))
        /\ replay' = IF fan["replay"] = {s} THEN [replay EXCEPT !.todo = Tail(@)]
                     ELSE replay
        /\ UNCHANGED <<pub, store, written, loop, closeState>>
    BY <1>14 DEF OfferReplayed
  <2>2. replay.todo \in Seq(Events) /\ replay.todo # << >>
    BY <1>5, <2>1 DEF Offer, Replaying
  <2>3. Head(replay.todo) \in Events /\ Tail(replay.todo) \in Seq(Events)
    BY <2>2, HeadTailProperties
  <2>4. Rep
    BY <1>5, <2>1, <2>3
  <2>5. Fans /\ sub' = sub
    BY <2>1, <2>3, OfferEffect DEF Fanouts
  <2> QED
    BY <1>1, <1>2, <1>3, <2>1, <2>4, <2>5 DEF store, loop, InStore
<1>15. CASE CloseReturns
  <2>1. entries' \in Seq(Events) /\ InStore' \subseteq Events
    BY <1>15 DEF CloseReturns, InStore
  <2> QED
    BY <1>1, <1>2, <1>3, <1>4, <1>5, <1>15, <2>1 DEF CloseReturns, loop, subs
<1> QED
  BY <1>6, <1>7, <1>8, <1>9, <1>10, <1>11, <1>12, <1>13, <1>14, <1>15, NextCases

\* An event is put into publishCh once, by the Publish that persisted it.
LEMMA StepWrittenOnce ==
  ASSUME TypeOK, Shape, WrittenOnce, [Next]_vars
  PROVE  WrittenOnce'
<1>1. /\ written \in Seq(Events) /\ Len(written) \in Nat
      /\ DOMAIN written = 1..Len(written)
      /\ \A i \in DOMAIN written : written[i] \in Events
  BY LenProperties DEF Shape
<1>2. CASE QuietStep
  <2>1. /\ written' = written
        /\ \A e \in Events : pub[e] = "ok" <=> pub'[e] = "ok"
    BY <1>2, QuietFrame
  <2> QED
    BY <1>1, <2>1 DEF WrittenOnce
<1>3. ASSUME NEW e \in Events, PublishAppend(e) PROVE WrittenOnce'
  BY <1>1, <1>3 DEF PublishAppend, TypeOK, WrittenOnce
<1>4. ASSUME NEW e \in Events, PublishSend(e) PROVE WrittenOnce'
  <2>1. /\ pub[e] = "stored"
        /\ pub' = [pub EXCEPT ![e] = "ok"]
        /\ written' = Append(written, e)
    BY <1>4 DEF PublishSend
  <2>2. /\ DOMAIN written' = 1..(Len(written) + 1)
        /\ \A i \in 1..Len(written) : written'[i] = written[i]
        /\ written'[Len(written) + 1] = e
    BY <1>1, <2>1, AppendProperties, LenProperties
  <2>3. pub'[e] = "ok" /\ \A d \in Events : pub[d] = "ok" => pub'[d] = "ok"
    BY <2>1 DEF TypeOK
  <2>4. \A i \in 1..Len(written) : written[i] # e
    BY <1>1, <2>1 DEF WrittenOnce
  <2>5. \A i \in DOMAIN written' : i \in 1..Len(written) \/ i = Len(written) + 1
    BY <1>1, <2>2
  <2>6. \A i \in DOMAIN written' : pub'[written'[i]] = "ok"
    BY <1>1, <2>2, <2>3, <2>5 DEF WrittenOnce
  <2>7. \A i, j \in DOMAIN written' : written'[i] = written'[j] => i = j
    BY <1>1, <2>2, <2>4, <2>5 DEF WrittenOnce
  <2> QED
    BY <2>6, <2>7 DEF WrittenOnce
<1>5. CASE ~(QuietStep \/ \E e \in Events : PublishAppend(e) \/ PublishSend(e))
  <2>1. UNCHANGED <<pub, written>>
    BY <1>5, NextCases DEF Take, OfferLive, Cleanup, ReplayQuery, ReplayNext,
       OfferReplayed, CloseReturns
  <2> QED
    BY <2>1 DEF WrittenOnce
<1> QED
  BY <1>2, <1>3, <1>4, <1>5

\* fanout offers an event to those who have not heard it, nor a later one.
LEMMA StepHearing ==
  ASSUME TypeOK, Shape, Hearing, Replaying, [Next]_vars
  PROVE  Hearing'
<1>1. /\ written \in Seq(Events) /\ Len(written) \in Nat
      /\ taken \in 0..Len(written)
      /\ fan \in [Fanouts -> SUBSET Subscribers]
      /\ heard \in [Subscribers -> Seq(Events)]
  BY LenProperties DEF TypeOK, Shape
<1>2. ASSUME UNCHANGED <<written, taken, heard>>, fan'["live"] \subseteq fan["live"]
      PROVE  Hearing'
  BY <1>2 DEF Hearing
<1>3. CASE QuietStep
  BY <1>2, <1>3, QuietFrame
<1>4. CASE ReplayNext
  BY <1>1, <1>2, <1>4 DEF ReplayNext, Snapshot, loop, subs, Fanouts
<1>5. CASE Cleanup \/ CloseReturns
  BY <1>2, <1>5 DEF Cleanup, CloseReturns, loop, subs
<1>6. ASSUME NEW e \in Events, PublishAppend(e) PROVE Hearing'
  BY <1>2, <1>6 DEF PublishAppend, loop, subs
<1>7. ASSUME NEW types \in SUBSET {Type[e] : e \in Events}, NEW limit \in Limits,
              ReplayQuery(types, limit)
       PROVE  Hearing'
  BY <1>2, <1>7 DEF ReplayQuery, loop, subs
<1>8. ASSUME NEW e \in Events, PublishSend(e) PROVE Hearing'
  <2>1. written' = Append(written, e) /\ UNCHANGED <<taken, fan, heard>>
    BY <1>8 DEF PublishSend, loop, subs
  <2>2. \A k \in 1..taken : written'[k] = written[k]
    BY <1>1, <2>1, AppendProperties
  <2>3. ASSUME NEW s \in Subscribers, NEW j \in DOMAIN heard[s]
        PROVE  \E k \in 1..taken :
                 heard[s][j] = written'[k] /\ (s \in fan["live"] => k < taken)
    BY <2>2 DEF Hearing
  <2> QED
    BY <2>1, <2>3 DEF Hearing
<1>9. CASE Take
  <2>1. taken' = taken + 1 /\ UNCHANGED <<written, heard>> /\ fan["live"] = {}
    BY <1>9 DEF Take, subs
  <2>2. ASSUME NEW s \in Subscribers, NEW j \in DOMAIN heard[s]
        PROVE  \E k \in 1..taken' :
                 heard'[s][j] = written'[k] /\ (s \in fan'["live"] => k < taken')
    <3>1. PICK k \in 1..taken : heard[s][j] = written[k]
      BY DEF Hearing
    <3>2. k \in 1..taken' /\ k < taken'
      BY <1>1, <2>1, <3>1
    <3> QED
      BY <2>1, <3>1, <3>2
  <2>3. taken' > 0
    BY <1>1, <2>1
  <2> QED
    BY <2>1, <2>2, <2>3 DEF Hearing
<1>10. ASSUME NEW s \in Subscribers, OfferLive(s) PROVE Hearing'
  <2>1. Offer("live", s, written[taken]) /\ UNCHANGED <<written, taken>>
    BY <1>10 DEF OfferLive, loop
  <2>2. taken \in 1..Len(written) /\ written[taken] \in Events
    <3>1. taken \in 1..Len(written)
      BY <1>1, <2>1 DEF Offer, Hearing
    <3> QED
      BY <1>1, <3>1, ElementOfSeq
  <2>3. /\ fan'["live"] = fan["live"] \ {s}
        /\ \/ heard' = heard
           \/ heard' = [heard EXCEPT ![s] = Append(@, written[taken])]
    BY <2>1, <2>2, OfferEffect DEF Fanouts
  <2>4. CASE heard' = heard
    BY <1>2, <2>1, <2>3, <2>4
  <2>5. CASE heard' = [heard EXCEPT ![s] = Append(@, written[taken])]
    <3>1. /\ heard[s] \in Seq(Events)
          /\ heard'[s] = Append(heard[s], written[taken])
          /\ \A t \in Subscribers : t # s => heard'[t] = heard[t]
      BY <1>1, <2>5
    <3>2. /\ Len(heard[s]) \in Nat /\ DOMAIN heard[s] = 1..Len(heard[s])
          /\ DOMAIN heard'[s] = 1..(Len(heard[s]) + 1)
          /\ \A j \in 1..Len(heard[s]) : heard'[s][j] = heard[s][j]
          /\ heard'[s][Len(heard[s]) + 1] = written[taken]
      BY <2>2, <3>1, AppendProperties, LenProperties
    <3>3. ASSUME NEW j \in DOMAIN heard'[s]
          PROVE  \E k \in 1..taken : heard'[s][j] = written[k]
      <4>1. CASE j \in 1..Len(heard[s])
        BY <3>2, <4>1 DEF Hearing
      <4>2. CASE j = Len(heard[s]) + 1
        BY <2>2, <3>2, <4>2
      <4> QED
        BY <3>2, <4>1, <4>2
    <3>4. s \notin fan'["live"]
      BY <2>3
    <3>5. ASSUME NEW t \in Subscribers, NEW j \in DOMAIN heard'[t]
          PROVE  \E k \in 1..taken' :
                   heard'[t][j] = written'[k] /\ (t \in fan'["live"] => k < taken')
      <4>1. CASE t = s
        BY <2>1, <3>3, <3>4, <4>1
      <4>2. CASE t # s
        BY <2>1, <2>3, <3>1, <4>2 DEF Hearing
      <4> QED
        BY <4>1, <4>2
    <3>6. taken' > 0
      BY <2>1, <2>2
    <3> QED
      BY <3>5, <3>6 DEF Hearing
  <2> QED
    BY <2>3, <2>4, <2>5
<1>11. ASSUME NEW s \in Subscribers, OfferReplayed(s) PROVE Hearing'
  <2>1. Offer("replay", s, Head(replay.todo)) /\ UNCHANGED <<written, taken>>
    BY <1>11 DEF OfferReplayed, loop
  <2>2. heard' = heard
    BY <2>1 DEF Offer
  <2>3. fan'["live"] = fan["live"]
    BY <1>1, <2>1 DEF Offer, Fanouts
  <2> QED
    BY <1>2, <2>1, <2>2, <2>3
<1> QED
  BY <1>3, <1>4, <1>5, <1>6, <1>7, <1>8, <1>9, <1>10, <1>11, NextCases

\* What a subscriber that waits for everything is known to have got or to get.
Caught(s, i) ==
  \/ written[i] \in got[s] \/ written[i] \notin InStore
  \/ ~Wants(s, written[i])
  \/ i = taken /\ s \in fan["live"]
  \/ replay.state = "running" /\ written[i] \in ToReplay

\* A Replay loses nothing of what it has found, and what is published beside it
\* is fanned out by dispatchLoop.
LEMMA StepReplaying ==
  ASSUME TypeOK, Shape, WrittenOnce, Hearing, Replaying, [Next]_vars
  PROVE  Replaying'
<1> DEFINE Known == \A s \in replay.for : sub[s] # "none"
           Half == fan["replay"] # {} =>
                     /\ replay.state = "running" /\ replay.todo # << >>
                     /\ \A s \in replay.for \intersect Active :
                          \/ ~Wants(s, Head(replay.todo))
                          \/ s \in fan["replay"] \/ Head(replay.todo) \in got[s]
           Whole == \A s \in replay.for \intersect Active : \A i \in 1..taken : Caught(s, i)
<1>1. /\ Replaying <=> Known /\ Half /\ Whole
      /\ Replaying' <=> Known' /\ Half' /\ Whole'
  BY DEF Replaying, Caught
<1>2. Known /\ Half /\ Whole
  BY <1>1
<1>3. /\ written \in Seq(Events) /\ Len(written) \in Nat
      /\ taken \in 0..Len(written)
      /\ fan \in [Fanouts -> SUBSET Subscribers]
      /\ got \in [Subscribers -> SUBSET Events]
      /\ sub \in [Subscribers -> {"none", "on", "off"}]
      /\ replay \in [state : {"none", "running", "done"}, todo : Seq(Events),
                     for : SUBSET Subscribers]
  BY LenProperties DEF TypeOK, Shape
<1>4. \A i \in 1..taken : i \in 1..Len(written) /\ written[i] \in Events
  <2> SUFFICES ASSUME NEW i \in 1..taken
               PROVE  i \in 1..Len(written) /\ written[i] \in Events
    OBVIOUS
  <2>1. i \in 1..Len(written)
    BY <1>3
  <2> QED
    BY <1>3, <2>1, ElementOfSeq
<1> HIDE DEF Known, Half, Whole
\* Steps that fan nothing out, and make the store forget at most.
<1>5. ASSUME UNCHANGED <<taken, fan, replay, got>>,
             \A s \in replay.for : sub[s] # "none" => sub'[s] # "none",
             \A i \in 1..taken : written'[i] = written[i],
             \A i \in 1..taken : written[i] \notin InStore => written[i] \notin InStore',
             replay.for \intersect Active' \subseteq Active
      PROVE  Replaying'
  <2>1. ToReplay' = ToReplay
    BY <1>5 DEF ToReplay
  <2>2. Half'
    BY <1>2, <1>5 DEF Half, Wants
  <2>3. Whole'
    BY <1>2, <1>5, <2>1 DEF Whole, Caught, Wants
  <2>4. Known'
    BY <1>2, <1>5 DEF Known
  <2> QED
    BY <1>1, <2>2, <2>3, <2>4
<1>6. CASE QuietStep
  <2>1. /\ UNCHANGED <<entries, written, taken, fan, heard, got, replay.todo, replay.for>>
        /\ \/ UNCHANGED replay
           \/ replay.todo = << >> /\ replay' = [replay EXCEPT !.state = "done"]
    BY <1>6, QuietFrame
  <2>2. \A s \in Subscribers :
          sub[s] # "none" => sub'[s] # "none" /\ (sub'[s] = "on" => sub[s] = "on")
    BY <1>3, <1>6 DEF QuietStep, PublishCheck, PublishRefused,
       PublishAbandon, StartDrain, DrainEnds, CleanupLoopExits, ReplayEnds,
       Close, Subscribe, Unsubscribe, Receive, vars, subs
  <2>3. replay.for \intersect Active' \subseteq Active
    BY <1>2, <1>3, <2>2 DEF Known, Active
  <2>4. InStore' = InStore
    BY <2>1 DEF InStore
  <2>5. CASE UNCHANGED replay
    BY <1>3, <1>5, <2>1, <2>2, <2>3, <2>4, <2>5
  <2>6. CASE replay.todo = << >> /\ replay' = [replay EXCEPT !.state = "done"]
    <3>1. ToReplay = {}
      BY <2>6 DEF ToReplay
    <3>2. fan["replay"] = {}
      BY <1>2, <2>6 DEF Half
    <3>3. Half'
      BY <2>1, <3>2 DEF Half
    <3>4. Known'
      BY <1>2, <1>3, <2>1, <2>2 DEF Known
    <3>5. Whole'
      <4> SUFFICES ASSUME NEW s \in replay'.for \intersect Active', NEW i \in 1..taken'
                   PROVE  Caught(s, i)'
        BY DEF Whole
      <4>1. s \in replay.for \intersect Active /\ i \in 1..taken
        BY <2>1, <2>3
      <4>2. Caught(s, i)
        BY <1>2, <4>1 DEF Whole
      <4>3. written[i] \notin ToReplay
        BY <3>1
      <4> QED
        BY <2>1, <2>4, <4>2, <4>3 DEF Caught, Wants
    <3> QED
      BY <1>1, <3>3, <3>4, <3>5
  <2> QED
    BY <2>1, <2>5, <2>6
<1>7. CASE Cleanup \/ CloseReturns
  <2>1. /\ UNCHANGED <<written, taken, fan, replay, got, sub>>
        /\ InStore' \subseteq InStore
    <3>1. CASE Cleanup
      BY <3>1, CleanupKeeps DEF Cleanup, loop, subs
    <3>2. CASE CloseReturns
      BY <3>2 DEF CloseReturns, loop, subs, InStore
    <3> QED
      BY <1>7, <3>1, <3>2
  <2>2. Active' = Active
    BY <2>1 DEF Active
  <2> QED
    BY <1>5, <2>1, <2>2
<1>8. ASSUME NEW e \in Events, PublishAppend(e) PROVE Replaying'
  <2>1. /\ pub[e] = "checked" /\ entries' = Append(entries, e)
        /\ UNCHANGED <<written, taken, fan, replay, got, sub>>
    BY <1>8 DEF PublishAppend, loop, subs
  <2>2. InStore' = InStore \union {e}
    <3>1. entries \in Seq(Events) /\ Len(entries) \in Nat
      BY LenProperties DEF Shape
    <3>2. /\ entries' \in Seq(Events) /\ Len(entries') = Len(entries) + 1
          /\ \A i \in 1..Len(entries) : entries'[i] = entries[i]
          /\ entries'[Len(entries) + 1] = e
      BY <2>1, <3>1, AppendProperties
    <3>3. DOMAIN entries = 1..Len(entries) /\ DOMAIN entries' = 1..(Len(entries) + 1)
      BY <3>1, <3>2, LenProperties
    <3>4. \A i \in DOMAIN entries' : i \in DOMAIN entries \/ i = Len(entries) + 1
      BY <3>1, <3>3
    <3>5. \A i \in DOMAIN entries : i \in DOMAIN entries' /\ entries'[i] = entries[i]
      BY <3>1, <3>2, <3>3
    <3>6. Len(entries) + 1 \in DOMAIN entries'
      BY <3>1, <3>3
    <3> QED
      BY <3>2, <3>4, <3>5, <3>6 DEF InStore
  <2>3. \A i \in 1..taken : written[i] # e
    <3>1. \A i \in 1..taken : i \in DOMAIN written
      BY <1>3, <1>4, LenProperties
    <3> QED
      BY <2>1, <3>1 DEF WrittenOnce
  <2>4. Active' = Active
    BY <2>1 DEF Active
  <2>5. \A i \in 1..taken : written[i] \notin InStore => written[i] \notin InStore'
    BY <2>2, <2>3
  <2> QED
    BY <1>5, <2>1, <2>4, <2>5
<1>9. ASSUME NEW e \in Events, PublishSend(e) PROVE Replaying'
  <2>1. /\ written' = Append(written, e)
        /\ UNCHANGED <<entries, taken, fan, replay, got, sub>>
    BY <1>9 DEF PublishSend, store, loop, subs
  <2>2. \A i \in 1..taken : written'[i] = written[i]
    BY <1>3, <1>4, <2>1, AppendProperties
  <2>3. Active' = Active /\ InStore' = InStore
    BY <2>1 DEF Active, InStore
  <2> QED
    BY <1>5, <2>1, <2>2, <2>3
<1>10. CASE Take
  <2>1. /\ taken' = taken + 1 /\ fan["live"] = {}
        /\ UNCHANGED <<entries, written, replay, got, sub>>
    BY <1>10 DEF Take, store, subs
  <2>2. /\ fan'["replay"] = fan["replay"]
        /\ fan'["live"] = {s \in Active : Wants(s, written[taken + 1])}
    BY <1>3, <1>10 DEF Take, Snapshot, Fanouts
  <2>3. Active' = Active /\ InStore' = InStore /\ ToReplay' = ToReplay
    BY <2>1 DEF Active, InStore, ToReplay
  <2>4. Known' /\ Half'
    BY <1>2, <2>1, <2>2, <2>3 DEF Known, Half, Wants
  <2>5. Whole'
    <3> SUFFICES ASSUME NEW s \in replay.for \intersect Active, NEW i \in 1..(taken + 1)
                 PROVE  Caught(s, i)'
      BY <2>1, <2>3 DEF Whole
    <3>1. CASE i = taken + 1
      BY <2>1, <2>2, <3>1 DEF Caught, Wants
    <3>2. CASE i # taken + 1
      <4>1. i \in 1..taken
        BY <1>3, <3>2
      <4>2. Caught(s, i) /\ s \notin fan["live"]
        BY <1>2, <2>1, <4>1 DEF Whole
      <4> QED
        BY <2>1, <2>3, <4>2 DEF Caught, Wants
    <3> QED
      BY <3>1, <3>2
  <2> QED
    BY <1>1, <2>4, <2>5
<1>11. ASSUME NEW t \in Subscribers, OfferLive(t) PROVE Replaying'
  <2>1. Offer("live", t, written[taken])
        /\ UNCHANGED <<entries, written, taken, replay>>
    BY <1>11 DEF OfferLive, store, loop
  <2>2. taken \in 1..taken /\ written[taken] \in Events
    BY <1>3, <1>4, <2>1 DEF Offer, Hearing
  <2>3. /\ fan'["live"] = fan["live"] \ {t} /\ fan'["replay"] = fan["replay"]
        /\ written[taken] \in got'[t] /\ \A s \in Subscribers : got[s] \subseteq got'[s]
        /\ sub' = sub
    BY <2>1, <2>2, OfferEffect DEF Fanouts
  <2>4. Active' = Active /\ InStore' = InStore /\ ToReplay' = ToReplay
    BY <2>1, <2>3 DEF Active, InStore, ToReplay
  <2>5. Known' /\ Half'
    BY <1>2, <2>1, <2>3, <2>4 DEF Known, Half, Wants, Active
  <2>6. Whole'
    <3> SUFFICES ASSUME NEW s \in replay.for \intersect Active, NEW i \in 1..taken
                 PROVE  Caught(s, i)'
      BY <2>1, <2>4 DEF Whole
    <3>1. Caught(s, i) /\ s \in Subscribers
      BY <1>2 DEF Whole, Active
    <3>2. CASE i = taken /\ s = t
      BY <2>1, <2>3, <3>2 DEF Caught
    <3>3. CASE ~(i = taken /\ s = t)
      BY <2>1, <2>3, <2>4, <3>1, <3>3 DEF Caught, Wants
    <3> QED
      BY <3>2, <3>3
  <2> QED
    BY <1>1, <2>5, <2>6
<1>12. ASSUME NEW types \in SUBSET {Type[e] : e \in Events}, NEW limit \in Limits,
              ReplayQuery(types, limit)
       PROVE  Replaying'
  <2>1. PICK found \in QueryResults(types, limit) :
          replay' = [state |-> "running", todo |-> found,
                     for |-> IF types = {} /\ limit = 0 THEN Active ELSE {}]
    BY <1>12 DEF ReplayQuery
  <2>2. /\ replay.state = "none"
        /\ UNCHANGED <<entries, written, taken, fan, got, sub>>
    BY <1>12 DEF ReplayQuery, store, loop, subs
  <2>3. fan'["replay"] = {}
    BY <1>2, <2>2 DEF Half
  <2>4. Half'
    BY <2>3 DEF Half
  <2>5. Known'
    BY <2>1, <2>2 DEF Known, Active
  <2>6. ASSUME types = {}, limit = 0
        PROVE  ToReplay' = InStore
    <3>1. InStore \subseteq Events /\ limit \in Nat
      BY BusAssumption DEF TypeOK
    <3>2. {found[i] : i \in DOMAIN found} = InStore
      BY <2>6, <3>1, QueryReturns
    <3> QED
      BY <2>1, <3>2 DEF ToReplay
  <2>7. InStore' = InStore
    BY <2>2 DEF InStore
  <2>8. Whole'
    <3> SUFFICES ASSUME NEW s \in replay'.for \intersect Active', NEW i \in 1..taken'
                 PROVE  Caught(s, i)'
      BY DEF Whole
    <3>1. types = {} /\ limit = 0
      BY <2>1
    <3>2. ToReplay' = InStore' /\ replay'.state = "running"
      BY <2>1, <2>6, <2>7, <3>1
    <3> QED
      BY <3>2 DEF Caught
  <2> QED
    BY <1>1, <2>4, <2>5, <2>8
\* A Replay is done with an event when everyone in the snapshot was served.
<1>13. ASSUME UNCHANGED <<entries, written, taken, sub>>,
              fan'["live"] = fan["live"], fan'["replay"] = {},
              replay.todo # << >>,
              replay' = [replay EXCEPT !.todo = Tail(@)],
              \A s \in Subscribers : got[s] \subseteq got'[s],
              \A s \in replay.for \intersect Active :
                 ~Wants(s, Head(replay.todo)) \/ Head(replay.todo) \in got'[s]
       PROVE  Replaying'
  <2>1. Active' = Active /\ InStore' = InStore
    BY <1>13 DEF Active, InStore
  <2>2. replay'.for = replay.for /\ replay'.state = replay.state
        /\ replay'.todo = Tail(replay.todo) /\ replay.todo \in Seq(Events)
    BY <1>3, <1>13
  <2>3. ToReplay \subseteq ToReplay' \union {Head(replay.todo)}
    <3> DEFINE q == replay.todo
    <3>1. q \in Seq(Events) /\ Len(q) \in Nat \ {0} /\ DOMAIN q = 1..Len(q)
      BY <1>13, <2>2, EmptySeq, LenProperties
    <3>2. /\ Tail(q) \in Seq(Events) /\ Len(Tail(q)) = Len(q) - 1
          /\ \A i \in 1..Len(Tail(q)) : Tail(q)[i] = q[i + 1]
      BY <1>13, <3>1, HeadTailProperties
    <3>3. DOMAIN Tail(q) = 1..(Len(q) - 1)
      BY <3>2, LenProperties
    <3>4. Head(q) = q[1]
      BY <3>1
    <3>5. ASSUME NEW i \in DOMAIN q, i # 1
          PROVE  \E j \in DOMAIN Tail(q) : q[i] = Tail(q)[j]
      <4>1. i - 1 \in 1..(Len(q) - 1) /\ (i - 1) + 1 = i
        BY <3>1, <3>5
      <4>2. Tail(q)[i - 1] = q[i]
        BY <3>2, <4>1
      <4> QED
        BY <3>3, <4>1, <4>2
    <3> QED
      BY <2>2, <3>4, <3>5 DEF ToReplay
  <2>4. Known' /\ Half'
    BY <1>2, <1>13, <2>2 DEF Known, Half
  <2>5. Whole'
    <3> SUFFICES ASSUME NEW s \in replay.for \intersect Active, NEW i \in 1..taken
                 PROVE  Caught(s, i)'
      BY <1>13, <2>1, <2>2 DEF Whole
    <3>1. Caught(s, i) /\ s \in Subscribers
      BY <1>2 DEF Whole, Active
    <3>2. CASE written[i] = Head(replay.todo)
      BY <1>13, <3>2 DEF Caught, Wants
    <3>3. CASE written[i] # Head(replay.todo)
      BY <1>13, <2>1, <2>2, <2>3, <3>1, <3>3 DEF Caught, Wants
    <3> QED
      BY <3>2, <3>3
  <2> QED
    BY <1>1, <2>4, <2>5
<1>14. CASE ReplayNext
  <2>1. /\ replay.state = "running" /\ replay.todo # << >> /\ fan["replay"] = {}
        /\ UNCHANGED <<entries, written, taken, got, sub>>
    BY <1>14 DEF ReplayNext, store, loop, subs
  <2>2. /\ fan'["live"] = fan["live"]
        /\ fan'["replay"] = {s \in Active : Wants(s, Head(replay.todo))}
    BY <1>3, <1>14 DEF ReplayNext, Snapshot, Fanouts
  <2>3. Active' = Active /\ InStore' = InStore
    BY <2>1 DEF Active, InStore
  <2>4. CASE \E s \in Active : Wants(s, Head(replay.todo))
    <3>1. replay' = replay
      BY <1>14, <2>4 DEF ReplayNext
    <3>2. ToReplay' = ToReplay
      BY <3>1 DEF ToReplay
    <3>3. Known' /\ Half'
      BY <1>2, <2>1, <2>2, <2>3, <3>1 DEF Known, Half, Wants
    <3>4. Whole'
      BY <1>2, <2>1, <2>2, <2>3, <3>1, <3>2 DEF Whole, Caught, Wants
    <3> QED
      BY <1>1, <3>3, <3>4
  <2>5. CASE ~\E s \in Active : Wants(s, Head(replay.todo))
    <3>1. replay' = [replay EXCEPT !.todo = Tail(@)] /\ fan'["replay"] = {}
      BY <1>14, <2>2, <2>5 DEF ReplayNext
    <3>2. \A s \in Subscribers : got[s] \subseteq got'[s]
      BY <2>1
    <3>3. \A s \in replay.for \intersect Active :
            ~Wants(s, Head(replay.todo)) \/ Head(replay.todo) \in got'[s]
      BY <2>5
    <3> QED
      BY <1>13, <2>1, <2>2, <3>1, <3>2, <3>3
  <2> QED
    BY <2>4, <2>5
<1>15. ASSUME NEW t \in Subscribers, OfferReplayed(t) PROVE Replaying'
  <2>1. /\ Offer("replay", t, Head(replay.todo))
        /\ replay' = IF fan["replay"] = {t} THEN [replay EXCEPT !.todo = Tail(@)]
                     ELSE replay
        /\ UNCHANGED <<entries, written, taken>>
    BY <1>15 DEF OfferReplayed, store, loop
  <2>2. t \in fan["replay"] /\ replay.state = "running" /\ replay.todo # << >>
    BY <1>2, <2>1 DEF Offer, Half
  <2>3. Head(replay.todo) \in Events
    BY <1>3, <2>2, HeadTailProperties
  <2>4. /\ fan'["replay"] = fan["replay"] \ {t} /\ fan'["live"] = fan["live"]
        /\ Head(replay.todo) \in got'[t]
        /\ \A s \in Subscribers : got[s] \subseteq got'[s]
        /\ sub' = sub
    BY <2>1, <2>3, OfferEffect DEF Fanouts
  <2>5. \A s \in replay.for \intersect Active :
          \/ ~Wants(s, Head(replay.todo))
          \/ s \in fan'["replay"] \/ Head(replay.todo) \in got'[s]
    BY <1>2, <2>2, <2>4 DEF Half, Active
  <2>6. CASE fan["replay"] = {t}
    <3>1. fan'["replay"] = {} /\ replay' = [replay EXCEPT !.todo = Tail(@)]
      BY <2>1, <2>4, <2>6
    <3>2. \A s \in replay.for \intersect Active :
            ~Wants(s, Head(replay.todo)) \/ Head(replay.todo) \in got'[s]
      BY <2>5, <3>1
    <3> QED
      BY <1>13, <2>1, <2>2, <2>4, <3>1, <3>2
  <2>7. CASE fan["replay"] # {t}
    <3>1. replay' = replay
      BY <2>1, <2>7
    <3>2. Active' = Active /\ InStore' = InStore /\ ToReplay' = ToReplay
      BY <2>1, <2>4, <3>1 DEF Active, InStore, ToReplay
    <3>3. Known' /\ Half'
      BY <1>2, <2>2, <2>4, <2>5, <3>1, <3>2 DEF Known, Half, Wants
    <3>4. Whole'
      <4> SUFFICES ASSUME NEW s \in replay.for \intersect Active, NEW i \in 1..taken
                   PROVE  Caught(s, i)'
        BY <2>1, <3>1, <3>2 DEF Whole
      <4>1. Caught(s, i) /\ s \in Subscribers
        BY <1>2 DEF Whole, Active
      <4> QED
        BY <2>1, <2>4, <3>1, <3>2, <4>1 DEF Caught, Wants
    <3> QED
      BY <1>1, <3>3, <3>4
  <2> QED
    BY <2>6, <2>7
<1> QED
  BY <1>6, <1>7, <1>8, <1>9, <1>10, <1>11, <1>12, <1>14, <1>15, NextCases
\* All parts hold of the bus just made.
LEMMA InitIndInv == Init => IndInv
<1> SUFFICES ASSUME Init PROVE IndInv
  OBVIOUS
<1>1. << >> \in Seq(Events) /\ Len(<< >>) = 0 /\ DOMAIN << >> = {}
  BY EmptySeq
<1>2. entries = << >> /\ written = << >> /\ taken = 0
  BY DEF Init
<1>3. Shape
  BY <1>1, <1>2 DEF Init, Shape
<1>4. publishCh = << >>
  BY <1>2 DEF publishCh
<1>5. TypeOK
  BY <1>1, <1>2, <1>4, BusAssumption DEF Init, TypeOK, InStore, PubStates
<1>6. WrittenOnce
  BY <1>1, <1>2 DEF WrittenOnce
<1>7. Hearing
  BY <1>1 DEF Init, Hearing, Fanouts
<1>8. Replaying
  BY <1>2 DEF Init, Replaying, Fanouts
<1> QED
  BY <1>3, <1>5, <1>6, <1>7, <1>8 DEF IndInv

\* The invariant behind all of the following holds throughout: of publishCh, of
\* what each subscriber heard, and of what a Replay has still to show it.
THEOREM Invariance == Spec => []IndInv
<1>1. IndInv /\ [Next]_vars => IndInv'
  BY StepTypes, StepWrittenOnce, StepHearing, StepReplaying DEF IndInv
<1> QED
  BY InitIndInv, <1>1, PTL DEF Spec

\* The state of the bus keeps its types; publishCh holds PublishBuffer at most.
THEOREM TypeCorrect == Spec => []TypeOK
<1>1. IndInv => TypeOK
  BY DEF IndInv
<1> QED
  BY Invariance, <1>1, PTL

\* Append before the write to publishCh, and the snapshot of fanout: whoever
\* subscribes and then lets a full Replay run misses nothing.
THEOREM CatchesUp == Spec => []CatchUp
<1>1. IndInv => CatchUp
  BY DEF IndInv, Replaying, CatchUp
<1> QED
  BY Invariance, <1>1, PTL

-----------------------------------------------------------------------------
(* LocalBus implements MessageBus.                                         *)

\* The steps that persist nothing, order nothing and let nobody hear anything.
LEMMA SilentSteps ==
  ASSUME IndInv, [Next]_vars
  PROVE  \/ UNCHANGED <<Persisted, written, heard>>
         \/ \E e \in Events : PublishAppend(e)
         \/ \E e \in Events : PublishSend(e)
         \/ \E s \in Subscribers : OfferLive(s)
<1>1. CASE QuietStep
  <2>1. \A e \in Events : e \in Persisted <=> e \in Persisted'
    BY <1>1, QuietFrame DEF IndInv
  <2>2. Persisted' = Persisted
    BY <2>1 DEF Persisted
  <2> QED
    BY <1>1, <2>2, QuietFrame DEF IndInv
<1>2. CASE Take \/ Cleanup \/ ReplayNext \/ CloseReturns
  BY <1>2 DEF Take, Cleanup, ReplayNext, CloseReturns, store, subs, Persisted
<1>3. ASSUME NEW types \in SUBSET {Type[e] : e \in Events}, NEW limit \in Limits,
             ReplayQuery(types, limit)
      PROVE  UNCHANGED <<Persisted, written, heard>>
  BY <1>3 DEF ReplayQuery, subs, Persisted
<1>4. ASSUME NEW s \in Subscribers, OfferReplayed(s)
      PROVE  UNCHANGED <<Persisted, written, heard>>
  BY <1>4 DEF OfferReplayed, Offer, Persisted
<1> QED
  BY <1>1, <1>2, <1>3, <1>4, NextCases

\* store.Append persists an event that was not persisted.
LEMMA AppendPersists ==
  ASSUME IndInv, NEW e \in Events, PublishAppend(e)
  PROVE  Bus!Persist(e)
<1>1. /\ pub \in [Events -> PubStates] /\ pub[e] = "checked"
      /\ pub' = [pub EXCEPT ![e] = "stored"]
      /\ UNCHANGED <<written, heard>>
  BY DEF PublishAppend, IndInv, TypeOK, subs
<1>2. e \notin Persisted /\ Persisted' = Persisted \union {e}
  BY <1>1 DEF Persisted
<1> QED
  BY <1>1, <1>2 DEF Bus!Persist

\* The write to publishCh gives a persisted event its one place in the order.
LEMMA SendOrders ==
  ASSUME IndInv, NEW e \in Events, PublishSend(e)
  PROVE  Bus!Order(e)
<1>1. /\ pub \in [Events -> PubStates] /\ pub[e] = "stored"
      /\ pub' = [pub EXCEPT ![e] = "ok"]
      /\ written' = Append(written, e) /\ UNCHANGED heard
  BY DEF PublishSend, IndInv, TypeOK, subs
<1>2. e \in Persisted /\ Persisted' = Persisted
  BY <1>1 DEF Persisted
<1>3. \A i \in DOMAIN written : written[i] # e
  BY <1>1 DEF IndInv, WrittenOnce
<1> QED
  BY <1>1, <1>2, <1>3 DEF Bus!Order

\* fanout, called by dispatchLoop, lets a subscriber hear the event taken last,
\* and it heard none that was written after that one.
LEMMA OfferIsHeard ==
  ASSUME IndInv, NEW s \in Subscribers, OfferLive(s)
  PROVE  \/ UNCHANGED <<Persisted, written, heard>>
         \/ taken \in DOMAIN written /\ Bus!Hear(s, taken)
<1>1. Offer("live", s, written[taken]) /\ UNCHANGED <<pub, written>>
  BY DEF OfferLive
<1>2. Persisted' = Persisted
  BY <1>1 DEF Persisted
<1>3. /\ written \in Seq(Events) /\ Len(written) \in Nat
      /\ DOMAIN written = 1..Len(written) /\ taken \in 0..Len(written)
  BY LenProperties DEF IndInv, Shape, TypeOK
<1>4. s \in fan["live"]
  BY <1>1 DEF Offer
<1>5. taken \in 1..Len(written)
  BY <1>3, <1>4 DEF IndInv, Hearing
<1>6. written[taken] \in Events
  BY <1>3, <1>5, ElementOfSeq
<1>7. ASSUME NEW j \in DOMAIN heard[s], NEW k \in DOMAIN written,
             heard[s][j] = written[k]
      PROVE  k < taken
  <2>1. PICK m \in 1..taken : heard[s][j] = written[m] /\ m < taken
    BY <1>4 DEF IndInv, Hearing
  <2>2. m \in DOMAIN written
    BY <1>3, <2>1
  <2>3. m = k
    BY <1>7, <2>1, <2>2 DEF IndInv, WrittenOnce
  <2> QED
    BY <2>1, <2>3
<1>8. \/ heard' = heard
      \/ heard' = [heard EXCEPT ![s] = Append(@, written[taken])]
  BY <1>1, <1>6, OfferEffect DEF IndInv, Fanouts
<1> QED
  BY <1>1, <1>2, <1>3, <1>5, <1>7, <1>8 DEF Bus!Hear

\* The in-process bus keeps the promises of the interface: no event is ordered
\* that was not persisted, none is ordered twice, and every subscriber hears
\* what it hears in that order.
THEOREM BusImplemented == Spec => ImplementsMessageBus
<1>1. Init => Bus!Start
  <2> SUFFICES ASSUME Init PROVE Bus!Start
    OBVIOUS
  <2>1. Persisted = {}
    BY DEF Init, Persisted
  <2> QED
    BY <2>1 DEF Init, Bus!Start
<1>2. IndInv /\ [Next]_vars => [Bus!Step]_(Bus!bvars)
  <2> SUFFICES ASSUME IndInv, [Next]_vars PROVE [Bus!Step]_(Bus!bvars)
    OBVIOUS
  <2>1. CASE UNCHANGED <<Persisted, written, heard>>
    BY <2>1 DEF Bus!bvars
  <2>2. ASSUME NEW e \in Events, PublishAppend(e) PROVE Bus!Step
    BY <2>2, AppendPersists DEF Bus!Step
  <2>3. ASSUME NEW e \in Events, PublishSend(e) PROVE Bus!Step
    BY <2>3, SendOrders DEF Bus!Step
  <2>4. ASSUME NEW s \in Subscribers, OfferLive(s)
        PROVE  UNCHANGED <<Persisted, written, heard>> \/ Bus!Step
    <3>1. CASE taken \in DOMAIN written /\ Bus!Hear(s, taken)
      BY <3>1 DEF Bus!Step
    <3> QED
      BY <2>4, <3>1, OfferIsHeard
  <2> QED
    BY <2>1, <2>2, <2>3, <2>4, SilentSteps
<1> QED
  BY <1>1, <1>2, Invariance, PTL DEF Spec, Bus!Spec, ImplementsMessageBus
=============================================================================
