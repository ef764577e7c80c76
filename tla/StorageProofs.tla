--------------------------- MODULE StorageProofs ---------------------------
(***************************************************************************)
(* Proofs about the two components that keep times as text:                *)
(* SQLiteEventStore, for any events and times, any limit and TTL, and      *)
(* UsageCollector, for any readings, meters, queries and flushers; in both *)
(* fractions with digits of any base.                                      *)
(***************************************************************************)
EXTENDS SQLiteEventStore, UsageCollector, FiniteSetTheorems, WellFoundedInduction, TLAPS

\* A greater number is greater whatever digit of a base S follows it.
LEMMA SecondsFirst ==
  ASSUME NEW S \in Nat, NEW x \in Int, NEW y \in Int, x < y,
         NEW f \in 0..(S - 1), NEW g \in 0..(S - 1)
  PROVE  x * S + f < y * S + g
<1>1. PICK d \in Nat : y = x + 1 + d
  <2>1. y - x - 1 \in Nat /\ y = x + 1 + (y - x - 1)
    OBVIOUS
  <2> QED
    BY <2>1
<1>2. y * S = x * S + S + d * S
  BY <1>1
<1>3. d * S \in Nat
  OBVIOUS
<1>4. x * S \in Int
  OBVIOUS
<1> QED
  BY <1>2, <1>3, <1>4

\* The texts of two times of different seconds are in the order of the seconds.
LEMMA TextOrder ==
  ASSUME NEW a \in Int, NEW b \in Int
  PROVE  /\ Sec(a) < Sec(b) => Text(a) < Text(b)
         /\ Text(a) \in Int /\ Sec(a) \in Int
<1>1. Base \in Nat /\ Base > 0 /\ Base * Base \in Nat /\ Base * Base > 0
  BY BaseAssumption
<1> DEFINE first(t)  == IF t % (Base * Base) = 0 THEN Base ELSE (t \div Base) % Base
           second(t) == IF t % Base = 0 THEN Base ELSE t % Base
<1>2. \A t \in Int : Sec(t) \in Int
  BY <1>1 DEF Sec
<1>3. \A t \in Int : first(t) \in 0..Base /\ second(t) \in 0..Base
  <2>1. \A t \in Int : t % Base \in 0..(Base - 1)
    BY <1>1
  <2>2. \A t \in Int : t \div Base \in Int
    BY <1>1
  <2> QED
    BY <1>1, <2>1, <2>2
<1>4. \A t \in Int : Text(t) = (Sec(t) * (Base + 1) + first(t)) * (Base + 1) + second(t)
  BY DEF Text
<1> HIDE DEF first, second
<1>5. \A t \in Int : Sec(t) * (Base + 1) + first(t) \in Int /\ Text(t) \in Int
  BY <1>1, <1>2, <1>3, <1>4
<1>6. ASSUME Sec(a) < Sec(b) PROVE Text(a) < Text(b)
  <2>1. Base + 1 \in Nat /\ (Base + 1) - 1 = Base
    BY <1>1
  <2>2. Sec(a) * (Base + 1) + first(a) < Sec(b) * (Base + 1) + first(b)
    BY <1>2, <1>3, <1>6, <2>1, SecondsFirst
  <2>3. (Sec(a) * (Base + 1) + first(a)) * (Base + 1) + second(a)
          < (Sec(b) * (Base + 1) + first(b)) * (Base + 1) + second(b)
    BY <1>3, <1>5, <2>1, <2>2, SecondsFirst
  <2> QED
    BY <1>4, <2>3
<1> QED
  BY <1>2, <1>5, <1>6

\* Whatever the order of texts says of two times, their seconds say too.
LEMMA TextSays ==
  ASSUME NEW a \in Int, NEW b \in Int, Text(a) <= Text(b)
  PROVE  Sec(a) <= Sec(b)
BY TextOrder

-----------------------------------------------------------------------------
(* The event store.                                                        *)

\* An event is on its way to the table or in it.  What the count says while the
\* cleaner knows of an excess, and what is left to say when it does not.
Counted ==
  /\ Rows \intersect DOMAIN appending = {}
  /\ cleaner.at = "idle" => Cardinality(Rows) <= MaxEvents + since
  /\ cleaner.at = "excess" => /\ cleaner.excess > 0
                             /\ Cardinality(Rows) = MaxEvents + cleaner.excess + since

IndInv == TypeOK /\ Counted

\* Sets of rows are finite.
LEMMA Finite ==
  ASSUME TypeOK, NEW S \in SUBSET Rows
  PROVE  /\ IsFiniteSet(S) /\ Cardinality(S) \in Nat
         /\ Cardinality(S) <= Cardinality(Rows) /\ Cardinality(S) <= Cardinality(Events)
         /\ Cardinality(Rows) \in Nat /\ IsFiniteSet(Rows)
         /\ Cardinality(Rows \ S) = Cardinality(Rows) - Cardinality(S)
<1>1. Rows \subseteq Events /\ S \subseteq Events
  BY DEF TypeOK
<1>2. IsFiniteSet(Rows) /\ IsFiniteSet(S)
  BY <1>1, StoreAssumption, FS_Subset
<1>3. Cardinality(S) \in Nat /\ Cardinality(Rows) \in Nat
  BY <1>2, FS_CardinalityType
<1>4. Cardinality(S) <= Cardinality(Rows) /\ Cardinality(S) <= Cardinality(Events)
  BY <1>1, <1>2, StoreAssumption, FS_Subset
<1>5. Cardinality(Rows \ S) = Cardinality(Rows) - Cardinality(Rows \intersect S)
  BY <1>2, FS_Difference
<1>6. Rows \intersect S = S
  OBVIOUS
<1> QED
  BY <1>2, <1>3, <1>4, <1>5, <1>6

\* What the cleaner knows, at each of its steps.
LEMMA Cleaners ==
  /\ Idle \in CleanerStates /\ Idle.at = "idle"
  /\ \A c \in CleanerStates, a \in {"idle", "age", "count", "excess"} :
       [c EXCEPT !.at = a] \in CleanerStates /\ [c EXCEPT !.at = a].at = a
  /\ \A n \in 0..MaxNow :
       [at |-> "age", cutoff |-> n - TTL, excess |-> 0] \in CleanerStates
  /\ \A c \in CleanerStates, n \in 0..Cardinality(Events) :
       /\ [c EXCEPT !.at = "excess", !.excess = n] \in CleanerStates
       /\ [c EXCEPT !.at = "excess", !.excess = n].at = "excess"
       /\ [c EXCEPT !.at = "excess", !.excess = n].excess = n
<1>1. Cardinality(Events) \in Nat
  BY StoreAssumption, FS_CardinalityType
<1>2. Idle \in CleanerStates /\ Idle.at = "idle"
  BY <1>1, StoreAssumption DEF Idle, CleanerStates
<1>3. \A c \in CleanerStates, a \in {"idle", "age", "count", "excess"} :
        [c EXCEPT !.at = a] \in CleanerStates /\ [c EXCEPT !.at = a].at = a
  BY DEF CleanerStates
<1>4. ASSUME NEW n \in 0..MaxNow
      PROVE  [at |-> "age", cutoff |-> n - TTL, excess |-> 0] \in CleanerStates
  <2>1. n - TTL \in -TTL..MaxNow
    BY StoreAssumption
  <2>2. 0 \in 0..Cardinality(Events)
    BY <1>1
  <2> QED
    BY <2>1, <2>2 DEF CleanerStates
<1>5. \A c \in CleanerStates, n \in 0..Cardinality(Events) :
        /\ [c EXCEPT !.at = "excess", !.excess = n] \in CleanerStates
        /\ [c EXCEPT !.at = "excess", !.excess = n].at = "excess"
        /\ [c EXCEPT !.at = "excess", !.excess = n].excess = n
  BY DEF CleanerStates
<1> QED
  BY <1>2, <1>3, <1>4, <1>5

\* The types of what the cleaner knows.
LEMMA Knows ==
  ASSUME TypeOK
  PROVE  cleaner.cutoff \in Int /\ cleaner.excess \in Nat /\ since \in Nat
<1>1. Cardinality(Events) \in Nat
  BY StoreAssumption, FS_CardinalityType
<1>2. cleaner.cutoff \in -TTL..MaxNow /\ cleaner.excess \in 0..Cardinality(Events)
  BY DEF TypeOK, CleanerStates
<1> QED
  BY <1>1, <1>2, StoreAssumption DEF TypeOK

\* Append, between whatever else.
LEMMA AppendKeeps ==
  ASSUME IndInv, NEW e \in Events, AppendCheck(e) \/ AppendInsert(e) \/ AppendFails(e)
  PROVE  IndInv'
<1> USE DEF IndInv
<1>1. CASE AppendCheck(e)
  <2>1. DOMAIN appending' = DOMAIN appending \union {e}
    BY <1>1 DEF AppendCheck, With
  <2>2. /\ e \notin Rows /\ tried' = tried \union {e} /\ Rows' = Rows
        /\ UNCHANGED <<now, table, cleaner, since, closed>>
    BY <1>1 DEF AppendCheck, TypeOK, Rows
  <2>3. \A x \in DOMAIN appending' : appending'[x] \in 0..now
    <3>1. \A x \in DOMAIN appending' : appending'[x] = IF x = e THEN now ELSE appending[x]
      BY <1>1 DEF AppendCheck, With
    <3> QED
      BY <2>1, <3>1, StoreAssumption DEF TypeOK
  <2>4. TypeOK'
    BY <2>1, <2>2, <2>3 DEF TypeOK
  <2>5. Counted'
    BY <2>1, <2>2 DEF Counted
  <2> QED
    BY <2>4, <2>5
<1>2. CASE AppendInsert(e)
  <2>1. e \in DOMAIN appending /\ e \notin Rows
    BY <1>2 DEF AppendInsert, Counted
  <2>2. /\ Rows' = Rows \union {e} /\ DOMAIN appending' = DOMAIN appending \ {e}
        /\ \A x \in DOMAIN appending' : appending'[x] = appending[x]
        /\ \A x \in Rows' : table'[x] = IF x = e THEN appending[e] ELSE table[x]
    BY <1>2 DEF AppendInsert, Rows, With, Without, Restrict
  <2>3. Cardinality(Rows') = Cardinality(Rows) + 1 /\ Cardinality(Rows) \in Nat
    BY <2>1, <2>2, Finite, FS_AddElement
  <2>4. since' = since + 1 /\ UNCHANGED <<now, tried, cleaner, closed>>
    BY <1>2 DEF AppendInsert
  <2>5. TypeOK'
    BY <2>1, <2>2, <2>4 DEF TypeOK
  <2>6. Counted'
    BY <2>1, <2>2, <2>3, <2>4, StoreAssumption DEF Counted, TypeOK, CleanerStates
  <2> QED
    BY <2>5, <2>6
<1>3. CASE AppendFails(e)
  <2>1. /\ DOMAIN appending' = DOMAIN appending \ {e}
        /\ \A x \in DOMAIN appending' : appending'[x] = appending[x]
    BY <1>3 DEF AppendFails, Without, Restrict
  <2>2. Rows' = Rows /\ UNCHANGED <<now, tried, table, cleaner, since, closed>>
    BY <1>3 DEF AppendFails, Rows
  <2> QED
    BY <2>1, <2>2 DEF TypeOK, Counted
<1> QED
  BY <1>1, <1>2, <1>3

\* What DELETE leaves is of the types it had.
LEMMA DeleteTypes ==
  ASSUME TypeOK, NEW S, table' = Without(table, S), UNCHANGED <<now, tried, appending, closed>>,
         since' \in Nat,
         cleaner' \in CleanerStates
  PROVE  TypeOK' /\ Rows' = Rows \ S
<1>1. Rows' = Rows \ S /\ \A x \in Rows' : table'[x] = table[x]
  BY DEF Rows, Without, Restrict
<1>2. Rows' \subseteq tried' /\ DOMAIN appending' \subseteq tried' /\ tried' \subseteq Events
  BY <1>1 DEF TypeOK
<1>3. \A e \in Rows' : table'[e] \in 0..now'
  BY <1>1 DEF TypeOK
<1>4. \A e \in DOMAIN appending' : appending'[e] \in 0..now'
  BY DEF TypeOK
<1> QED
  BY <1>1, <1>2, <1>3, <1>4 DEF TypeOK

\* The excess is what the count finds too many; the second DELETE takes as many,
\* and no event of a later second before one of an earlier.
LEMMA ExcessGoes ==
  ASSUME IndInv, DeleteExcess
  PROVE  /\ Cardinality(Rows') = MaxEvents + since /\ Rows' \subseteq Rows
         /\ \A e \in Rows \ Rows', f \in Rows' : Sec(Stamp[e]) <= Sec(Stamp[f])
<1>1. PICK T \in Oldest(Rows, cleaner.excess) : table' = Without(table, T)
  BY DEF DeleteExcess
<1>2. /\ T \subseteq Rows /\ \A e \in T, f \in Rows \ T : Text(Stamp[e]) <= Text(Stamp[f])
      /\ Cardinality(T) = IF cleaner.excess < Cardinality(Rows) THEN cleaner.excess
                          ELSE Cardinality(Rows)
  BY <1>1 DEF Oldest
<1>3. /\ cleaner.excess \in Nat /\ since \in Nat
      /\ Cardinality(Rows) = MaxEvents + cleaner.excess + since
  BY Knows DEF IndInv, Counted, DeleteExcess
<1>4. Rows' = Rows \ T
  BY <1>1 DEF Rows, Without, Restrict
<1>5. Cardinality(Rows') = MaxEvents + since
  <2>1. /\ Cardinality(Rows \ T) = Cardinality(Rows) - Cardinality(T)
        /\ Cardinality(Rows) \in Nat
    BY <1>2, Finite DEF IndInv
  <2>2. Cardinality(T) = cleaner.excess
    BY <1>2, <1>3, StoreAssumption
  <2> QED
    BY <1>3, <1>4, <2>1, <2>2, StoreAssumption
<1>6. \A e \in Rows : Stamp[e] \in Int
  BY StoreAssumption DEF IndInv, TypeOK
<1>7. \A e \in Rows \ Rows', f \in Rows' : Sec(Stamp[e]) <= Sec(Stamp[f])
  BY <1>2, <1>4, <1>6, TextSays
<1> QED
  BY <1>4, <1>5, <1>7

\* Cleanup and its failures.
LEMMA CleanupKeeps ==
  ASSUME IndInv, CleanupStart \/ DeleteOld \/ CountRows \/ DeleteExcess \/ CleanupFails
  PROVE  IndInv'
<1> USE StoreAssumption DEF IndInv
<1>1. CASE CleanupStart
  BY <1>1, Cleaners DEF CleanupStart, TypeOK, Counted, Rows
<1>2. CASE DeleteOld
  <2> DEFINE S == {e \in Rows : Text(table[e]) < Text(cleaner.cutoff)}
  <2>1. /\ table' = Without(table, S) /\ UNCHANGED <<now, tried, appending, since, closed>>
        /\ cleaner' = [cleaner EXCEPT !.at = "count"]
    BY <1>2 DEF DeleteOld
  <2> HIDE DEF S
  <2>2. cleaner' \in CleanerStates /\ cleaner'.at = "count"
    BY <2>1, Cleaners DEF TypeOK
  <2>3. since' \in Nat
    BY <2>1 DEF TypeOK
  <2>4. TypeOK' /\ Rows' = Rows \ S
    BY <2>1, <2>2, <2>3, DeleteTypes
  <2> QED
    BY <2>1, <2>2, <2>4 DEF Counted
<1>3. CASE CountRows
  <2> DEFINE excess == Cardinality(Rows) - MaxEvents
  <2>1. /\ since' = 0 /\ UNCHANGED <<now, tried, appending, table, closed>>
        /\ cleaner' = IF excess > 0 THEN [cleaner EXCEPT !.at = "excess", !.excess = excess]
                      ELSE Idle
    BY <1>3 DEF CountRows
  <2>2. Cardinality(Rows) \in Nat /\ Cardinality(Rows) <= Cardinality(Events)
        /\ Cardinality(Events) \in Nat
    BY Finite, FS_CardinalityType
  <2>3. Rows' = Rows
    BY <2>1 DEF Rows
  <2>4. excess > 0 => excess \in 0..Cardinality(Events)
    BY <2>2
  <2>5. /\ cleaner' \in CleanerStates
        /\ excess > 0 => cleaner'.at = "excess" /\ cleaner'.excess = excess
        /\ ~(excess > 0) => cleaner'.at = "idle"
    <3> HIDE DEF excess
    <3> cleaner \in CleanerStates
      BY DEF TypeOK
    <3>1. CASE excess > 0
      <4>1. excess \in 0..Cardinality(Events)
        BY <2>4, <3>1
      <4>2. cleaner' = [cleaner EXCEPT !.at = "excess", !.excess = excess]
        BY <2>1, <3>1
      <4>3. /\ [cleaner EXCEPT !.at = "excess", !.excess = excess] \in CleanerStates
            /\ [cleaner EXCEPT !.at = "excess", !.excess = excess].at = "excess"
            /\ [cleaner EXCEPT !.at = "excess", !.excess = excess].excess = excess
        BY <4>1, Cleaners
      <4> QED
        BY <3>1, <4>2, <4>3
    <3>2. CASE ~(excess > 0)
      BY <2>1, <3>2, Cleaners
    <3> QED
      BY <3>1, <3>2
  <2>6. TypeOK'
    BY <2>1, <2>3, <2>5 DEF TypeOK
  <2>7. Counted'
    BY <2>1, <2>2, <2>3, <2>5 DEF Counted
  <2> QED
    BY <2>6, <2>7
<1>4. CASE DeleteExcess
  <2>1. PICK T : table' = Without(table, T)
    BY <1>4 DEF DeleteExcess
  <2>2. UNCHANGED <<now, tried, appending, since, closed>> /\ cleaner' = Idle
    BY <1>4 DEF DeleteExcess
  <2>3. Idle \in CleanerStates
    BY Cleaners
  <2>4. TypeOK'
    BY <2>1, <2>2, <2>3, DeleteTypes DEF TypeOK
  <2>5. Cardinality(Rows') = MaxEvents + since /\ Rows' \subseteq Rows
    BY <1>4, ExcessGoes
  <2>6. since \in Nat
    BY DEF TypeOK
  <2> QED
    <3>1. cleaner'.at = "idle" /\ since' = since /\ appending' = appending
      BY <2>2, Cleaners
    <3>2. (Rows \intersect DOMAIN appending = {})'
      BY <2>5, <3>1 DEF Counted
    <3> QED
      BY <2>4, <2>5, <2>6, <3>1, <3>2 DEF Counted
<1>5. CASE CleanupFails
  <2>1. since' = Cardinality(Rows) /\ UNCHANGED <<now, tried, appending, table, closed>>
        /\ cleaner' = Idle /\ Rows' = Rows
    BY <1>5 DEF CleanupFails, Rows
  <2>2. Cardinality(Rows) \in Nat /\ Cardinality(Events) \in Nat
    BY Finite, FS_CardinalityType
  <2>3. TypeOK'
    BY <2>1, <2>2, Cleaners DEF TypeOK
  <2> QED
    <3>1. cleaner'.at = "idle" /\ appending' = appending
      BY <2>1, Cleaners
    <3>2. (Rows \intersect DOMAIN appending = {})'
      BY <2>1, <3>1 DEF Counted
    <3> QED
      BY <2>1, <2>2, <2>3, <3>1, <3>2 DEF Counted
<1> QED
  BY <1>1, <1>2, <1>3, <1>4, <1>5

-----------------------------------------------------------------------------
\* The inductive invariant.
THEOREM Invariance == Spec => []IndInv
<1>1. Init => IndInv
  <2> SUFFICES ASSUME Init PROVE IndInv
    OBVIOUS
  <2>1. Rows = {} /\ DOMAIN appending = {} /\ tried = {} /\ Cardinality(Rows) = 0
    BY FS_EmptySet DEF Init, Rows
  <2>2. TypeOK
    <3>1. cleaner \in CleanerStates
      BY Cleaners DEF Init
    <3>2. now \in 0..MaxNow /\ since \in Nat /\ closed \in BOOLEAN
      <4>1. now = 0 /\ since = 0 /\ closed = FALSE
        BY DEF Init
      <4>2. 0 \in 0..MaxNow
        BY StoreAssumption
      <4> QED
        BY <4>1, <4>2
    <3>3. Rows \subseteq tried /\ DOMAIN appending \subseteq tried /\ tried \subseteq Events
      BY <2>1
    <3>4. (\A e \in Rows : table[e] \in 0..now) /\ \A e \in DOMAIN appending : appending[e] \in 0..now
      BY <2>1
    <3> QED
      BY <3>1, <3>2, <3>3, <3>4 DEF TypeOK
  <2>3. Counted
    <3>1. cleaner.at = "idle"
      BY Cleaners DEF Init
    <3> QED
      BY <2>1, <3>1, StoreAssumption DEF Init, Counted
  <2> QED
    BY <2>2, <2>3 DEF IndInv
<1>2. IndInv /\ (Tick \/ Close) => IndInv'
  <2> SUFFICES ASSUME IndInv, Tick \/ Close PROVE IndInv'
    OBVIOUS
  <2>0. now \in 0..MaxNow /\ closed \in BOOLEAN
    BY DEF IndInv, TypeOK
  <2>1. /\ UNCHANGED <<tried, appending, table, cleaner, since>> /\ Rows' = Rows
        /\ now' \in 0..MaxNow /\ closed' \in BOOLEAN
        /\ now' = now \/ now' = now + 1
    <3>1. CASE Tick
      BY <2>0, <3>1, StoreAssumption DEF Rows, Tick
    <3>2. CASE Close
      BY <2>0, <3>2 DEF Rows, Close
    <3> QED
      BY <3>1, <3>2
  <2>2. \A t \in 0..now : t \in 0..now'
    BY <2>1, StoreAssumption DEF IndInv, TypeOK
  <2>3. TypeOK'
    BY <2>1, <2>2 DEF IndInv, TypeOK
  <2>4. Counted'
    BY <2>1 DEF IndInv, Counted
  <2> QED
    BY <2>3, <2>4 DEF IndInv
<1>3. IndInv /\ UNCHANGED vars => IndInv'
  BY DEF vars, IndInv, TypeOK, Counted, Rows
<1>4. IndInv /\ [Next]_vars => IndInv'
  BY <1>2, <1>3, AppendKeeps, CleanupKeeps DEF Next
<1> QED
  BY <1>1, <1>4, PTL DEF Spec

\* A query errs by less than a second, whatever is in the table.
THEOREM QueriesToTheSecond == Spec => []QueryToTheSecond
<1>1. ASSUME IndInv PROVE QueryToTheSecond
  <2> SUFFICES ASSUME NEW from \in 0..MaxNow, NEW to \in 0..MaxNow, NEW limit \in 0..1,
                      NEW S \in Selected(from, to, limit)
               PROVE  /\ \A e \in S : Sec(from) <= Sec(Stamp[e]) /\ Sec(Stamp[e]) <= Sec(to)
                      /\ \A e \in Rows \ S :
                           \/ Sec(Stamp[e]) <= Sec(from) \/ Sec(Stamp[e]) >= Sec(to)
                           \/ limit > 0 /\ \A f \in S : Sec(Stamp[f]) <= Sec(Stamp[e])
    BY DEF QueryToTheSecond
  <2> DEFINE found == {e \in Rows : InRange(e, from, to)}
  <2>1. S \subseteq found /\ S \subseteq Rows
    BY DEF Selected, Oldest
  <2>2. \A e \in Rows : Stamp[e] \in Int
    BY <1>1, StoreAssumption DEF IndInv, TypeOK
  <2>3. \A e \in S : Sec(from) <= Sec(Stamp[e]) /\ Sec(Stamp[e]) <= Sec(to)
    BY <2>1, <2>2, TextSays DEF InRange
  <2>4. \A e \in Rows : e \notin found => Sec(Stamp[e]) <= Sec(from) \/ Sec(Stamp[e]) >= Sec(to)
    BY <2>2, TextSays, TextOrder DEF InRange
  <2>5. ASSUME NEW e \in found, e \notin S
        PROVE  limit > 0 /\ \A f \in S : Sec(Stamp[f]) <= Sec(Stamp[e])
    <3>1. limit > 0 /\ S \in Oldest(found, limit)
      BY <2>5 DEF Selected
    <3>2. \A f \in S : Text(Stamp[f]) <= Text(Stamp[e])
      BY <2>5, <3>1 DEF Oldest
    <3> QED
      BY <2>1, <2>2, <3>1, <3>2, TextSays
  <2> QED
    BY <2>3, <2>4, <2>5
<1> QED
  BY <1>1, Invariance, PTL

\* The first DELETE of a Cleanup errs by less than a second.
THEOREM RetainsToTheSecond == Spec => RetentionToTheSecond
<1> DEFINE Taken == cleaner.at = "age" /\ cleaner'.at = "count" => \A e \in Rows :
                      /\ Sec(table[e]) < Sec(cleaner.cutoff) => e \notin Rows'
                      /\ e \notin Rows' => Sec(table[e]) <= Sec(cleaner.cutoff)
<1>1. ASSUME IndInv, Next PROVE Taken
  <2> SUFFICES ASSUME cleaner.at = "age", cleaner'.at = "count" PROVE Taken
    OBVIOUS
  <2>1. DeleteOld
    <3>1. cleaner' # cleaner
      OBVIOUS
    <3>2. ~CleanupStart /\ ~CountRows /\ ~DeleteExcess /\ ~CleanupFails
      BY Cleaners DEF CleanupStart, CountRows, DeleteExcess, CleanupFails
    <3> QED
      BY <1>1, <3>1, <3>2 DEF Next, Tick, AppendCheck, AppendInsert, AppendFails, Close
  <2>2. Rows' = Rows \ {e \in Rows : Text(table[e]) < Text(cleaner.cutoff)}
    BY <2>1 DEF DeleteOld, Rows, Without, Restrict
  <2>3. cleaner.cutoff \in Int /\ \A e \in Rows : table[e] \in Int
    BY <1>1, Knows, StoreAssumption DEF IndInv, TypeOK
  <2> QED
    BY <2>2, <2>3, TextOrder, TextSays
<1>2. IndInv /\ [Next]_vars => [Taken]_vars
  BY <1>1
<1> QED
  BY <1>2, Invariance, PTL DEF Spec, RetentionToTheSecond

\* After a Cleanup the limit is kept, and the limit costs no event that it allows.
THEOREM KeepsLimit == Spec => LimitKept
<1> DEFINE Few  == cleaner.at = "idle" => Cardinality(Rows) <= MaxEvents + since
           Kept == cleaner.at = "excess" => \A e \in Rows \ Rows' :
                     Cardinality({f \in Rows' : Sec(Stamp[f]) >= Sec(Stamp[e])}) >= MaxEvents
<1>1. IndInv => Few
  BY DEF IndInv, Counted
<1>2. ASSUME IndInv, Next PROVE Kept
  <2> SUFFICES ASSUME cleaner.at = "excess", NEW e \in Rows \ Rows'
               PROVE  Cardinality({f \in Rows' : Sec(Stamp[f]) >= Sec(Stamp[e])}) >= MaxEvents
    OBVIOUS
  <2>1. \A x : AppendInsert(x) => Rows \subseteq Rows'
    BY DEF AppendInsert, Rows, With
  <2>2. DeleteExcess
    BY <1>2, <2>1 DEF Next, Tick, AppendCheck, AppendFails, CleanupStart, CountRows,
       DeleteOld, CleanupFails, Close, Rows
  <2>3. Rows' \subseteq Rows /\ \A f \in Rows' : Sec(Stamp[e]) <= Sec(Stamp[f])
    BY <1>2, <2>2, ExcessGoes
  <2>4. \A f \in Rows : Sec(Stamp[f]) \in Int
    BY <1>2, StoreAssumption, TextOrder DEF IndInv, TypeOK
  <2>5. {f \in Rows' : Sec(Stamp[f]) >= Sec(Stamp[e])} = Rows'
    BY <2>3, <2>4
  <2>6. Cardinality(Rows') = MaxEvents + since /\ since \in Nat
    BY <1>2, <2>2, ExcessGoes DEF IndInv, TypeOK
  <2> QED
    BY <2>5, <2>6, StoreAssumption
<1>3. IndInv /\ [Next]_vars => [Kept]_vars
  BY <1>2
<1> QED
  BY <1>1, <1>3, Invariance, PTL DEF Spec, LimitKept

-----------------------------------------------------------------------------
(***************************************************************************)
(* Sums of a function over a finite set.  There is no induction over data  *)
(* here: what fails for some subset of the set fails for one all of whose  *)
(* proper subsets it holds for (Minimal).                                  *)
(***************************************************************************)

\* A set of subsets of a finite set has a minimal element.
LEMMA Minimal ==
  ASSUME NEW S, IsFiniteSet(S), NEW B \in SUBSET SUBSET S, B # {}
  PROVE  \E M \in B : \A T \in SUBSET M : T # M => T \notin B
<1>1. IsWellFoundedOn(StrictSubsetOrdering(S), SUBSET S)
  BY FS_StrictSubsetOrderingWellFounded, FS_FiniteSubsetsOfFinite
<1>2. PICK M \in B : \A T \in B : ~ (<<T, M>> \in StrictSubsetOrdering(S))
  BY <1>1, WFMin
<1>3. ASSUME NEW T \in SUBSET M, T # M PROVE T \notin B
  <2>1. T \in SUBSET S /\ M \in SUBSET S
    OBVIOUS
  <2>2. <<T, M>> \in StrictSubsetOrdering(S)
    BY <1>3, <2>1 DEF StrictSubsetOrdering
  <2> QED
    BY <1>2, <2>2
<1> QED
  BY <1>3

\* The element that comes next, and the equation of the sums of the subsets of S.
Any(T) == CHOOSE x \in T : TRUE
Adds(f, S, g) ==
  g = [T \in SUBSET S |-> IF T = {} THEN 0 ELSE f[Any(T)] + g[T \ {Any(T)}]]

\* The element that comes next is one of the set.
LEMMA AnyIsIn ==
  ASSUME NEW T, T # {}
  PROVE  Any(T) \in T
BY DEF Any

\* Two solutions agree where both are defined.
LEMMA SameSums ==
  ASSUME NEW f, NEW S, IsFiniteSet(S), NEW R, NEW g, NEW h, Adds(f, S, g), Adds(f, R, h),
         NEW T \in SUBSET S, T \in SUBSET R
  PROVE  g[T] = h[T]
<1> DEFINE B == {U \in SUBSET T : g[U] # h[U]}
<1>1. SUFFICES ASSUME B # {} PROVE FALSE
  OBVIOUS
<1>2. IsFiniteSet(T)
  BY FS_Subset
<1>3. PICK M \in B : \A U \in SUBSET M : U # M => U \notin B
  <2> HIDE DEF B
  <2>1. B \in SUBSET SUBSET T
    BY DEF B
  <2> QED
    BY <1>1, <1>2, <2>1, Minimal
<1>4. M \in SUBSET S /\ M \in SUBSET R
  OBVIOUS
<1>5. /\ g[M] = IF M = {} THEN 0 ELSE f[Any(M)] + g[M \ {Any(M)}]
      /\ h[M] = IF M = {} THEN 0 ELSE f[Any(M)] + h[M \ {Any(M)}]
  BY <1>4 DEF Adds
<1>6. M # {}
  BY <1>5
<1>7. M \ {Any(M)} \in SUBSET M /\ M \ {Any(M)} # M
  BY <1>6, AnyIsIn
<1>8. g[M \ {Any(M)}] = h[M \ {Any(M)}]
  BY <1>3, <1>7
<1> QED
  BY <1>5, <1>8

\* There is a solution.
LEMMA SumsExist ==
  ASSUME NEW f, NEW S, IsFiniteSet(S)
  PROVE  \E g : Adds(f, S, g)
<1> DEFINE B == {T \in SUBSET S : ~ \E g : Adds(f, T, g)}
<1>1. SUFFICES ASSUME B # {} PROVE FALSE
  OBVIOUS
<1>2. PICK M \in B : \A T \in SUBSET M : T # M => T \notin B
  <2> HIDE DEF B
  <2>1. B \in SUBSET SUBSET S
    BY DEF B
  <2> QED
    BY <1>1, <2>1, Minimal
<1>3. M \in SUBSET S /\ ~ \E g : Adds(f, M, g)
  OBVIOUS
<1> DEFINE H(T) == CHOOSE g : Adds(f, T, g)
           Others(T) == T \ {Any(T)}
           G == [T \in SUBSET M |-> IF T = {} THEN 0 ELSE f[Any(T)] + H(Others(T))[Others(T)]]
<1>4. \A T \in SUBSET M : T # M => Adds(f, T, H(T))
  <2> TAKE T \in SUBSET M
  <2>1. T # M => \E g : Adds(f, T, g)
    BY <1>2
  <2> QED
    BY <2>1
<1>5. \A T \in SUBSET M : T # {} => Others(T) \in SUBSET T /\ Others(T) # T /\ Others(T) # M
  BY AnyIsIn
<1> HIDE DEF H
<1>6. ASSUME NEW T \in SUBSET M, T # M PROVE G[T] = H(T)[T]
  <2>1. Adds(f, T, H(T))
    BY <1>4, <1>6
  <2>2. H(T)[T] = IF T = {} THEN 0 ELSE f[Any(T)] + H(T)[Others(T)]
    BY <2>1 DEF Adds
  <2>3. CASE T = {}
    BY <2>2, <2>3
  <2>4. CASE T # {}
    <3>1. Others(T) \in SUBSET T /\ Others(T) \in SUBSET M /\ Others(T) # M
      BY <2>4, <1>5
    <3>2. Adds(f, Others(T), H(Others(T)))
      BY <3>1, <1>4
    <3>3. IsFiniteSet(T)
      BY <1>3, FS_Subset
    <3>4. H(T)[Others(T)] = H(Others(T))[Others(T)]
      <4>1. Others(T) \in SUBSET Others(T)
        OBVIOUS
      <4> HIDE DEF Others
      <4> QED
        BY <2>1, <3>1, <3>2, <3>3, <4>1, SameSums
    <3> QED
      BY <2>2, <2>4, <3>4
  <2> QED
    BY <2>3, <2>4
<1>7. G = [T \in SUBSET M |-> IF T = {} THEN 0 ELSE f[Any(T)] + G[T \ {Any(T)}]]
  <2>1. \A T \in SUBSET M : T # {} => G[Others(T)] = H(Others(T))[Others(T)]
    BY <1>5, <1>6
  <2> QED
    BY <2>1
<1>8. Adds(f, M, G)
  BY <1>7 DEF Adds
<1> QED
  BY <1>3, <1>8

\* A sum, unfolded.
LEMMA SumUnfolds ==
  ASSUME NEW f, NEW S, IsFiniteSet(S)
  PROVE  SumFunctionOnSet(f, S) =
           IF S = {} THEN 0 ELSE f[Any(S)] + SumFunctionOnSet(f, S \ {Any(S)})
<1> DEFINE I(R) == CHOOSE g : Adds(f, R, g)
<1>1. \A R : IsFiniteSet(R) => Adds(f, R, I(R))
  BY SumsExist
<1>2. ASSUME NEW R PROVE SumFunctionOnSet(f, R) = I(R)[R]
  BY DEF SumFunctionOnSet, FoldFunctionOnSet, MapThenFoldSet, Any, Adds
<1> HIDE DEF I
<1>3. I(S)[S] = IF S = {} THEN 0 ELSE f[Any(S)] + I(S)[S \ {Any(S)}]
  BY <1>1 DEF Adds
<1>4. IsFiniteSet(S \ {Any(S)})
  BY FS_Subset
<1>5. I(S)[S \ {Any(S)}] = I(S \ {Any(S)})[S \ {Any(S)}]
  <2> DEFINE R == S \ {Any(S)}
  <2>1. Adds(f, R, I(R)) /\ Adds(f, S, I(S)) /\ R \in SUBSET S /\ R \in SUBSET R
    BY <1>1, <1>4
  <2> HIDE DEF R
  <2>2. I(S)[R] = I(R)[R]
    BY <2>1, SameSums
  <2> QED
    BY <2>2 DEF R
<1> QED
  BY <1>2, <1>3, <1>5

\* A sum of numbers is one.
LEMMA SumType ==
  ASSUME NEW f, NEW S, IsFiniteSet(S), \A x \in S : f[x] \in Nat
  PROVE  SumFunctionOnSet(f, S) \in Nat
<1> DEFINE B == {T \in SUBSET S : SumFunctionOnSet(f, T) \notin Nat}
<1>1. SUFFICES ASSUME B # {} PROVE FALSE
  OBVIOUS
<1>2. PICK M \in B : \A T \in SUBSET M : T # M => T \notin B
  <2> HIDE DEF B
  <2>1. B \in SUBSET SUBSET S
    BY DEF B
  <2> QED
    BY <1>1, <2>1, Minimal
<1>3. M \in SUBSET S /\ IsFiniteSet(M)
  BY FS_Subset
<1>4. M # {}
  <2>1. SumFunctionOnSet(f, {}) = 0
    BY SumUnfolds, FS_EmptySet
  <2> QED
    BY <2>1
<1>5. Any(M) \in M
  BY <1>4, AnyIsIn
<1>6. M \ {Any(M)} \in SUBSET M /\ M \ {Any(M)} # M /\ M \ {Any(M)} \in SUBSET S
  BY <1>3, <1>5
<1>7. SumFunctionOnSet(f, M \ {Any(M)}) \in Nat
  BY <1>2, <1>6
<1>8. SumFunctionOnSet(f, M) = f[Any(M)] + SumFunctionOnSet(f, M \ {Any(M)})
  BY <1>3, <1>4, SumUnfolds
<1>9. f[Any(M)] \in Nat
  BY <1>3, <1>5
<1>10. SumFunctionOnSet(f, M) \in Nat
  BY <1>7, <1>8, <1>9
<1> QED
  BY <1>10

\* Any term may be taken out first.
LEMMA SumRemove ==
  ASSUME NEW f, NEW S, IsFiniteSet(S), \A x \in S : f[x] \in Nat, NEW e \in S
  PROVE  SumFunctionOnSet(f, S) = f[e] + SumFunctionOnSet(f, S \ {e})
<1> DEFINE Takes(T, x) == SumFunctionOnSet(f, T) = f[x] + SumFunctionOnSet(f, T \ {x})
           B == {T \in SUBSET S : \E x \in T : ~ Takes(T, x)}
<1>1. SUFFICES ASSUME B # {} PROVE FALSE
  <2>1. S \in SUBSET S
    OBVIOUS
  <2> QED
    BY <1>1, <2>1
<1>2. PICK M \in B : \A T \in SUBSET M : T # M => T \notin B
  <2> HIDE DEF B
  <2>1. B \in SUBSET SUBSET S
    BY DEF B
  <2> QED
    BY <1>1, <2>1, Minimal
<1>3. PICK x \in M : ~ Takes(M, x)
  OBVIOUS
<1>4. \A T \in SUBSET S : IsFiniteSet(T) /\ SumFunctionOnSet(f, T) \in Nat
  <2> TAKE T \in SUBSET S
  <2>1. IsFiniteSet(T) /\ \A y \in T : f[y] \in Nat
    BY FS_Subset
  <2> QED
    BY <2>1, SumType
<1> DEFINE a == Any(M)
<1>5. a \in M /\ M \in SUBSET S
  BY AnyIsIn
<1>6. Takes(M, a)
  BY <1>4, <1>5, SumUnfolds
<1> HIDE DEF a
<1>7. a # x
  BY <1>3, <1>6
<1>8. \A T \in SUBSET M : T # M => \A y \in T : Takes(T, y)
  BY <1>2, <1>5
<1> HIDE DEF B
<1>9. Takes(M \ {a}, x)
  BY <1>3, <1>5, <1>7, <1>8
<1>10. Takes(M \ {x}, a)
  BY <1>3, <1>5, <1>7, <1>8
<1>11. (M \ {a}) \ {x} = (M \ {x}) \ {a}
  OBVIOUS
<1>12. /\ f[a] \in Nat /\ f[x] \in Nat
       /\ SumFunctionOnSet(f, (M \ {a}) \ {x}) \in Nat
  <2>1. (M \ {a}) \ {x} \in SUBSET S
    BY <1>5
  <2> QED
    BY <1>3, <1>4, <1>5, <2>1
<1>13. Takes(M, x)
  BY <1>6, <1>9, <1>10, <1>11, <1>12
<1> QED
  BY <1>3, <1>13

\* The sum over two sets that have nothing in common.
LEMMA SumDisjoint ==
  ASSUME NEW f, NEW S, IsFiniteSet(S), NEW T, IsFiniteSet(T), S \intersect T = {},
         \A x \in S \union T : f[x] \in Nat
  PROVE  SumFunctionOnSet(f, S \union T) = SumFunctionOnSet(f, S) + SumFunctionOnSet(f, T)
<1> DEFINE Splits(U) == SumFunctionOnSet(f, S \union U)
                         = SumFunctionOnSet(f, S) + SumFunctionOnSet(f, U)
           B == {U \in SUBSET T : ~ Splits(U)}
<1>1. SUFFICES ASSUME B # {} PROVE FALSE
  <2>1. T \in SUBSET T
    OBVIOUS
  <2> QED
    BY <1>1, <2>1
<1>2. PICK M \in B : \A U \in SUBSET M : U # M => U \notin B
  <2> HIDE DEF B
  <2>1. B \in SUBSET SUBSET T
    BY DEF B
  <2> QED
    BY <1>1, <2>1, Minimal
<1>3. M \in SUBSET T /\ ~ Splits(M)
  OBVIOUS
<1>4. IsFiniteSet(S \union T)
  BY FS_Union
<1>5. \A U \in SUBSET (S \union T) : IsFiniteSet(U) /\ SumFunctionOnSet(f, U) \in Nat
  <2> TAKE U \in SUBSET (S \union T)
  <2>1. IsFiniteSet(U) /\ \A y \in U : f[y] \in Nat
    BY <1>4, FS_Subset
  <2> QED
    BY <2>1, SumType
<1>6. SumFunctionOnSet(f, {}) = 0
  BY SumUnfolds, FS_EmptySet
<1>7. M # {}
  <2>1. S \union {} = S /\ S \in SUBSET (S \union T)
    OBVIOUS
  <2>2. SumFunctionOnSet(f, S) \in Nat
    BY <1>5, <2>1
  <2>3. Splits({})
    BY <1>6, <2>1, <2>2
  <2> QED
    BY <1>3, <2>3
<1> DEFINE a == Any(M)
<1>8. a \in M
  BY <1>7, AnyIsIn
<1> HIDE DEF a
<1>9. Splits(M \ {a})
  BY <1>2, <1>3, <1>8
<1> HIDE DEF B
<1>10. (S \union M) \ {a} = S \union (M \ {a})
  BY <1>3, <1>8
<1>11. \A U \in SUBSET (S \union T) : \A y \in U :
         SumFunctionOnSet(f, U) = f[y] + SumFunctionOnSet(f, U \ {y})
  BY <1>5, SumRemove
<1>12. SumFunctionOnSet(f, S \union M) = f[a] + SumFunctionOnSet(f, S \union (M \ {a}))
  BY <1>3, <1>8, <1>10, <1>11
<1>13. SumFunctionOnSet(f, M) = f[a] + SumFunctionOnSet(f, M \ {a})
  BY <1>3, <1>8, <1>11
<1>14. /\ SumFunctionOnSet(f, S) \in Nat /\ SumFunctionOnSet(f, M \ {a}) \in Nat
       /\ f[a] \in Nat
  <2>1. S \in SUBSET (S \union T) /\ M \ {a} \in SUBSET (S \union T)
    BY <1>3
  <2> QED
    BY <1>3, <1>5, <1>8, <2>1
<1>15. Splits(M)
  BY <1>9, <1>12, <1>13, <1>14
<1> QED
  BY <1>3, <1>15

\* A part sums to no more than the whole.
LEMMA SumPart ==
  ASSUME NEW f, NEW S, IsFiniteSet(S), \A x \in S : f[x] \in Nat, NEW T \in SUBSET S
  PROVE  SumFunctionOnSet(f, T) <= SumFunctionOnSet(f, S)
<1>1. IsFiniteSet(T) /\ IsFiniteSet(S \ T) /\ T \intersect (S \ T) = {} /\ T \union (S \ T) = S
  BY FS_Subset
<1>2. SumFunctionOnSet(f, T) \in Nat /\ SumFunctionOnSet(f, S \ T) \in Nat
  BY <1>1, SumType
<1>3. SumFunctionOnSet(f, S) = SumFunctionOnSet(f, T) + SumFunctionOnSet(f, S \ T)
  <2> DEFINE R == S \ T
  <2>1. /\ IsFiniteSet(T) /\ IsFiniteSet(R) /\ T \intersect R = {} /\ T \union R = S
        /\ \A x \in T \union R : f[x] \in Nat
    BY <1>1
  <2> HIDE DEF R
  <2>2. SumFunctionOnSet(f, T \union R) = SumFunctionOnSet(f, T) + SumFunctionOnSet(f, R)
    BY <2>1, SumDisjoint
  <2> QED
    BY <2>1, <2>2 DEF R
<1> QED
  BY <1>2, <1>3

\* The sum over one element, and over none.
LEMMA SumOne ==
  ASSUME NEW f, NEW x, f[x] \in Nat
  PROVE  SumFunctionOnSet(f, {x}) = f[x] /\ SumFunctionOnSet(f, {}) = 0
<1>1. SumFunctionOnSet(f, {}) = 0
  BY SumUnfolds, FS_EmptySet
<1>2. IsFiniteSet({x}) /\ {x} # {} /\ {x} \ {x} = {} /\ Any({x}) = x
  BY FS_Singleton DEF Any
<1>3. SumFunctionOnSet(f, {x}) = f[Any({x})] + SumFunctionOnSet(f, {x} \ {Any({x})})
  BY <1>2, SumUnfolds
<1> QED
  BY <1>1, <1>2, <1>3

\* The elements that have a key, and those that have one of some keys.
OfKey(S, key, k)  == {x \in S : key[x] = k}
OfKeys(S, key, K) == {x \in S : key[x] \in K}

\* Sums of the classes of a set, each under its key, add up to the sum of the
\* elements that have one of the keys.
LEMMA SumGrouped ==
  ASSUME NEW f, NEW g, NEW S, IsFiniteSet(S), \A x \in S : f[x] \in Nat,
         NEW key, NEW K, IsFiniteSet(K),
         \A k \in K : g[k] = SumFunctionOnSet(f, OfKey(S, key, k))
  PROVE  SumFunctionOnSet(g, K) = SumFunctionOnSet(f, OfKeys(S, key, K))
<1> USE DEF OfKey, OfKeys
<1> DEFINE Within(L) == {x \in S : key[x] \in L}
           Of(k) == {x \in S : key[x] = k}
           B == {L \in SUBSET K : SumFunctionOnSet(g, L) # SumFunctionOnSet(f, Within(L))}
<1>1. SUFFICES ASSUME B # {} PROVE FALSE
  <2>1. K \in SUBSET K
    OBVIOUS
  <2> QED
    BY <1>1, <2>1
<1>2. PICK M \in B : \A U \in SUBSET M : U # M => U \notin B
  <2> HIDE DEF B
  <2>1. B \in SUBSET SUBSET K
    BY DEF B
  <2> QED
    BY <1>1, <2>1, Minimal
<1>3. M \in SUBSET K /\ SumFunctionOnSet(g, M) # SumFunctionOnSet(f, Within(M))
  OBVIOUS
<1>4. M # {}
  <2>1. SumFunctionOnSet(g, {}) = 0 /\ SumFunctionOnSet(f, {}) = 0
    BY SumUnfolds, FS_EmptySet
  <2>2. Within({}) = {}
    OBVIOUS
  <2> QED
    BY <1>3, <2>1, <2>2
<1> DEFINE a == Any(M)
<1>5. a \in M
  BY <1>4, AnyIsIn
<1> HIDE DEF a
<1>6. SumFunctionOnSet(g, M \ {a}) = SumFunctionOnSet(f, Within(M \ {a}))
  BY <1>2, <1>3, <1>5
<1> HIDE DEF B
<1>7. IsFiniteSet(M) /\ \A k \in M : g[k] \in Nat
  <2>1. \A k \in K : IsFiniteSet(Of(k)) /\ \A x \in Of(k) : f[x] \in Nat
    BY FS_Subset
  <2>2. \A k \in K : SumFunctionOnSet(f, Of(k)) \in Nat
    <3> HIDE DEF Of
    <3> QED
      BY <2>1, SumType
  <2> QED
    BY <1>3, <2>2, FS_Subset
<1>8. SumFunctionOnSet(g, M) = g[a] + SumFunctionOnSet(g, M \ {a})
  BY <1>5, <1>7, SumRemove
<1>9. /\ IsFiniteSet(Of(a)) /\ IsFiniteSet(Within(M \ {a}))
      /\ Of(a) \intersect Within(M \ {a}) = {}
      /\ Within(M \ {a}) \union Of(a) = Within(M)
      /\ \A x \in Within(M \ {a}) \union Of(a) : f[x] \in Nat
  BY <1>5, FS_Subset
<1>10. SumFunctionOnSet(f, Within(M))
         = SumFunctionOnSet(f, Within(M \ {a})) + SumFunctionOnSet(f, Of(a))
  <2> DEFINE P == Within(M \ {a})
             Q == Of(a)
  <2>1. /\ IsFiniteSet(P) /\ IsFiniteSet(Q) /\ P \intersect Q = {} /\ P \union Q = Within(M)
        /\ \A x \in P \union Q : f[x] \in Nat
    BY <1>9
  <2> HIDE DEF P, Q
  <2>2. SumFunctionOnSet(f, P \union Q) = SumFunctionOnSet(f, P) + SumFunctionOnSet(f, Q)
    BY <2>1, SumDisjoint
  <2>3. SumFunctionOnSet(f, Within(M)) = SumFunctionOnSet(f, P) + SumFunctionOnSet(f, Q)
    BY <2>1, <2>2
  <2> QED
    BY <2>3 DEF P, Q
<1>11. g[a] = SumFunctionOnSet(f, Of(a)) /\ a \in K
  BY <1>3, <1>5
<1>12. SumFunctionOnSet(f, Of(a)) \in Nat /\ SumFunctionOnSet(f, Within(M \ {a})) \in Nat
  <2>1. \A x \in Of(a) : f[x] \in Nat
    OBVIOUS
  <2>2. \A x \in Within(M \ {a}) : f[x] \in Nat
    OBVIOUS
  <2> HIDE DEF Of, Within
  <2> QED
    BY <1>9, <2>1, <2>2, SumType
<1>13. SumFunctionOnSet(g, M) = SumFunctionOnSet(f, Within(M))
  BY <1>6, <1>8, <1>10, <1>11, <1>12
<1> QED
  BY <1>3, <1>13

-----------------------------------------------------------------------------
(* The usage collector.                                                    *)

\* The readings of a queue, and that none is in it twice.
Elements(s) == {s[i] : i \in DOMAIN s}
Once(s) == \A i, j \in DOMAIN s : s[i] = s[j] => i = j

\* A reading joins a queue.
LEMMA Joins ==
  ASSUME NEW s \in Seq(Records), NEW r \in Records
  PROVE  /\ Append(s, r) \in Seq(Records) /\ Len(Append(s, r)) = Len(s) + 1
         /\ Elements(Append(s, r)) = Elements(s) \union {r}
         /\ Once(s) /\ r \notin Elements(s) => Once(Append(s, r))
<1>1. /\ Append(s, r) \in Seq(Records) /\ Len(Append(s, r)) = Len(s) + 1
      /\ DOMAIN Append(s, r) = 1..(Len(s) + 1) /\ DOMAIN s = 1..Len(s) /\ Len(s) \in Nat
      /\ \A i \in 1..Len(s) : Append(s, r)[i] = s[i]
      /\ Append(s, r)[Len(s) + 1] = r
  OBVIOUS
<1>2. 1..(Len(s) + 1) = 1..Len(s) \union {Len(s) + 1}
  BY <1>1
<1>3. Elements(Append(s, r)) = Elements(s) \union {r}
  BY <1>1, <1>2 DEF Elements
<1>4. ASSUME Once(s), r \notin Elements(s) PROVE Once(Append(s, r))
  <2>1. \A i \in 1..Len(s) : s[i] # r
    BY <1>1, <1>4 DEF Elements
  <2> QED
    BY <1>1, <1>2, <1>4, <2>1 DEF Once
<1> QED
  BY <1>1, <1>3, <1>4

\* The first reading leaves a queue.
LEMMA Leaves ==
  ASSUME NEW s \in Seq(Records), s # << >>
  PROVE  /\ Tail(s) \in Seq(Records) /\ Len(Tail(s)) <= Len(s)
         /\ Head(s) \in Records
         /\ Elements(s) = Elements(Tail(s)) \union {Head(s)}
         /\ Once(s) => Once(Tail(s)) /\ Head(s) \notin Elements(Tail(s))
<1>1. /\ Tail(s) \in Seq(Records) /\ Len(Tail(s)) = Len(s) - 1 /\ Len(s) \in Nat /\ Len(s) > 0
      /\ DOMAIN Tail(s) = 1..(Len(s) - 1) /\ DOMAIN s = 1..Len(s)
      /\ \A i \in 1..(Len(s) - 1) : Tail(s)[i] = s[i + 1]
      /\ Head(s) = s[1] /\ Head(s) \in Records
  OBVIOUS
<1>2. \A i \in 1..Len(s) : i = 1 \/ i - 1 \in 1..(Len(s) - 1)
  BY <1>1
<1>3. Elements(s) = Elements(Tail(s)) \union {Head(s)}
  <2>1. ASSUME NEW i \in 1..Len(s) PROVE s[i] \in Elements(Tail(s)) \union {Head(s)}
    <3>1. CASE i = 1
      BY <1>1, <3>1
    <3>2. CASE i - 1 \in 1..(Len(s) - 1)
      <4>1. s[i] = Tail(s)[i - 1]
        BY <1>1, <3>2
      <4> QED
        BY <1>1, <3>2, <4>1 DEF Elements
    <3> QED
      BY <1>2, <3>1, <3>2
  <2>2. \A i \in 1..(Len(s) - 1) : Tail(s)[i] \in Elements(s)
    BY <1>1 DEF Elements
  <2>3. Head(s) \in Elements(s)
    BY <1>1 DEF Elements
  <2>4. \A x \in Elements(s) : x \in Elements(Tail(s)) \union {Head(s)}
    BY <1>1, <2>1 DEF Elements
  <2>5. \A x \in Elements(Tail(s)) : x \in Elements(s)
    BY <1>1, <2>2 DEF Elements
  <2> QED
    BY <2>3, <2>4, <2>5
<1>4. ASSUME Once(s) PROVE Once(Tail(s)) /\ Head(s) \notin Elements(Tail(s))
  <2>1. \A i \in 1..(Len(s) - 1) : i + 1 \in 1..Len(s) /\ i + 1 # 1 /\ 1 \in 1..Len(s)
    BY <1>1
  <2>2. \A i, j \in 1..(Len(s) - 1) : s[i + 1] = s[j + 1] => i = j
    BY <1>1, <1>4, <2>1 DEF Once
  <2>3. \A i \in 1..(Len(s) - 1) : s[i + 1] # s[1]
    BY <1>1, <1>4, <2>1 DEF Once
  <2> QED
    BY <1>1, <2>2, <2>3 DEF Once, Elements
<1> QED
  BY <1>1, <1>3, <1>4

-----------------------------------------------------------------------------
\* A reading that was taken and not yet settled is in one place.
InOnePlace ==
  /\ Once(queue) /\ \A r \in Elements(queue) : outcome[r] = "taken"
  /\ \A f \in Flushers : \A r \in pending[f] : outcome[r] = "taken" /\ r \notin Elements(queue)
  /\ \A f, g \in Flushers : \A r \in pending[f] : r \in pending[g] => f = g
  /\ \A r \in Records : outcome[r] = "taken" =>
       r \in Elements(queue) \/ \E f \in Flushers : r \in pending[f]

\* The table against the readings that were billed.
Stored(k) == {r \in Records : outcome[r] = "stored" /\ Key(r) = k}
SumsAgree == \A k \in Keys : sums[k] = Sum(Stored(k))

\* What run has still to do, from the Close on.
LastFlush ==
  /\ \A r \in lastCall : outcome[r] # "none"
  /\ closeReturned => at[Run] = "over"
  /\ at[Run] = "over" => final
  /\ final => done /\ at[Run] # "idle"
  /\ final /\ at[Run] \in {"writing", "over"} => Elements(queue) \intersect lastCall = {}

UsageInv == UsageTypeOK /\ InOnePlace /\ SumsAgree /\ LastFlush

\* Counts are numbers, whatever set of readings they are of.
LEMMA Counts ==
  ASSUME NEW S \in SUBSET Records
  PROVE  /\ IsFiniteSet(S) /\ Sum(S) \in Nat /\ \A r \in S : Count[r] \in Nat
         /\ S = {} => Sum(S) = 0
<1>1. IsFiniteSet(S) /\ \A r \in S : Count[r] \in Nat
  BY UsageAssumption, FS_Subset
<1>2. Sum(S) \in Nat
  BY <1>1, SumType DEF Sum
<1>3. SumFunctionOnSet(Count, {}) = 0
  BY SumUnfolds, FS_EmptySet
<1> QED
  BY <1>1, <1>2, <1>3 DEF Sum

\* It holds at first.
LEMMA UsageStarts == UsageInit => UsageInv
<1> SUFFICES ASSUME UsageInit PROVE UsageInv
  OBVIOUS
<1> USE DEF UsageInit
<1>1. /\ queue \in Seq(Records) /\ Len(queue) = 0 /\ Elements(queue) = {} /\ Once(queue)
  BY DEF Elements, Once
<1>2. Run \in Flushers
  BY DEF Flushers
<1>3. UsageTypeOK
  <2>1. Len(queue) <= QueueCapacity
    BY <1>1, UsageAssumption
  <2>2. /\ at \in [Flushers -> {"idle", "collecting", "writing", "over"}]
        /\ outcome \in [Records -> Outcomes] /\ sums \in [Keys -> Nat]
        /\ pending \in [Flushers -> SUBSET Records]
    BY DEF Outcomes
  <2>3. lastCall \subseteq Records /\ final \in BOOLEAN /\ done \in BOOLEAN
        /\ closeReturned \in BOOLEAN
    OBVIOUS
  <2> QED
    BY <1>1, <2>1, <2>2, <2>3 DEF UsageTypeOK
<1>4. InOnePlace
  BY <1>1 DEF InOnePlace
<1>5. SumsAgree
  <2>1. \A k \in Keys : Stored(k) = {}
    BY DEF Stored
  <2>2. Sum({}) = 0
    BY Counts
  <2> QED
    BY <2>1, <2>2 DEF SumsAgree
<1>6. LastFlush
  BY <1>1, <1>2 DEF LastFlush
<1> QED
  BY <1>3, <1>4, <1>5, <1>6 DEF UsageInv

\* Where a step leaves the table and the outcomes alone but for readings that
\* are not billed, the two still agree.
LEMMA SumsStay ==
  ASSUME SumsAgree, sums' = sums,
         \A r \in Records : outcome'[r] = "stored" <=> outcome[r] = "stored"
  PROVE  SumsAgree'
<1>1. \A k \in Keys : Stored(k)' = Stored(k)
  BY DEF Stored, Key
<1> QED
  BY <1>1 DEF SumsAgree, Sum, Keys, Key

\* Record.
LEMMA RecordKeepsUsage ==
  ASSUME UsageInv, NEW r \in Records, RecordRefused(r) \/ Record(r)
  PROVE  UsageInv'
<1>1. UsageTypeOK /\ InOnePlace /\ SumsAgree /\ LastFlush
  BY DEF UsageInv
<1>2. PICK o \in {"refused", "dropped", "taken"} :
         /\ outcome[r] = "none" /\ outcome' = [outcome EXCEPT ![r] = o]
         /\ IF o = "taken" THEN Len(queue) < QueueCapacity /\ queue' = Append(queue, r)
                           ELSE queue' = queue
         /\ UNCHANGED <<at, final, pending, sums, done, closeReturned, lastCall>>
  BY DEF RecordRefused, Record, flushing
<1>3. queue \in Seq(Records) /\ outcome \in [Records -> Outcomes]
  BY <1>1 DEF UsageTypeOK
<1>4. /\ outcome' \in [Records -> Outcomes] /\ outcome'[r] = o
      /\ \A x \in Records : x # r => outcome'[x] = outcome[x]
  BY <1>2, <1>3 DEF Outcomes
<1>5. r \notin Elements(queue) /\ \A f \in Flushers : r \notin pending[f]
  BY <1>1, <1>2 DEF InOnePlace
<1>6. Elements(queue) \subseteq Records /\ \A f \in Flushers : pending[f] \subseteq Records
  BY <1>1, <1>3 DEF UsageTypeOK, Elements
<1>7. SumsAgree'
  BY <1>1, <1>2, <1>4, SumsStay
<1>8. r \notin lastCall /\ lastCall \subseteq Records
  BY <1>1, <1>2 DEF LastFlush, UsageTypeOK
<1>9. CASE o = "taken"
  <2>1. /\ queue' \in Seq(Records) /\ Len(queue') = Len(queue) + 1
        /\ Elements(queue') = Elements(queue) \union {r} /\ Once(queue')
    <3>1. queue' = Append(queue, r) /\ Once(queue)
      BY <1>1, <1>2, <1>9 DEF InOnePlace
    <3>2. /\ Append(queue, r) \in Seq(Records) /\ Len(Append(queue, r)) = Len(queue) + 1
          /\ Elements(Append(queue, r)) = Elements(queue) \union {r}
          /\ Once(queue) /\ r \notin Elements(queue) => Once(Append(queue, r))
      BY <1>3, Joins
    <3> QED
      BY <1>5, <3>1, <3>2
  <2>2. Len(queue') <= QueueCapacity
    BY <1>2, <1>3, <1>9, <2>1, UsageAssumption
  <2>3. UsageTypeOK'
    BY <1>1, <1>2, <1>4, <2>1, <2>2 DEF UsageTypeOK
  <2>4. InOnePlace'
    BY <1>1, <1>2, <1>4, <1>5, <1>6, <1>9, <2>1 DEF InOnePlace
  <2>5. LastFlush'
    BY <1>1, <1>2, <1>4, <1>8, <1>9, <2>1 DEF LastFlush
  <2> QED
    BY <1>7, <2>3, <2>4, <2>5 DEF UsageInv
<1>10. CASE o # "taken"
  <2>1. queue' = queue
    BY <1>2, <1>10
  <2>2. UsageTypeOK'
    BY <1>1, <1>2, <1>4, <2>1 DEF UsageTypeOK
  <2>3. InOnePlace'
    BY <1>1, <1>2, <1>4, <1>5, <1>6, <1>10, <2>1 DEF InOnePlace
  <2>4. LastFlush'
    BY <1>1, <1>2, <1>4, <1>8, <2>1 DEF LastFlush
  <2> QED
    BY <1>7, <2>2, <2>3, <2>4 DEF UsageInv
<1> QED
  BY <1>9, <1>10

\* A flush takes a reading.
LEMMA CollectKeepsUsage ==
  ASSUME UsageInv, NEW f \in Flushers, Collect(f)
  PROVE  UsageInv'
<1>1. UsageTypeOK /\ InOnePlace /\ SumsAgree /\ LastFlush
  BY DEF UsageInv
<1>2. /\ at[f] = "collecting" /\ queue # << >> /\ queue' = Tail(queue)
      /\ pending' = [pending EXCEPT ![f] = @ \union {Head(queue)}]
      /\ UNCHANGED <<at, final, sums, done, closeReturned, outcome, lastCall>>
  BY DEF Collect
<1> DEFINE h == Head(queue)
<1>3. /\ queue \in Seq(Records) /\ Len(queue) <= QueueCapacity
      /\ pending \in [Flushers -> SUBSET Records]
  BY <1>1 DEF UsageTypeOK
<1>4. /\ queue' \in Seq(Records) /\ Len(queue') <= QueueCapacity /\ h \in Records
      /\ Elements(queue) = Elements(queue') \union {h} /\ Once(queue')
      /\ h \notin Elements(queue')
  <2>1. /\ Tail(queue) \in Seq(Records) /\ Len(Tail(queue)) <= Len(queue)
        /\ Head(queue) \in Records
        /\ Elements(queue) = Elements(Tail(queue)) \union {Head(queue)}
        /\ Once(queue) => Once(Tail(queue)) /\ Head(queue) \notin Elements(Tail(queue))
    BY <1>2, <1>3, Leaves
  <2>2. Once(queue) /\ queue' = Tail(queue)
    BY <1>1, <1>2 DEF InOnePlace
  <2>3. Len(queue') <= QueueCapacity
    <3>1. Len(Tail(queue)) \in Nat /\ Len(queue) \in Nat /\ QueueCapacity \in Nat
      BY <1>3, <2>1, UsageAssumption
    <3> QED
      BY <1>3, <2>1, <2>2, <3>1
  <2> QED
    BY <2>1, <2>2, <2>3
<1>5. outcome[h] = "taken" /\ h \in Elements(queue) /\ \A g \in Flushers : h \notin pending[g]
  BY <1>1, <1>4 DEF InOnePlace
<1> HIDE DEF h
<1>6. /\ pending' \in [Flushers -> SUBSET Records] /\ pending'[f] = pending[f] \union {h}
      /\ \A g \in Flushers : g # f => pending'[g] = pending[g]
  BY <1>2, <1>3, <1>4 DEF h
<1>7. UsageTypeOK'
  BY <1>1, <1>2, <1>4, <1>6 DEF UsageTypeOK
<1>8. InOnePlace'
  <2>1. \A r \in Elements(queue') : outcome'[r] = "taken"
    BY <1>1, <1>2, <1>4 DEF InOnePlace
  <2>2. \A g \in Flushers : \A r \in pending'[g] :
          outcome'[r] = "taken" /\ r \notin Elements(queue')
    BY <1>1, <1>2, <1>4, <1>5, <1>6 DEF InOnePlace
  <2>3. \A g, i \in Flushers : \A r \in pending'[g] : r \in pending'[i] => g = i
    BY <1>1, <1>5, <1>6 DEF InOnePlace
  <2>4. \A r \in Records : outcome'[r] = "taken" =>
          r \in Elements(queue') \/ \E g \in Flushers : r \in pending'[g]
    BY <1>1, <1>2, <1>4, <1>6 DEF InOnePlace
  <2> QED
    BY <1>4, <2>1, <2>2, <2>3, <2>4 DEF InOnePlace
<1>9. SumsAgree'
  BY <1>1, <1>2, SumsStay
<1>10. LastFlush'
  BY <1>1, <1>2, <1>4 DEF LastFlush
<1> QED
  BY <1>7, <1>8, <1>9, <1>10 DEF UsageInv

\* Where a flush begins, has nothing more to take, or is over.
LEMMA FlushMovesKeepUsage ==
  ASSUME UsageInv, NEW f \in Flushers,
         FlushStart(f) \/ CollectEnds(f) \/ (f = Run /\ LastFlushStart)
  PROVE  UsageInv'
<1>1. UsageTypeOK /\ InOnePlace /\ SumsAgree /\ LastFlush
  BY DEF UsageInv
<1>2. UNCHANGED <<queue, pending, sums, done, closeReturned, outcome, lastCall>>
  BY DEF FlushStart, CollectEnds, LastFlushStart
<1>3. /\ InOnePlace' /\ SumsAgree'
  <2>1. SumsAgree'
    BY <1>1, <1>2, SumsStay
  <2> QED
    BY <1>1, <1>2, <2>1 DEF InOnePlace
<1>4. at \in [Flushers -> {"idle", "collecting", "writing", "over"}] /\ Run \in Flushers
  BY <1>1 DEF UsageTypeOK, Flushers
<1>5. CASE FlushStart(f)
  <2>1. at[f] = "idle" /\ at' = [at EXCEPT ![f] = "collecting"] /\ final' = final
    BY <1>5 DEF FlushStart
  <2>2. UsageTypeOK'
    BY <1>1, <1>2, <1>4, <2>1 DEF UsageTypeOK
  <2>3. LastFlush'
    BY <1>1, <1>2, <1>4, <2>1 DEF LastFlush
  <2> QED
    BY <1>3, <2>2, <2>3 DEF UsageInv
<1>6. CASE CollectEnds(f)
  <2>1. /\ at[f] = "collecting" /\ queue = << >> /\ final' = final
        /\ at' = [at EXCEPT ![f] = IF pending[f] = {} THEN Rest(f) ELSE "writing"]
    BY <1>6 DEF CollectEnds
  <2>2. Elements(queue) = {}
    BY <2>1 DEF Elements
  <2>3. PICK a \in {"idle", "over", "writing"} :
          /\ at' = [at EXCEPT ![f] = a]
          /\ a = "over" => f = Run /\ final
          /\ a = "idle" => ~ (f = Run /\ final)
    BY <2>1 DEF Rest
  <2>4. UsageTypeOK'
    BY <1>1, <1>2, <1>4, <2>1, <2>3 DEF UsageTypeOK
  <2>5. LastFlush'
    BY <1>1, <1>2, <1>4, <2>1, <2>2, <2>3 DEF LastFlush
  <2> QED
    BY <1>3, <2>4, <2>5 DEF UsageInv
<1>7. CASE LastFlushStart
  <2>1. at[Run] = "idle" /\ done /\ at' = [at EXCEPT ![Run] = "collecting"] /\ final' = TRUE
    BY <1>7 DEF LastFlushStart
  <2>2. UsageTypeOK'
    BY <1>1, <1>2, <1>4, <2>1 DEF UsageTypeOK
  <2>3. LastFlush'
    BY <1>1, <1>2, <1>4, <2>1 DEF LastFlush
  <2> QED
    BY <1>3, <2>2, <2>3 DEF UsageInv
<1> QED
  BY <1>5, <1>6, <1>7

\* The commit: the readings of the batch are added to the sums of their keys.
LEMMA BatchIsAdded ==
  ASSUME UsageInv, NEW f \in Flushers, FlushWrites(f)
  PROVE  SumsAgree' /\ sums' \in [Keys -> Nat]
<1>1. UsageTypeOK /\ InOnePlace /\ SumsAgree
  BY DEF UsageInv
<1>2. /\ sums' = [k \in Keys |-> sums[k] + Aggregate(pending[f], k)]
      /\ outcome' = [r \in Records |-> IF r \in pending[f] THEN "stored" ELSE outcome[r]]
  BY DEF FlushWrites
<1>3. pending[f] \subseteq Records /\ \A r \in pending[f] : outcome[r] = "taken"
  BY <1>1 DEF UsageTypeOK, InOnePlace
<1>4. ASSUME NEW k \in Keys PROVE sums'[k] \in Nat /\ sums'[k] = Sum(Stored(k)')
  <2> DEFINE P == Stored(k)
             Q == {r \in pending[f] : Key(r) = k}
  <2>1. Stored(k)' = P \union Q
    BY <1>2, <1>3 DEF Stored, Key
  <2>2. P \in SUBSET Records /\ Q \in SUBSET Records /\ P \intersect Q = {}
    BY <1>3 DEF Stored
  <2>3. /\ IsFiniteSet(P) /\ Sum(P) \in Nat /\ IsFiniteSet(Q) /\ Sum(Q) \in Nat
        /\ \A r \in P \union Q : Count[r] \in Nat
    <3> HIDE DEF P, Q
    <3> QED
      BY <2>2, Counts
  <2>4. Sum(P \union Q) = Sum(P) + Sum(Q)
    <3> HIDE DEF P, Q
    <3> QED
      BY <2>2, <2>3, SumDisjoint DEF Sum
  <2>5. sums[k] = Sum(P) /\ Aggregate(pending[f], k) = Sum(Q)
    BY <1>1 DEF SumsAgree, Aggregate, Sum
  <2>6. sums'[k] = Sum(P) + Sum(Q)
    BY <1>2, <2>5
  <2> HIDE DEF P, Q
  <2> QED
    BY <2>1, <2>3, <2>4, <2>6
<1>5. DOMAIN sums' = Keys /\ Keys' = Keys
  BY <1>2
<1>6. sums' \in [Keys -> Nat]
  <2>1. sums' = [k \in Keys |-> sums'[k]]
    BY <1>2
  <2> QED
    BY <1>4, <2>1
<1>7. SumsAgree'
  BY <1>4, <1>5 DEF SumsAgree, Sum
<1> QED
  BY <1>6, <1>7

\* The write, which comes through or fails.
LEMMA WriteKeepsUsage ==
  ASSUME UsageInv, NEW f \in Flushers, FlushWrites(f) \/ FlushFails(f)
  PROVE  UsageInv'
<1>1. UsageTypeOK /\ InOnePlace /\ SumsAgree /\ LastFlush
  BY DEF UsageInv
<1>2. PICK o \in {"stored", "lost"} :
        outcome' = [r \in Records |-> IF r \in pending[f] THEN o ELSE outcome[r]]
  BY DEF FlushWrites, FlushFails
<1>3. /\ at[f] = "writing" /\ at' = [at EXCEPT ![f] = Rest(f)]
      /\ pending' = [pending EXCEPT ![f] = {}]
      /\ UNCHANGED <<queue, final, done, closeReturned, lastCall>>
  BY DEF FlushWrites, FlushFails
<1>4. /\ at \in [Flushers -> {"idle", "collecting", "writing", "over"}] /\ Run \in Flushers
      /\ pending \in [Flushers -> SUBSET Records] /\ outcome \in [Records -> Outcomes]
      /\ queue \in Seq(Records)
  BY <1>1 DEF UsageTypeOK, Flushers
<1>5. SumsAgree' /\ sums' \in [Keys -> Nat]
  <2>1. CASE FlushWrites(f)
    BY <2>1, BatchIsAdded
  <2>2. CASE FlushFails(f)
    <3>1. sums' = sums /\ outcome' = [r \in Records |-> IF r \in pending[f] THEN "lost" ELSE outcome[r]]
      BY <2>2 DEF FlushFails
    <3>2. \A r \in pending[f] : outcome[r] = "taken"
      BY <1>1 DEF InOnePlace
    <3>3. \A r \in Records : outcome'[r] = "stored" <=> outcome[r] = "stored"
      BY <3>1, <3>2
    <3> QED
      BY <1>1, <3>1, <3>3, SumsStay DEF UsageTypeOK
  <2> QED
    BY <2>1, <2>2
<1>6. /\ pending' \in [Flushers -> SUBSET Records] /\ pending'[f] = {}
      /\ \A g \in Flushers : g # f => pending'[g] = pending[g]
  BY <1>3, <1>4
<1>7. /\ outcome' \in [Records -> Outcomes] /\ \A r \in pending[f] : outcome'[r] = o
      /\ \A r \in Records : r \notin pending[f] => outcome'[r] = outcome[r]
  BY <1>2, <1>4 DEF Outcomes
<1>8. PICK a \in {"idle", "over"} : /\ at' = [at EXCEPT ![f] = a]
                                    /\ a = "over" <=> f = Run /\ final
  BY <1>3 DEF Rest
<1>9. UsageTypeOK'
  BY <1>1, <1>3, <1>4, <1>5, <1>6, <1>7, <1>8 DEF UsageTypeOK
<1>10. InOnePlace'
  <2>1. Elements(queue) \subseteq Records
    BY <1>4 DEF Elements
  <2>2. \A r \in Elements(queue) : outcome'[r] = "taken"
    BY <1>1, <1>7, <2>1 DEF InOnePlace
  <2>3. \A g \in Flushers : \A r \in pending'[g] :
          outcome'[r] = "taken" /\ r \notin Elements(queue)
    BY <1>1, <1>4, <1>6, <1>7 DEF InOnePlace
  <2>4. \A g, i \in Flushers : \A r \in pending'[g] : r \in pending'[i] => g = i
    BY <1>1, <1>6 DEF InOnePlace
  <2>5. \A r \in Records : outcome'[r] = "taken" =>
          r \in Elements(queue) \/ \E g \in Flushers : r \in pending'[g]
    BY <1>1, <1>6, <1>7 DEF InOnePlace
  <2> QED
    BY <1>1, <1>3, <2>2, <2>3, <2>4, <2>5 DEF InOnePlace
<1>11. LastFlush'
  <2>1. \A r \in lastCall : outcome'[r] # "none"
    BY <1>1, <1>7 DEF LastFlush, UsageTypeOK
  <2> QED
    BY <1>1, <1>3, <1>4, <1>8, <2>1 DEF LastFlush
<1> QED
  BY <1>5, <1>9, <1>10, <1>11 DEF UsageInv

\* Close, and a step of something else.
LEMMA CloseKeepsUsage ==
  ASSUME UsageInv, CloseBegins \/ CloseReturns \/ UNCHANGED usageVars
  PROVE  UsageInv'
<1>1. UsageTypeOK /\ InOnePlace /\ SumsAgree /\ LastFlush
  BY DEF UsageInv
<1>2. UNCHANGED <<queue, at, final, pending, sums, outcome>>
  BY DEF CloseBegins, CloseReturns, usageVars, flushing
<1>3. InOnePlace' /\ SumsAgree'
  <2>1. SumsAgree'
    BY <1>1, <1>2, SumsStay
  <2> QED
    BY <1>1, <1>2, <2>1 DEF InOnePlace
<1>4. Elements(queue) \subseteq Records /\ \A r \in Elements(queue) : outcome[r] = "taken"
  BY <1>1 DEF UsageTypeOK, InOnePlace, Elements
<1>5. CASE CloseBegins
  <2>1. /\ ~ done /\ done' = TRUE /\ lastCall' = Elements(queue)
        /\ closeReturned' = closeReturned
    BY <1>5 DEF CloseBegins, Elements
  <2>2. UsageTypeOK'
    BY <1>1, <1>2, <1>4, <2>1 DEF UsageTypeOK
  <2>3. LastFlush'
    BY <1>1, <1>2, <1>4, <2>1 DEF LastFlush
  <2> QED
    BY <1>3, <2>2, <2>3 DEF UsageInv
<1>6. CASE CloseReturns
  <2>1. /\ at[Run] = "over" /\ closeReturned' = TRUE
        /\ UNCHANGED <<done, lastCall>>
    BY <1>6 DEF CloseReturns
  <2> QED
    BY <1>1, <1>2, <1>3, <2>1 DEF UsageInv, UsageTypeOK, LastFlush
<1>7. CASE UNCHANGED usageVars
  BY <1>1, <1>2, <1>3, <1>7 DEF UsageInv, UsageTypeOK, LastFlush, usageVars, flushing
<1> QED
  BY <1>5, <1>6, <1>7

\* The inductive invariant.
THEOREM UsageInvariance == UsageSpec => []UsageInv
<1>1. UsageInit => UsageInv
  BY UsageStarts
<1>2. UsageInv /\ [UsageNext]_usageVars => UsageInv'
  <2> SUFFICES ASSUME UsageInv, [UsageNext]_usageVars PROVE UsageInv'
    OBVIOUS
  <2>1. ASSUME NEW r \in Records, RecordRefused(r) \/ Record(r) PROVE UsageInv'
    BY <2>1, RecordKeepsUsage
  <2>2. ASSUME NEW f \in Flushers, Flush(f) PROVE UsageInv'
    BY <2>2, CollectKeepsUsage, FlushMovesKeepUsage, WriteKeepsUsage DEF Flush
  <2>3. ASSUME CloseBegins \/ CloseReturns \/ UNCHANGED usageVars PROVE UsageInv'
    BY <2>3, CloseKeepsUsage
  <2> QED
    BY <2>1, <2>2, <2>3 DEF UsageNext
<1> QED
  BY <1>1, <1>2, PTL DEF UsageSpec

\* Type correctness.
THEOREM UsageTypeCorrect == UsageSpec => []UsageTypeOK
<1>1. UsageInv => UsageTypeOK
  BY DEF UsageInv
<1> QED
  BY <1>1, UsageInvariance, PTL

\* What was in the queue when Close was called is not there any more when it has
\* returned: the last flush of run ends only where it finds the queue empty.
THEOREM FlushesAtClose == UsageSpec => []CloseFlushes
<1>1. UsageInv => CloseFlushes
  BY DEF UsageInv, LastFlush, CloseFlushes, Elements
<1> QED
  BY <1>1, UsageInvariance, PTL

-----------------------------------------------------------------------------
\* A set of a finite number of numbers has a least one.
LEMMA Least ==
  ASSUME NEW S, IsFiniteSet(S), S # {}, NEW f, \A x \in S : f[x] \in Int
  PROVE  \E x \in S : \A y \in S : f[x] <= f[y]
<1> DEFINE HasLeast(T) == \E x \in T : \A y \in T : f[x] <= f[y]
           B == {T \in SUBSET S : T # {} /\ ~ HasLeast(T)}
<1>1. SUFFICES ASSUME B # {} PROVE FALSE
  <2>1. S \in SUBSET S
    OBVIOUS
  <2> QED
    BY <1>1, <2>1
<1>2. PICK M \in B : \A T \in SUBSET M : T # M => T \notin B
  <2> HIDE DEF B
  <2>1. B \in SUBSET SUBSET S
    BY DEF B
  <2> QED
    BY <1>1, <2>1, Minimal
<1>3. M \in SUBSET S /\ ~ HasLeast(M)
  OBVIOUS
<1>4. PICK a \in M : TRUE
  OBVIOUS
<1>5. M # {a}
  BY <1>3, <1>4
<1>6. HasLeast(M \ {a})
  <2> DEFINE T == M \ {a}
  <2>1. T \in SUBSET M /\ T # M /\ T # {} /\ T \in SUBSET S
    BY <1>3, <1>4, <1>5
  <2>2. T \notin B
    BY <1>2, <2>1
  <2> HIDE DEF T, HasLeast
  <2>3. HasLeast(T)
    BY <2>1, <2>2
  <2> QED
    BY <2>3 DEF T
<1>7. PICK x \in M \ {a} : \A y \in M \ {a} : f[x] <= f[y]
  BY <1>6
<1>8. \A y \in M : f[y] \in Int
  BY <1>3
<1>9. CASE f[x] <= f[a]
  BY <1>3, <1>4, <1>7, <1>9
<1>10. CASE ~ (f[x] <= f[a])
  <2>1. \A y \in M : f[a] <= f[y]
    BY <1>4, <1>7, <1>8, <1>10
  <2> QED
    BY <1>3, <1>4, <2>1
<1> QED
  BY <1>9, <1>10

\* Multiples of a number are at least that far apart.
LEMMA Apart ==
  ASSUME NEW S \in Nat, NEW x \in Int, NEW y \in Int
  PROVE  /\ x < y => x * S + S <= y * S
         /\ x <= y => x * S <= y * S
<1>1. ASSUME x < y PROVE x * S + S <= y * S
  <2>1. PICK d \in Nat : y = x + 1 + d
    <3>1. y - x - 1 \in Nat /\ y = x + 1 + (y - x - 1)
      BY <1>1
    <3> QED
      BY <3>1
  <2>2. y * S = x * S + S + d * S
    BY <2>1
  <2>3. d * S \in Nat /\ x * S \in Int
    OBVIOUS
  <2> QED
    BY <2>2, <2>3
<1>2. x * S \in Int /\ y * S \in Int
  OBVIOUS
<1>3. ASSUME x <= y PROVE x * S <= y * S
  <2>1. CASE x = y
    BY <1>2, <2>1
  <2>2. CASE x < y
    BY <1>1, <1>2, <2>2
  <2> QED
    BY <1>3, <2>1, <2>2
<1> QED
  BY <1>1, <1>3

\* What the second of a time is.
LEMMA Seconds ==
  /\ Base * Base \in Nat \ {0}
  /\ \A t \in Int : /\ Sec(t) \in Int /\ Sec(t) * (Base * Base) \in Int
                    /\ Sec(t) * (Base * Base) <= t
                    /\ t < Sec(t) * (Base * Base) + Base * Base
<1>1. Base * Base \in Nat \ {0}
  BY BaseAssumption
<1>2. ASSUME NEW S \in Nat \ {0}, NEW t \in Int
      PROVE  /\ t \div S \in Int /\ (t \div S) * S \in Int
             /\ (t \div S) * S <= t /\ t < (t \div S) * S + S
  OBVIOUS
<1>3. ASSUME NEW S \in Nat \ {0}, S = Base * Base
      PROVE  \A t \in Int : /\ Sec(t) \in Int /\ Sec(t) * S \in Int
                            /\ Sec(t) * S <= t /\ t < Sec(t) * S + S
  BY <1>2, <1>3 DEF Sec
<1> QED
  BY <1>1, <1>3

\* A time on the second.
Whole(t) == t \in Int /\ t = Sec(t) * (Base * Base)

\* Seconds are in the order of the times, and a time on the second begins one.
LEMMA SecondsInOrder ==
  ASSUME NEW a \in Int, NEW b \in Int
  PROVE  /\ a <= b => Sec(a) <= Sec(b)
         /\ a < b /\ Whole(b) => Sec(a) < Sec(b)
         /\ Sec(a) <= Sec(b) /\ Whole(a) => a <= b
         /\ Sec(a) <= Sec(b) => a < b + Base * Base
<1> DEFINE S == Base * Base
<1>1. S \in Nat /\ S > 0
  BY Seconds
<1>2. /\ Sec(a) \in Int /\ Sec(a) * S \in Int /\ Sec(a) * S <= a /\ a < Sec(a) * S + S
      /\ Sec(b) \in Int /\ Sec(b) * S \in Int /\ Sec(b) * S <= b /\ b < Sec(b) * S + S
  BY Seconds
<1>3. /\ Whole(a) => a = Sec(a) * S
      /\ Whole(b) => b = Sec(b) * S
  BY DEF Whole
<1> HIDE DEF S
<1>4. /\ Sec(b) < Sec(a) => Sec(b) * S + S <= Sec(a) * S
      /\ Sec(a) <= Sec(b) => Sec(a) * S <= Sec(b) * S
      /\ Sec(b) <= Sec(a) => Sec(b) * S <= Sec(a) * S
  BY <1>1, <1>2, Apart
<1>5. a <= b => Sec(a) <= Sec(b)
  BY <1>1, <1>2, <1>4
<1>6. a < b /\ Whole(b) => Sec(a) < Sec(b)
  BY <1>1, <1>2, <1>3, <1>4
<1>7. Sec(a) <= Sec(b) /\ Whole(a) => a <= b
  BY <1>1, <1>2, <1>3, <1>4
<1>8. Sec(a) <= Sec(b) => a < b + S
  BY <1>1, <1>2, <1>4
<1> QED
  BY <1>5, <1>6, <1>7, <1>8 DEF S

\* A bucket: it begins and ends on the second, and its readings are inside.
LEMMA Buckets ==
  ASSUME NEW r \in Records
  PROVE  /\ Key(r) \in Keys /\ Key(r).meter = Meter[r]
         /\ Whole(Key(r).start) /\ Whole(BucketEnd(Key(r)))
         /\ TakenAt[r] \in Nat /\ Key(r).start \in Int /\ BucketEnd(Key(r)) \in Int
         /\ Key(r).start <= TakenAt[r] /\ TakenAt[r] < BucketEnd(Key(r))
         /\ BucketEnd(Key(r)) = Key(r).start + BucketInterval
<1> DEFINE S == Base * Base
           t == TakenAt[r]
           I == BucketInterval
<1>1. t \in Nat /\ I \in Nat /\ I > 0 /\ I % S = 0 /\ S \in Nat /\ S > 0
  BY UsageAssumption, Seconds
<1>2. Key(r) \in Keys /\ Key(r).meter = Meter[r] /\ Key(r).start = t - (t % I)
  BY DEF Key, Keys
<1>3. BucketEnd(Key(r)) = Key(r).start + I
  BY DEF BucketEnd
<1>4. \A u \in Int : Sec(u) = u \div S
  BY DEF Sec
<1> HIDE DEF S, t, I
<1>5. t % I \in Nat /\ t % I < I /\ t \div I \in Int /\ t - (t % I) = (t \div I) * I
  BY <1>1
<1>6. I \div S \in Int /\ I = (I \div S) * S
  BY <1>1
<1>7. PICK c \in Int, d \in Int : t - (t % I) = c * I /\ I = d * S
  BY <1>5, <1>6
<1>8. c * d \in Int /\ t - (t % I) = (c * d) * S
  BY <1>1, <1>7
<1>9. c * d + 1 * d \in Int /\ t - (t % I) + I = (c * d + d) * S
  BY <1>1, <1>7, <1>8
<1>10. ASSUME NEW n \in Int PROVE n * S \in Int /\ (n * S) \div S = n
  BY <1>1
<1>11. \A n \in Int : Whole(n * S)
  BY <1>4, <1>10 DEF Whole, S
<1>12. Whole(Key(r).start) /\ Whole(BucketEnd(Key(r)))
  <2>1. Key(r).start = (c * d) * S /\ BucketEnd(Key(r)) = (c * d + d) * S
    BY <1>2, <1>3, <1>8, <1>9
  <2>2. c * d \in Int /\ c * d + d \in Int
    BY <1>8
  <2> QED
    BY <1>11, <2>1, <2>2
<1>13. /\ Key(r).start \in Int /\ BucketEnd(Key(r)) \in Int
       /\ Key(r).start <= t /\ t < BucketEnd(Key(r))
  BY <1>1, <1>2, <1>3, <1>5
<1> QED
  BY <1>1, <1>2, <1>3, <1>12, <1>13 DEF t, I

-----------------------------------------------------------------------------
\* A reading that was taken is in one place.
LEMMA InOnePlaceCounts ==
  ASSUME UsageInv
  PROVE  OnePlace
<1>1. UsageTypeOK /\ InOnePlace
  BY DEF UsageInv
<1> SUFFICES ASSUME NEW r \in Records
             PROVE  Places(r) = IF outcome[r] = "taken" THEN 1 ELSE 0
  BY DEF OnePlace
<1> DEFINE I == {i \in DOMAIN queue : queue[i] = r}
           F == {f \in Flushers : r \in pending[f]}
<1>2. Places(r) = Cardinality(I) + Cardinality(F)
  BY DEF Places
<1>3. /\ Cardinality({}) = 0
      /\ \A x : Cardinality({x}) = 1
  BY FS_EmptySet, FS_Singleton
<1> HIDE DEF I, F
<1>4. CASE outcome[r] # "taken"
  <2>1. I = {} /\ F = {}
    BY <1>1, <1>4 DEF InOnePlace, Elements, I, F
  <2> QED
    BY <1>2, <1>3, <1>4, <2>1
<1>5. CASE outcome[r] = "taken"
  <2>1. CASE r \in Elements(queue)
    <3>1. F = {}
      BY <1>1, <2>1 DEF InOnePlace, F
    <3>2. PICK i \in DOMAIN queue : queue[i] = r
      BY <2>1 DEF Elements
    <3>3. I = {i}
      BY <1>1, <3>2 DEF InOnePlace, Once, I
    <3> QED
      BY <1>2, <1>3, <1>5, <3>1, <3>3
  <2>2. CASE r \notin Elements(queue)
    <3>1. I = {}
      BY <2>2 DEF Elements, I
    <3>2. PICK f \in Flushers : r \in pending[f]
      BY <1>1, <1>5, <2>2 DEF InOnePlace
    <3>3. F = {f}
      BY <1>1, <3>2 DEF InOnePlace, F
    <3> QED
      BY <1>2, <1>3, <1>5, <3>1, <3>3
  <2> QED
    BY <2>1, <2>2
<1> QED
  BY <1>4, <1>5

\* The buckets a line of an answer is made of, and the readings in them.
Summed(q, m) ==
  {k \in {j \in Keys : sums[j] > 0 /\ Touches(j, q) /\ Selects(q, j.meter)} : k.meter = m}
Reported(q, m) == {r \in Records : outcome[r] = "stored" /\ Key(r) \in Summed(q, m)}

\* The line.
Line(q, m) ==
  [meter       |-> m,
   total       |-> SumFunctionOnSet(sums, Summed(q, m)),
   bucketStart |-> CHOOSE s \in {k.start : k \in Summed(q, m)} :
                     \A k \in Summed(q, m) : Text(s) <= Text(k.start),
   bucketEnd   |-> CHOOSE e \in {BucketEnd(k) : k \in Summed(q, m)} :
                     \A k \in Summed(q, m) : Text(e) >= Text(BucketEnd(k))]

\* There is one line at most for a meter.
LEMMA LinesOfMeter ==
  ASSUME NEW q, NEW m
  PROVE  {a \in AggregateByTenant(q) : a.meter = m}
           = IF Summed(q, m) = {} THEN {} ELSE {Line(q, m)}
<1> DEFINE rows == {k \in Keys : sums[k] > 0 /\ Touches(k, q) /\ Selects(q, k.meter)}
<1>1. AggregateByTenant(q) = {Line(q, n) : n \in {k.meter : k \in rows}}
  BY DEF AggregateByTenant, Line, Summed
<1>2. \A n : Line(q, n).meter = n
  BY DEF Line
<1>3. m \in {k.meter : k \in rows} <=> Summed(q, m) # {}
  BY DEF Summed
<1> HIDE DEF rows
<1> QED
  BY <1>1, <1>2, <1>3

\* Keys are finite in number.
LEMMA KeysFinite == IsFiniteSet(Keys)
<1>1. IsFiniteSet(Records)
  BY UsageAssumption
<1>2. IsFiniteSet({Key(r) : r \in Records})
  <2> DEFINE f == [r \in Records |-> Key(r)]
             Im == {Key(r) : r \in Records}
  <2>1. f \in Surjection(Records, Im)
    BY DEF Surjection
  <2> QED
    BY <1>1, <2>1, FS_Surjection
<1> QED
  BY <1>2 DEF Keys

\* The total of a line is that of the readings in its buckets.
LEMMA TotalOfLine ==
  ASSUME UsageInv, NEW q, NEW m
  PROVE  SumFunctionOnSet(sums, Summed(q, m)) = Sum(Reported(q, m))
<1> DEFINE S == {r \in Records : outcome[r] = "stored"}
           key == [r \in Records |-> Key(r)]
           K == Summed(q, m)
<1>1. SumsAgree /\ UsageTypeOK
  BY DEF UsageInv
<1>2. IsFiniteSet(S) /\ \A r \in S : Count[r] \in Nat
  BY Counts
<1>3. IsFiniteSet(K) /\ K \subseteq Keys
  BY KeysFinite, FS_Subset DEF Summed
<1>4. \A k \in K : sums[k] = SumFunctionOnSet(Count, OfKey(S, key, k))
  <2> TAKE k \in K
  <2>1. OfKey(S, key, k) = Stored(k)
    BY DEF Stored, OfKey
  <2> QED
    BY <1>1, <1>3, <2>1 DEF SumsAgree, Sum
<1>5. OfKeys(S, key, K) = Reported(q, m)
  BY DEF Reported, OfKeys
<1> HIDE DEF S, key, K
<1>6. SumFunctionOnSet(sums, K) = SumFunctionOnSet(Count, OfKeys(S, key, K))
  BY <1>2, <1>3, <1>4, SumGrouped
<1> QED
  BY <1>5, <1>6 DEF K, Sum

\* The bounds of a query are times; a reading that its answer must hold.
BoundsRead(q) == q.start \in Int /\ q.end \in Int
BilledIn(q, m, r) ==
  r \in Billed(m) /\ TakenAt[r] >= q.start /\ Sec(TakenAt[r]) < Sec(q.end)

\* A reading of the range that was billed is in a bucket that touches the range.
LEMMA ReadingsReported ==
  ASSUME UsageInv, NEW q, BoundsRead(q), NEW m, Selects(q, m), NEW r \in Records, BilledIn(q, m, r)
  PROVE  r \in Reported(q, m)
<1>1. SumsAgree /\ UsageTypeOK
  BY DEF UsageInv
<1>2. /\ outcome[r] = "stored" /\ Meter[r] = m
      /\ TakenAt[r] >= q.start /\ Sec(TakenAt[r]) < Sec(q.end)
      /\ q.start \in Int /\ q.end \in Int
  BY DEF BilledIn, Billed, BoundsRead
<1> DEFINE k == Key(r)
<1>3. /\ k \in Keys /\ k.meter = m /\ Whole(k.start) /\ Whole(BucketEnd(k))
      /\ TakenAt[r] \in Int /\ k.start \in Int /\ BucketEnd(k) \in Int
      /\ k.start <= TakenAt[r] /\ TakenAt[r] < BucketEnd(k)
  BY <1>2, Buckets
<1>4. r \in Stored(k)
  BY <1>2 DEF Stored
<1> HIDE DEF k
<1>5. sums[k] > 0
  <2>1. Stored(k) \in SUBSET Records
    BY DEF Stored
  <2>2. /\ IsFiniteSet(Stored(k)) /\ \A x \in Stored(k) : Count[x] \in Nat
    BY <2>1, Counts
  <2>3. Sum(Stored(k)) = Count[r] + Sum(Stored(k) \ {r})
    BY <1>4, <2>2, SumRemove DEF Sum
  <2>4. Sum(Stored(k) \ {r}) \in Nat
    <3>1. Stored(k) \ {r} \in SUBSET Records
      BY <2>1
    <3> QED
      BY <3>1, Counts
  <2>5. Count[r] \in Nat \ {0}
    BY UsageAssumption
  <2>6. sums[k] = Sum(Stored(k))
    BY <1>1, <1>3 DEF SumsAgree
  <2> QED
    BY <2>3, <2>4, <2>5, <2>6
<1>6. Text(BucketEnd(k)) >= Text(q.start)
  <2>1. Sec(q.start) <= Sec(TakenAt[r])
    BY <1>2, <1>3, SecondsInOrder
  <2>2. Sec(TakenAt[r]) < Sec(BucketEnd(k))
    BY <1>3, SecondsInOrder
  <2>3. Sec(q.start) < Sec(BucketEnd(k))
    BY <1>2, <1>3, <2>1, <2>2, TextOrder
  <2>4. /\ Text(q.start) < Text(BucketEnd(k))
        /\ Text(q.start) \in Int /\ Text(BucketEnd(k)) \in Int
    BY <1>2, <1>3, <2>3, TextOrder
  <2> QED
    BY <2>4
<1>7. Text(k.start) <= Text(q.end)
  <2>1. Sec(k.start) <= Sec(TakenAt[r])
    BY <1>3, SecondsInOrder
  <2>2. Sec(k.start) < Sec(q.end)
    BY <1>2, <1>3, <2>1, TextOrder
  <2>3. /\ Text(k.start) < Text(q.end)
        /\ Text(k.start) \in Int /\ Text(q.end) \in Int
    BY <1>2, <1>3, <2>2, TextOrder
  <2> QED
    BY <2>3
<1>8. k \in Summed(q, m)
  BY <1>3, <1>5, <1>6, <1>7 DEF Summed, Touches
<1> QED
  BY <1>2, <1>8 DEF Reported, k

\* A reading in a bucket that touches the range is not far from it.
LEMMA ReportedNear ==
  ASSUME NEW q, BoundsRead(q), NEW m, NEW r \in Reported(q, m)
  PROVE  /\ r \in Billed(m)
         /\ TakenAt[r] >= q.start - BucketInterval - Base * Base
         /\ TakenAt[r] <= q.end + BucketInterval
<1> DEFINE k == Key(r)
<1>1. r \in Records /\ outcome[r] = "stored" /\ k \in Summed(q, m)
  BY DEF Reported
<1>2. q.start \in Int /\ q.end \in Int
  BY DEF BoundsRead
<1>3. /\ k.meter = Meter[r] /\ Whole(k.start) /\ BucketEnd(k) = k.start + BucketInterval
      /\ TakenAt[r] \in Int /\ k.start \in Int /\ BucketEnd(k) \in Int
      /\ k.start <= TakenAt[r] /\ TakenAt[r] < BucketEnd(k)
  BY <1>1, Buckets
<1> HIDE DEF k
<1>4. /\ Text(BucketEnd(k)) >= Text(q.start) /\ Text(k.start) <= Text(q.end)
      /\ k.meter = m
  BY <1>1 DEF Summed, Touches
<1>5. Text(q.start) <= Text(BucketEnd(k))
  BY <1>2, <1>3, <1>4, TextOrder
<1>6. q.start < BucketEnd(k) + Base * Base
  BY <1>2, <1>3, <1>5, TextSays, SecondsInOrder
<1>7. k.start <= q.end
  BY <1>2, <1>3, <1>4, TextSays, SecondsInOrder
<1>8. BucketInterval \in Int /\ Base * Base \in Int
  BY UsageAssumption, Seconds
<1>9. TakenAt[r] >= q.start - BucketInterval - Base * Base
  BY <1>2, <1>3, <1>6, <1>8
<1>10. TakenAt[r] <= q.end + BucketInterval
  BY <1>2, <1>3, <1>7, <1>8
<1> QED
  BY <1>1, <1>3, <1>4, <1>9, <1>10 DEF Billed

\* A line says from when to when its readings are.
LEMMA LineSpans ==
  ASSUME NEW q, NEW m, NEW r \in Reported(q, m)
  PROVE  Line(q, m).bucketStart <= TakenAt[r] /\ TakenAt[r] < Line(q, m).bucketEnd
<1> DEFINE L == Summed(q, m)
           k == Key(r)
           starts == {j.start : j \in L}
           ends == {BucketEnd(j) : j \in L}
           s == CHOOSE x \in starts : \A j \in L : Text(x) <= Text(j.start)
           e == CHOOSE x \in ends : \A j \in L : Text(x) >= Text(BucketEnd(j))
<1>1. r \in Records /\ k \in L /\ L \subseteq Keys
  BY DEF Reported, Summed
<1>2. \A j \in L : /\ j.start \in Int /\ Whole(j.start)
                   /\ BucketEnd(j) \in Int /\ Whole(BucketEnd(j))
  BY <1>1, Buckets DEF Keys
<1>3. k.start <= TakenAt[r] /\ TakenAt[r] < BucketEnd(k) /\ TakenAt[r] \in Int
  BY <1>1, Buckets
<1>4. IsFiniteSet(L) /\ L # {}
  BY <1>1, KeysFinite, FS_Subset
<1>5. Line(q, m).bucketStart = s /\ Line(q, m).bucketEnd = e
  BY DEF Line
<1> HIDE DEF L, k
<1>6. \E x \in starts : \A j \in L : Text(x) <= Text(j.start)
  <2> DEFINE f == [j \in L |-> Text(j.start)]
  <2>1. \A j \in L : f[j] \in Int
    BY <1>2, TextOrder
  <2>2. PICK x \in L : \A j \in L : f[x] <= f[j]
    <3> HIDE DEF f
    <3> QED
      BY <1>4, <2>1, Least
  <2>3. \A j \in L : Text(x.start) <= Text(j.start)
    BY <2>2
  <2> QED
    BY <2>3
<1>7. \E x \in ends : \A j \in L : Text(x) >= Text(BucketEnd(j))
  <2> DEFINE f == [j \in L |-> -Text(BucketEnd(j))]
  <2>1. \A j \in L : f[j] \in Int /\ Text(BucketEnd(j)) \in Int
    BY <1>2, TextOrder
  <2>2. PICK x \in L : \A j \in L : f[x] <= f[j]
    <3> HIDE DEF f
    <3> QED
      BY <1>4, <2>1, Least
  <2>3. \A j \in L : Text(BucketEnd(x)) >= Text(BucketEnd(j))
    BY <2>1, <2>2
  <2> QED
    BY <2>3
<1>8. s \in starts /\ Text(s) <= Text(k.start)
  <2>1. s \in starts /\ \A j \in L : Text(s) <= Text(j.start)
    BY <1>6
  <2> QED
    BY <1>1, <2>1
<1>9. e \in ends /\ Text(e) >= Text(BucketEnd(k))
  <2>1. e \in ends /\ \A j \in L : Text(e) >= Text(BucketEnd(j))
    BY <1>7
  <2> QED
    BY <1>1, <2>1
<1>10. s \in Int /\ Whole(s) /\ e \in Int /\ Whole(e)
  BY <1>2, <1>8, <1>9
<1> HIDE DEF s, e
<1>11. /\ k.start \in Int /\ BucketEnd(k) \in Int /\ Whole(BucketEnd(k))
  BY <1>1, <1>2
<1>12. s <= k.start
  BY <1>8, <1>10, <1>11, TextSays, SecondsInOrder
<1>13. BucketEnd(k) <= e
  <2>1. Text(BucketEnd(k)) <= Text(e)
    BY <1>9, <1>10, <1>11, TextOrder
  <2> QED
    BY <1>10, <1>11, <2>1, TextSays, SecondsInOrder
<1> QED
  BY <1>3, <1>5, <1>10, <1>11, <1>12, <1>13

\* The answer to a query.
LEMMA Answers ==
  ASSUME UsageInv, NEW asked, NEW t, t \in Int,
         {asked.start, asked.end} \subseteq Int \union {None}
  PROVE  AnswersToTheSecond(asked, t)
<1> DEFINE start == IF asked.start = None THEN t - Day ELSE asked.start
           end   == IF asked.end = None THEN t ELSE asked.end
           q == [meter |-> asked.meter, start |-> start, end |-> end]
           answer == ListUsage(asked, t)
           Lines(m) == {a \in answer.aggregates : a.meter = m}
           Total(m) == SumFunction([a \in Lines(m) |-> a.total])
           Surely(m) == {r \in Billed(m) : TakenAt[r] >= start /\ Sec(TakenAt[r]) < Sec(end)}
           Perhaps(m) == {r \in Billed(m) : /\ TakenAt[r] >= start - BucketInterval - Base * Base
                                             /\ TakenAt[r] <= end + BucketInterval}
           asks(m) == \A f \in DOMAIN m : asked.meter[f] \in {None, m[f]}
           parsed == ParseUsageQuery(asked, t)
<1>1. start \in Int /\ end \in Int
  BY UsageAssumption
<1>2. (parsed = {q} /\ end > start) \/ parsed = {}
  BY DEF ParseUsageQuery
<1>3. /\ answer.status = IF parsed = {} THEN 400 ELSE 200
      /\ answer.aggregates = UNION {AggregateByTenant(p) : p \in parsed}
  BY DEF ListUsage
<1>4. q.start = start /\ q.end = end /\ q.meter = asked.meter
  OBVIOUS
<1> HIDE DEF q, parsed, answer
<1>5. BoundsRead(q)
  BY <1>1, <1>4 DEF BoundsRead
<1>6. answer.status = 200 => start < end
  BY <1>1, <1>2, <1>3
<1>7. ASSUME NEW m \in Meters, answer.status = 200
      PROVE  /\ Lines(m) = IF Summed(q, m) = {} THEN {} ELSE {Line(q, m)}
             /\ Selects(q, m) <=> asks(m)
  <2>1. answer.aggregates = AggregateByTenant(q)
    BY <1>2, <1>3, <1>7
  <2> QED
    BY <1>4, <2>1, LinesOfMeter DEF Selects
<1>8. ASSUME NEW m \in Meters, answer.status = 200, asks(m)
      PROVE  /\ Sum(Surely(m)) <= Total(m) /\ Total(m) <= Sum(Perhaps(m))
             /\ \A a \in Lines(m), r \in Surely(m) :
                  a.bucketStart <= TakenAt[r] /\ TakenAt[r] < a.bucketEnd
  <2>1. /\ Lines(m) = IF Summed(q, m) = {} THEN {} ELSE {Line(q, m)}
        /\ Selects(q, m)
    BY <1>7, <1>8
  <2>2. Surely(m) \subseteq Reported(q, m)
    <3>1. ASSUME NEW r \in Surely(m) PROVE r \in Reported(q, m)
      <4>1. r \in Records /\ BilledIn(q, m, r)
        BY <1>4 DEF BilledIn, Billed
      <4> QED
        BY <1>5, <2>1, <4>1, ReadingsReported
    <3> QED
      BY <3>1
  <2>3. Reported(q, m) \subseteq Perhaps(m)
    <3>1. ASSUME NEW r \in Reported(q, m) PROVE r \in Perhaps(m)
      <4>1. /\ r \in Billed(m)
            /\ TakenAt[r] >= q.start - BucketInterval - Base * Base
            /\ TakenAt[r] <= q.end + BucketInterval
        BY <1>5, ReportedNear
      <4> QED
        BY <1>4, <4>1
    <3> QED
      BY <3>1
  <2>4. Surely(m) \in SUBSET Records /\ Perhaps(m) \in SUBSET Records
        /\ Reported(q, m) \in SUBSET Records
    BY DEF Billed, Reported
  <2> HIDE DEF Surely, Perhaps
  <2>5. Sum(Surely(m)) <= Sum(Reported(q, m)) /\ Sum(Reported(q, m)) <= Sum(Perhaps(m))
    <3>1. /\ IsFiniteSet(Reported(q, m)) /\ \A r \in Reported(q, m) : Count[r] \in Nat
          /\ IsFiniteSet(Perhaps(m)) /\ \A r \in Perhaps(m) : Count[r] \in Nat
      BY <2>4, Counts
    <3> QED
      BY <2>2, <2>3, <3>1, SumPart DEF Sum
  <2>6. Total(m) = Sum(Reported(q, m))
    <3>1. Sum(Reported(q, m)) = SumFunctionOnSet(sums, Summed(q, m))
          /\ Sum(Reported(q, m)) \in Nat
      BY <2>4, TotalOfLine, Counts
    <3>2. CASE Summed(q, m) = {}
      <4>1. Lines(m) = {}
        BY <2>1, <3>2
      <4>2. Total(m) = SumFunctionOnSet([a \in {} |-> a.total], {})
        BY <4>1 DEF SumFunction
      <4>3. \A f : SumFunctionOnSet(f, {}) = 0
        BY SumUnfolds, FS_EmptySet
      <4> QED
        BY <3>1, <3>2, <4>2, <4>3
    <3>3. CASE Summed(q, m) # {}
      <4> DEFINE l == Line(q, m)
                 g == [a \in {l} |-> a.total]
      <4>1. Lines(m) = {l}
        BY <2>1, <3>3
      <4>2. Total(m) = SumFunctionOnSet(g, {l})
        BY <4>1 DEF SumFunction
      <4>3. g[l] = Sum(Reported(q, m))
        BY <3>1 DEF Line
      <4> HIDE DEF g, l
      <4> QED
        BY <3>1, <4>2, <4>3, SumOne
    <3> QED
      BY <3>2, <3>3
  <2>7. \A a \in Lines(m), r \in Surely(m) :
          a.bucketStart <= TakenAt[r] /\ TakenAt[r] < a.bucketEnd
    BY <2>1, <2>2, LineSpans
  <2> HIDE DEF Total, Lines
  <2> QED
    BY <2>5, <2>6, <2>7
<1>9. ASSUME NEW m \in Meters, ~ (answer.status = 200 /\ asks(m)) PROVE Lines(m) = {}
  <2>1. CASE answer.status = 200
    <3>1. ~ Selects(q, m)
      BY <1>7, <1>9, <2>1
    <3>2. Summed(q, m) = {}
      BY <3>1 DEF Summed
    <3> QED
      BY <1>7, <2>1, <3>2
  <2>2. CASE answer.status # 200
    <3>1. answer.aggregates = {}
      BY <1>3, <2>2
    <3> QED
      BY <3>1
  <2> QED
    BY <2>1, <2>2
<1> HIDE DEF Total, Lines, Surely, Perhaps, asks
<1>10. \A m \in Meters :
         IF answer.status = 200 /\ asks(m)
         THEN /\ Sum(Surely(m)) <= Total(m) /\ Total(m) <= Sum(Perhaps(m))
              /\ \A a \in Lines(m), r \in Surely(m) :
                   a.bucketStart <= TakenAt[r] /\ TakenAt[r] < a.bucketEnd
         ELSE Lines(m) = {}
  BY <1>8, <1>9
<1> QED
  BY <1>6, <1>10 DEF AnswersToTheSecond, Total, Lines, Surely, Perhaps, asks, answer

\* What is billed is what was recorded, each reading once and in one place, and
\* the answers agree with the readings up to a second and a bucket.
THEOREM BillsExactly == UsageSpec => []BilledExactly
<1>1. ASSUME UsageInv PROVE BilledExactly
  <2>1. OnePlace
    BY <1>1, InOnePlaceCounts
  <2>2. \A k \in Keys : sums[k] = Sum({r \in Records : outcome[r] = "stored" /\ Key(r) = k})
    BY <1>1 DEF UsageInv, SumsAgree, Stored
  <2>3. \A q \in Queries : AnswersToTheSecond(q.asked, q.now)
    BY <1>1, Answers, UsageAssumption
  <2> QED
    BY <2>1, <2>2, <2>3 DEF BilledExactly
<1> QED
  BY <1>1, UsageInvariance, PTL
=============================================================================
