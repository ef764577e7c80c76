-------------------------- MODULE SQLiteEventStore --------------------------
(***************************************************************************)
(* SQLiteEventStore of internal/core/event_store_sqlite.go, which keeps    *)
(* the events of LocalBus.  One connection, so that statements never       *)
(* overlap, but an operation is several of them: Append looks at closed    *)
(* and reads the clock before its INSERT, and Cleanup is two DELETEs and a *)
(* COUNT without a transaction, any of which may fail.  The filters of     *)
(* Query by type and source, and its offset, are left out.                 *)
(***************************************************************************)
EXTENDS TextTime, FiniteSets, Functions

CONSTANTS
  Events, Stamp,   \* Stamp[e]: the time e carries, as its source set it
  TTL, MaxEvents,  \* StoreConfig
  MaxNow           \* the bound of the clock

ASSUME StoreAssumption ==
  /\ IsFiniteSet(Events) /\ Stamp \in [Events -> Nat]
  /\ TTL \in Nat /\ MaxEvents \in Nat /\ MaxNow \in Nat

VARIABLES
  now,
  tried,      \* the events Append was called with
  appending,  \* Appends before their INSERT, with the time each read
  table,      \* the rows: created_at of each event that is stored
  cleaner,    \* the Cleanup in progress
  since,      \* rows inserted since the last COUNT
  closed

vars == <<now, tried, appending, table, cleaner, since, closed>>

Rows == DOMAIN table
With(f, x, v) == [y \in DOMAIN f \union {x} |-> IF y = x THEN v ELSE f[y]]
Without(f, S) == Restrict(f, DOMAIN f \ S)

Idle == [at |-> "idle", cutoff |-> 0, excess |-> 0]

Init ==
  /\ now = 0 /\ since = 0 /\ closed = FALSE
  /\ tried = {} /\ appending = << >> /\ table = << >>
  /\ cleaner = Idle

Tick ==
  /\ now < MaxNow /\ now' = now + 1
  /\ UNCHANGED <<tried, appending, table, cleaner, since, closed>>

-----------------------------------------------------------------------------
(* Append.                                                                 *)

\* closed is read under the lock, then the clock.  (A call that fails before
\* that leaves no trace.)
AppendCheck(e) ==
  /\ e \notin tried /\ ~closed
  /\ tried' = tried \union {e}
  /\ appending' = With(appending, e, now)
  /\ UNCHANGED <<now, table, cleaner, since, closed>>

AppendInsert(e) ==
  /\ e \in DOMAIN appending /\ ~closed
  /\ table' = With(table, e, appending[e])
  /\ appending' = Without(appending, {e})
  /\ since' = since + 1
  /\ UNCHANGED <<now, tried, cleaner, closed>>

\* The database is closed, or the INSERT fails.
AppendFails(e) ==
  /\ e \in DOMAIN appending
  /\ appending' = Without(appending, {e})
  /\ UNCHANGED <<now, tried, table, cleaner, since, closed>>

-----------------------------------------------------------------------------
(* Query: one SELECT.                                                      *)

InRange_StartOnly(e, from, to) == Text(Stamp[e]) >= Text(from)

\* timestamp >= ? AND timestamp <= ?
InRange(e, from, to) ==
  Text(from) <= Text(Stamp[e]) /\ Text(Stamp[e]) <= Text(to)

\* ORDER BY timestamp ASC LIMIT ?: what the first n of the rows S may be.
Oldest(S, n) ==
  {T \in SUBSET S :
     /\ Cardinality(T) = IF n < Cardinality(S) THEN n ELSE Cardinality(S)
     /\ \A e \in T, f \in S \ T : Text(Stamp[e]) <= Text(Stamp[f])}

Selected(from, to, limit) ==
  LET found == {e \in Rows : InRange(e, from, to)}
  IN  IF limit > 0 THEN Oldest(found, limit) ELSE {found}

-----------------------------------------------------------------------------
(* Cleanup, by cleanupLoop: one at a time.                                 *)

CleanupStart ==
  /\ cleaner.at = "idle" /\ ~closed
  /\ cleaner' = [at |-> "age", cutoff |-> now - TTL, excess |-> 0]
  /\ UNCHANGED <<now, tried, appending, table, since, closed>>

\* The age is taken from the timestamp of the event.
DeleteOld_ByStamp ==
  /\ cleaner.at = "age" /\ ~closed
  /\ table' = Without(table, {e \in Rows : Text(Stamp[e]) < Text(cleaner.cutoff)})
  /\ cleaner' = [cleaner EXCEPT !.at = "count"]
  /\ UNCHANGED <<now, tried, appending, since, closed>>

\* DELETE ... WHERE created_at < cutoff.
DeleteOld ==
  /\ cleaner.at = "age" /\ ~closed
  /\ table' = Without(table, {e \in Rows : Text(table[e]) < Text(cleaner.cutoff)})
  /\ cleaner' = [cleaner EXCEPT !.at = "count"]
  /\ UNCHANGED <<now, tried, appending, since, closed>>

\* The rows that would be too many with the next one.
CountRows_OneMore ==
  /\ cleaner.at = "count" /\ ~closed
  /\ since' = 0
  /\ LET excess == Cardinality(Rows) - MaxEvents + 1
     IN  cleaner' = IF excess > 0
                    THEN [cleaner EXCEPT !.at = "excess", !.excess = excess]
                    ELSE Idle
  /\ UNCHANGED <<now, tried, appending, table, closed>>

\* SELECT COUNT(*): nothing is left to do, or the excess is known.
CountRows ==
  /\ cleaner.at = "count" /\ ~closed
  /\ since' = 0
  /\ LET excess == Cardinality(Rows) - MaxEvents
     IN  cleaner' = IF excess > 0
                    THEN [cleaner EXCEPT !.at = "excess", !.excess = excess]
                    ELSE Idle
  /\ UNCHANGED <<now, tried, appending, table, closed>>

\* DELETE of the oldest, as many as were too many when they were counted.
DeleteExcess ==
  /\ cleaner.at = "excess" /\ ~closed
  /\ \E T \in Oldest(Rows, cleaner.excess) : table' = Without(table, T)
  /\ cleaner' = Idle
  /\ UNCHANGED <<now, tried, appending, since, closed>>

\* A statement fails: Cleanup returns, what it deleted stays deleted, and
\* the limit is not kept until another Cleanup.
CleanupFails ==
  /\ cleaner.at # "idle"
  /\ cleaner' = Idle
  /\ since' = Cardinality(Rows)
  /\ UNCHANGED <<now, tried, appending, table, closed>>

-----------------------------------------------------------------------------
Close ==
  /\ ~closed /\ closed' = TRUE
  /\ UNCHANGED <<now, tried, appending, table, cleaner, since>>

Next ==
  \/ Tick
  \/ \E e \in Events : AppendCheck(e) \/ AppendInsert(e) \/ AppendFails(e)
  \/ CleanupStart \/ DeleteOld \/ CountRows \/ DeleteExcess \/ CleanupFails
  \/ Close

Spec == Init /\ [][Next]_vars

-----------------------------------------------------------------------------
(* Properties.                                                             *)

CleanerStates == [at : {"idle", "age", "count", "excess"}, cutoff : -TTL..MaxNow,
                  excess : 0..Cardinality(Events)]

TypeOK ==
  /\ now \in 0..MaxNow /\ since \in Nat /\ closed \in BOOLEAN
  /\ Rows \subseteq tried /\ DOMAIN appending \subseteq tried /\ tried \subseteq Events
  /\ \A e \in Rows : table[e] \in 0..now
  /\ \A e \in DOMAIN appending : appending[e] \in 0..now
  /\ cleaner \in CleanerStates

\* A query errs by less than a second: nothing of a second outside its range
\* is returned, all of the seconds inside are, and a limit cuts off no event
\* in favour of one of a later second.
QueryToTheSecond ==
  \A from, to \in 0..MaxNow, limit \in 0..1 :
    \A S \in Selected(from, to, limit) :
      /\ \A e \in S : Sec(from) <= Sec(Stamp[e]) /\ Sec(Stamp[e]) <= Sec(to)
      /\ \A e \in Rows \ S :
           \/ Sec(Stamp[e]) <= Sec(from) \/ Sec(Stamp[e]) >= Sec(to)
           \/ limit > 0 /\ \A f \in S : Sec(Stamp[f]) <= Sec(Stamp[e])

\* The first DELETE of a Cleanup takes the events that were appended before
\* the TTL, up to a second, whenever their INSERT came through.
RetentionToTheSecond ==
  [][cleaner.at = "age" /\ cleaner'.at = "count" => \A e \in Rows :
       /\ Sec(table[e]) < Sec(cleaner.cutoff) => e \notin Rows'
       /\ e \notin Rows' => Sec(table[e]) <= Sec(cleaner.cutoff)]_vars

\* After a Cleanup that came to its end there are no more events than the
\* limit and those that were inserted since it counted them; and an event is
\* lost to the limit only if as many events of its second or of later ones are
\* kept as the limit allows, whatever was appended between COUNT and DELETE.
LimitKept ==
  /\ [](cleaner.at = "idle" => Cardinality(Rows) <= MaxEvents + since)
  /\ [][cleaner.at = "excess" => \A e \in Rows \ Rows' :
          Cardinality({f \in Rows' : Sec(Stamp[f]) >= Sec(Stamp[e])}) >= MaxEvents]_vars
=============================================================================
