-------------------------- MODULE MCUsageCollector --------------------------
(***************************************************************************)
(* A small instance of UsageCollector: three readings of one meter, two of *)
(* them in one bucket and one in the bucket before, a fourth of another    *)
(* meter, and more of them than the queue holds.  Four ticks are a second, *)
(* and a bucket; the queries start and end on the second and between two   *)
(* of them, inside, around, before and after the readings.                 *)
(***************************************************************************)
EXTENDS UsageCollector

MCRecords == 1..4
MCMeter   == [r \in MCRecords |->
                [tenant |-> "A", unit |-> IF r = 4 THEN "event" ELSE "call"]]
MCTakenAt == << 5, 8, 9, 8 >>
MCCount   == << 1, 2, 3, 4 >>
MCUnits   == {"call", "event"}

Asked(start, end, unit) ==
  [asked |-> [start |-> start, end |-> end, meter |-> [tenant |-> None, unit |-> unit]],
   now |-> 11]
MCQueries ==
  {Asked(w[1], w[2], None) : w \in {<<None, None>>, <<8, None>>, <<1, 4>>, <<7, 9>>,
                                    <<8, 7>>, <<9, 12>>, <<17, 20>>}}
  \union {Asked(None, 12, u) : u \in {"event", "mile"}}
=============================================================================
