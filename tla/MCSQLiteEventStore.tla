------------------------ MODULE MCSQLiteEventStore ------------------------
(* Three events, two of one second and one of the next; of the two the later *)
(* has the lesser text.                                                      *)
EXTENDS SQLiteEventStore

MCEvents == 1..3
MCStamp  == [e \in MCEvents |-> e + 1]
=============================================================================
