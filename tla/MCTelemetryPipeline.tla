------------------------ MODULE MCTelemetryPipeline ------------------------
(***************************************************************************)
(* A small instance of TelemetryPipeline: one peer that sends three lines  *)
(* and one that sends a single one.                                        *)
(***************************************************************************)
EXTENDS TelemetryPipeline

CONSTANTS a, b

MCConns    == {a, b}
MCMaxLines == [c \in MCConns |-> IF c = a THEN 3 ELSE 1]
=============================================================================
