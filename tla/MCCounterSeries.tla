--------------------------- MODULE MCCounterSeries --------------------------
(* Instances of CounterSeries for TLC. *)
EXTENDS CounterSeries
=============================================================================
