--------------------------- MODULE MCAnomalyPoller --------------------------
(* Instances of AnomalyPoller for TLC. *)
EXTENDS AnomalyPoller

\* All anomalies are of one type.
OneType == [x \in Ids |-> 1]
=============================================================================
