----------------------------- MODULE MCScheduler -----------------------------
(***************************************************************************)
(* Instances of Scheduler for TLC: every vector of up to four UEs that      *)
(* differ in identity, metric and whether they pass. The precision is far   *)
(* below that of a double, so that shares near a whole number are rounded   *)
(* either way.                                                              *)
(***************************************************************************)
EXTENDS Scheduler

MCMetrics == {0, 1, 5}

MCUes == [id : 1 .. 4, ok : BOOLEAN, metric : MCMetrics]

\* Vectors whose i-th UE has the identity i, in all sizes up to four.
MCBatches == UNION {
    {[k \in 1 .. n |-> [id |-> k, ok |-> f[k] >= 0, metric |-> IF f[k] >= 0 THEN f[k] ELSE 1]] :
        f \in [1 .. n -> MCMetrics \cup {-1}]} : n \in 0 .. 4}

=============================================================================
