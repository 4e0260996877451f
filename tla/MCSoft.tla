------------------------------- MODULE MCSoft -------------------------------
(***************************************************************************)
(* Instances of SoftCombining for TLC.                                      *)
(***************************************************************************)
EXTENDS SoftCombining

C(n, e, ncb, z, g, p) == [n |-> n, e_bits |-> e, n_cb |-> ncb, zc |-> z, bg |-> g,
                          puncture_first_2z |-> p]

\* Derived and limited buffers, repetition (E beyond the buffer) and puncturing
\* (E below it), both base graphs, and the fallback offsets without a lifting size.
MCConfigs == {
    C(7, 6, 0, 1, "BG2", TRUE), C(7, 4, 3, 1, "BG2", TRUE), C(7, 3, 0, 1, "BG1", TRUE),
    C(5, 6, 0, 0, "BG2", TRUE), C(6, 4, 4, 1, "BG1", FALSE), C(12, 3, 0, 2, "BG2", TRUE)}

\* The offsets alone: many buffer and lifting sizes, one coded bit sent.
MCWide == {C(100, 1, ncb, z, g, p) :
    ncb \in {0, 15, 40}, z \in {0, 1, 3, 7}, g \in BaseGraph, p \in BOOLEAN}

AllConfigs == MCConfigs \cup MCWide

MCCodewords(n) == IF n >= 100 THEN {[j \in 0 .. n - 1 |-> 0]} ELSE {
    [j \in 0 .. n - 1 |-> j % 2],
    [j \in 0 .. n - 1 |-> (j \div 2) % 2],
    [j \in 0 .. n - 1 |-> IF j < 3 THEN 1 ELSE 0]}

MCRvs == {-1, 0, 1, 2}

=============================================================================
