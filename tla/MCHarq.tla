------------------------------- MODULE MCHarq -------------------------------
(***************************************************************************)
(* Instances of Harq for TLC. Sizes alternate in threes, so that blocks     *)
(* whose indicators coincide may or may not have the same length.           *)
(***************************************************************************)
EXTENDS Harq, TLC

ProcessSymmetry == Permutations(Processes)

\* A one-bit indicator on a link that keeps the order, a two-bit one that is just
\* wide enough for delay and loss, and a one-bit one that is not.
MCLinks == {
    [ndi_mod |-> 2, lateness |-> 0, unheard |-> 0],
    [ndi_mod |-> 4, lateness |-> 1, unheard |-> 1],
    [ndi_mod |-> 2, lateness |-> 1, unheard |-> 1]}

MCSizeOf(b) == IF b % 3 = 0 THEN 10 ELSE 20

=============================================================================
