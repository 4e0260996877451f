------------------------------- MODULE MCLdpc -------------------------------
(***************************************************************************)
(* Instances of the LDPC codes for TLC.                                     *)
(***************************************************************************)
EXTENDS CompactQc

MCBaseGraphs == [BG1 |-> BG1, BG2 |-> BG2]

P(b, z, i, turns, n, k, m) == [bg |-> b, zc |-> z, i_ls |-> i, max_iter |-> turns,
                               info_bits |-> n, kb |-> k, mb_use |-> m]

\* The encoder alone: each way of cutting the graphs, in each lifting set.
EncoderOnly ==
    {P("BG1", z, i, 0, -1, -1, m) : z \in {2, 3}, i \in 0 .. 7, m \in 1 .. 4} \cup
    {P("BG2", z, i, 0, -1, -1, m) : z \in {2, 5}, i \in 0 .. 7, m \in 1 .. 6}

\* Other numbers of information columns, and calls that are refused.
Unusual == {
    P("BG2", 2, -1, 0, -1, 9, 4), P("BG2", 3, -1, 0, -1, 6, 5), P("BG1", 2, -1, 0, -1, 20, 4),
    P("BG2", 17, -1, 0, -1, -1, 4), P("BG2", 2, 8, 0, -1, -1, 4), P("BG2", 2, -1, 0, -1, 52, 4),
    P("BG2", 2, -1, 0, -1, -1, 43), P("BG2", 2, -1, 0, 21, -1, 4), P("BG2", 0, -1, 0, 3841, -1, 4),
    P("BG2", 0, -1, 0, -1, -1, 4)}

\* Encoded, damaged and decoded. Where info_bits is given, words longer than it are too.
WholeWay == {
    P("BG2", 2, -1, 3, -1, -1, 4), P("BG2", 2, -1, 1, -1, -1, 4), P("BG2", 3, -1, 2, 25, -1, 6),
    P("BG2", 0, -1, 2, 12, -1, 6), P("BG1", 2, -1, 2, -1, -1, 4)}

MCParams == EncoderOnly \cup Unusual \cup WholeWay

Word(n, S) == [size |-> n, ones |-> S]

Length(q) ==
    LET zc == IF q.zc \in LiftingSizes THEN q.zc ELSE 2
    IN  IF q.info_bits > 0 THEN q.info_bits ELSE KbOf(q) * zc

MCWords(q) ==
    LET n == Length(q)
    IN  IF q \in WholeWay THEN
            {Word(n, {}), Word(n, {v \in 0 .. n - 1 : v % 3 = 1}), Word(n, 0 .. n - 1)} \cup
            (IF q.info_bits > 0 THEN {Word(n + 2, {1, n, n + 1})} ELSE {})
        ELSE {Word(n, {v \in 0 .. n - 1 : v % 3 # 1}), Word(n + 1, {n})}

MCCompactParams ==
    {[bg |-> b, zc |-> z, info_cols |-> -1, max_iter |-> 2] : b \in BaseGraph, z \in {2, 4}} \cup
    {[bg |-> "BG2", zc |-> 2, info_cols |-> 5, max_iter |-> 2],
     [bg |-> "BG1", zc |-> 3, info_cols |-> 6, max_iter |-> 2]}

MCCompactWords(q) ==
    LET n == (IF q.bg = "BG1" THEN 6 ELSE 4) * q.zc
    IN  {Word(n, {v \in 0 .. n - 1 : v % 2 = 1}), Word(n, {0}), Word(n - 1, {})}

\* The link leaves a word alone, or erases the columns that rate matching punctures,
\* or erases one bit, or turns it round weakly.
MCDamages(q, h) ==
    LET D(e, w) == [erased |-> e, wrong |-> w]
    IN  {D({}, {}), D(0 .. 2 * h.zc - 1, {})} \cup
        (IF q.max_iter = 0 THEN {} ELSE
            UNION {{D({v}, {}), D({}, {v})} : v \in 0 .. N_of(h) - 1})

=============================================================================
