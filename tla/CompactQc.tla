------------------------------ MODULE CompactQc ------------------------------
(***************************************************************************)
(* The educational code of                                                  *)
(* src/educational/nr_style_compact_ldpc/src/compact_qc_ldpc.cpp: two small  *)
(* base graphs of its own, and a copy of the library's encoder and decoder  *)
(* that makes its graph from them. Beside the library's calls in one        *)
(* specification, so that both are checked for the same things.             *)
(***************************************************************************)
EXTENDS LdpcDecoder, LdpcTables

CONSTANTS
    CompactParams,   \* calls of the educational encoder: bg, zc, info_cols, max_iter
    CompactWords(_)

ASSUME CompactAssumption ==
    \A q \in CompactParams :
        /\ q.bg \in BaseGraph /\ q.zc \in Int /\ q.info_cols \in Int
        /\ q.max_iter \in Nat
        /\ \A w \in CompactWords(q) : w.size \in Nat /\ w.ones \subseteq 0 .. w.size - 1

\* One shift, whatever the lifting set.
Same(s) == [i \in 1 .. 8 |-> s]

COMPACT_BG1_EDGES == {
    E(0, 0, Same(0)), E(0, 1, Same(1)), E(0, 2, Same(0)), E(0, 6, Same(0)),
    E(1, 0, Same(1)), E(1, 3, Same(0)), E(1, 4, Same(1)), E(1, 7, Same(0)),
    E(2, 1, Same(0)), E(2, 2, Same(1)), E(2, 5, Same(0)), E(2, 8, Same(0)),
    E(3, 0, Same(0)), E(3, 3, Same(1)), E(3, 5, Same(1)), E(3, 9, Same(0))}

COMPACT_BG2_EDGES == {
    E(0, 0, Same(0)), E(0, 1, Same(1)), E(0, 2, Same(0)), E(0, 4, Same(0)),
    E(1, 0, Same(1)), E(1, 1, Same(0)), E(1, 3, Same(1)), E(1, 5, Same(0)),
    E(2, 1, Same(0)), E(2, 2, Same(1)), E(2, 3, Same(0)), E(2, 6, Same(0)),
    E(3, 0, Same(0)), E(3, 2, Same(1)), E(3, 3, Same(1)), E(3, 7, Same(0))}

compact_make_graph(q) ==
    LET kb == IF q.bg = "BG1" THEN 6 ELSE 4
    IN  [mb |-> 4, nb |-> kb + 4, kb |-> IF q.info_cols > 0 THEN q.info_cols ELSE kb,
         zc |-> q.zc, i_ls |-> 0, filler |-> 0,
         edges |-> IF q.bg = "BG1" THEN COMPACT_BG1_EDGES ELSE COMPACT_BG2_EDGES]

\* Its requirements, and encode_ge's: there is no filler here.
CompactEncodable(q, w) ==
    LET h == compact_make_graph(q)
    IN  q.zc \in {2, 4, 8} /\ h.nb - h.kb = h.mb /\ w.size = K_of(h)

CompactInit ==
    /\ code = "compact" /\ p \in CompactParams /\ info \in CompactWords(p)
    /\ Blank /\ Silent

CompactBegin ==
    /\ pc = "start" /\ code = "compact" /\ CompactEncodable(p, info)
    /\ Setup(compact_make_graph(p), info)
    /\ UNCHANGED decoder

CompactRefuse ==
    /\ pc = "start" /\ code = "compact" /\ ~CompactEncodable(p, info)
    /\ pc' = "refused"
    /\ UNCHANGED <<code, p, info, g, H, A, rhs, col, cw, decoder>>

compact_encode_ge == code = "compact" /\ encode_ge /\ UNCHANGED decoder

CompactTransmit == code = "compact" /\ Transmit

compact_decode_minsum == code = "compact" /\ decode_minsum

CompactNext ==
    CompactBegin \/ CompactRefuse \/ compact_encode_ge \/ CompactTransmit \/ compact_decode_minsum

CodesInit == Init \/ CompactInit

CodesNext == (code = "nr" /\ Next) \/ CompactNext

CodesSpec == CodesInit /\ [][CodesNext]_vars

=============================================================================
