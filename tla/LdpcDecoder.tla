----------------------------- MODULE LdpcDecoder -----------------------------
(***************************************************************************)
(* ldpc_decode of src/ldpc.cpp on what a link makes of an encoded word.     *)
(* The schedule floods: all variables, then all checks. (The comment of     *)
(* ldpc.hpp:11 calls it layered.) One step is one turn of the loop of       *)
(* decode_minsum.                                                           *)
(*                                                                         *)
(* LLRs are integers in units of 4^-max_iter: every turn multiplies by 3/4, *)
(* so all values of a decoding are whole numbers, and the doubles of the    *)
(* code hold them exactly.                                                  *)
(***************************************************************************)
EXTENDS LdpcEncoder

CONSTANT Damages(_, _) \* for parameters and a graph, what the link may do to a word

VARIABLES
    damage, \* positions the link has erased, and those it has weakly inverted
    llr,    \* channel
    it,
    c2v,    \* msg_c2v: SparseEdge -> LLR
    result  \* the bits returned

decoder == <<damage, llr, it, c2v, result>>
vars == <<encoder, decoder>>

Silent == damage = <<>> /\ llr = <<>> /\ it = 0 /\ c2v = <<>> /\ result = {}

Init == EncInit /\ Silent

-----------------------------------------------------------------------------

Power4[n \in Nat] == IF n = 0 THEN 1 ELSE 4 * Power4[n - 1]

Unit(q) == Power4[q.max_iter]

Sign(word, v) == IF v \in word THEN -1 ELSE 1

\* bits_to_llr with amplitude 4, and a link that turns some of the LLRs into
\* nothing and some into a weak one of the wrong sign.
Received(q, word, d, v) ==
    IF v \in d.erased THEN 0
    ELSE IF v \in d.wrong THEN -Unit(q) * Sign(word, v)
    ELSE 4 * Unit(q) * Sign(word, v)

Variables == 0 .. N - 1

\* The decoder makes its own graph, without the size of the information.
Transmit ==
    /\ pc = "encoded" /\ (code = "nr" => Accepted(p))
    /\ damage' \in Damages(p, g)
    /\ llr' = [v \in Variables |-> Received(p, cw, damage', v)]
    /\ it' = 0
    /\ c2v' = [e \in expand_edges(g) |-> 0]
    /\ pc' = "decode"
    /\ UNCHANGED <<code, p, info, g, H, A, rhs, col, cw, result>>

RefuseDecode ==
    /\ pc = "encoded" /\ code = "nr" /\ ~Accepted(p)
    /\ pc' = "undecodable"
    /\ UNCHANGED <<code, p, info, g, H, A, rhs, col, cw, decoder>>

\* The pass over the variables: a posteriori LLRs, and what goes to the checks.
Posterior == [v \in Variables |->
    llr[v] + MapThenSumSet(LAMBDA e : c2v[e], {e \in DOMAIN c2v : e[2] = v})]

\* msg_v2c
v2c(app, e) == app[e[2]] - c2v[e]

hard_of(app) == {v \in DOMAIN app : app[v] < 0}

\* The decoder's syndrome counts edges, not columns of H.
syndrome(edges, hard) ==
    \A c \in Rows : Parity({e \in edges : e[1] = c /\ e[2] \in hard}) = 0

Abs(x) == IF x < 0 THEN -x ELSE x

\* The other edges of the check an edge belongs to.
Others(edges, e) == {f \in edges : f[1] = e[1]} \ {e}

\* Mutant: the sign of the product is taken from all messages, the edge's own with them.
Negative_All(edges, app, e) == {f \in edges : f[1] = e[1] /\ v2c(app, f) < 0}

Negative(edges, app, e) == {f \in Others(edges, e) : v2c(app, f) < 0}

\* Three quarters of the least magnitude, with the product of the signs.
CheckMessage(edges, app, e) ==
    LET sign == IF Parity(Negative(edges, app, e)) = 1 THEN -1 ELSE 1
        min1 == Min({Abs(v2c(app, f)) : f \in Others(edges, e)})
    IN  sign * ((3 * min1) \div 4)

Iterate ==
    /\ pc = "decode" /\ it < p.max_iter
    /\ LET app == Posterior IN
        /\ ~syndrome(DOMAIN c2v, hard_of(app))
        /\ c2v' = [e \in DOMAIN c2v |-> CheckMessage(DOMAIN c2v, app, e)]
    /\ it' = it + 1
    /\ UNCHANGED <<encoder, damage, llr, result>>

Return(hard) ==
    /\ result' = hard \cap (0 .. K - 1)
    /\ pc' = "decoded"
    /\ UNCHANGED <<code, p, info, g, H, A, rhs, col, cw, damage, llr, it, c2v>>

\* A turn that meets a word with all checks even returns it; after the last turn
\* whatever is there is returned.
Stop ==
    /\ pc = "decode" /\ it < p.max_iter
    /\ LET hard == hard_of(Posterior) IN syndrome(DOMAIN c2v, hard) /\ Return(hard)

GiveUp == pc = "decode" /\ it = p.max_iter /\ Return(hard_of(Posterior))

decode_minsum == Iterate \/ Stop \/ GiveUp

Decode == RefuseDecode \/ Transmit \/ decode_minsum

Next == (Encode /\ UNCHANGED decoder) \/ Decode

Spec == Init /\ [][Next]_vars

-----------------------------------------------------------------------------

\* What the encoder returns is systematic and satisfies every check of the matrix
\* (ldpc.cpp:110-148, "Encode: systematic GF(2) solve on lifted H").
EncodedIsCodeword ==
    pc \in {"encoded", "undecodable", "decode", "decoded"} =>
        syndrome_ok(H, cw) /\ cw \cap (0 .. K - 1) = info.ones

\* The parity columns of a base graph can be solved in every lifting set and size:
\* "parity submatrix singular" (ldpc.cpp:131) is thrown only if kb is not the base
\* graph's, or if mb_use cuts into its four core rows.
SolvesUnlessCut ==
    pc = "singular" => code = "nr" /\ (g.kb # BaseGraphs[p.bg].kb \/ g.mb < 4)

\* The encoder reads a matrix it flips bits of, the decoder a list of edges
\* (ldpc.cpp:94-108, 155-166, 188-195): of every word the decoder looks at, both
\* say the same.
SyndromesAgree ==
    pc \in {"decode", "decoded"} =>
        LET hard == hard_of(Posterior)
        IN  syndrome(expand_edges(g), hard) <=> syndrome_ok(H, hard)

\* No check of the graph is a single edge. (Of one, the code takes the minimum over
\* no other edges to be infinity.)
Joined(h) == \A e \in Live(h) : \E f \in Live(h) : f.row = e.row /\ f # e

\* If the link only erases, the decoder never makes a bit of what it was not: a bit
\* is a one only if it was sent as one, and a one is lost only where it was erased
\* (ldpc.cpp:168-228).
NeverMisled ==
    pc = "decoded" /\ damage.wrong = {} /\ Joined(g) =>
        result \subseteq info.ones /\ info.ones \ result \subseteq damage.erased

\* A check tells a variable that was erased if its other variables came through, or were
\* told by a layer before.
Tells(edges, erased, layer, e) ==
    \A f \in Others(edges, e) : f[2] \in erased => layer[f[2]] < layer[e[2]]

\* The checks tell all that was erased, a layer with every turn.
Peels(edges, erased, turns) ==
    \E layer \in [erased -> 1 .. turns] :
        \A v \in erased : \E e \in edges : e[2] = v /\ Tells(edges, erased, layer, e)

\* The edges of a check that has a wrong bit at another of its edges.
Against(edges, wrong) == {e \in edges : \E f \in Others(edges, e) : f[2] \in wrong}

\* Every wrong bit has a check, none has two wrong bits, and no variable meets wrong
\* bits in more than five.
Scattered(edges, wrong) ==
    /\ \A v \in wrong : \E e \in edges : e[2] = v
    /\ \A e \in Against(edges, wrong) :
        e[2] \notin wrong /\ Cardinality({f \in Against(edges, wrong) : f[2] = e[2]}) <= 5

\* What the decoder can make good: erasures that peel, or weak wrong bits apart.
Correctable ==
    /\ Joined(g)
    /\ \/ damage.wrong = {} /\ Peels(expand_edges(g), damage.erased, p.max_iter)
       \/ damage.erased = {} /\ p.max_iter > 0 /\ Scattered(expand_edges(g), damage.wrong)

\* And of what it can make good it returns the information sent: it neither stops
\* before it has, at another word all of whose checks are even, nor runs out of turns
\* (ldpc.cpp:155-228).
ReturnsSent ==
    /\ NeverMisled
    /\ pc = "decoded" /\ Correctable => result = info.ones

=============================================================================
