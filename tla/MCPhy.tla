------------------------------- MODULE MCPhy -------------------------------
(* PhyLink on small links: transforms of 4 and 8 points, up to 4 antennas,  *)
(* kernels in blocks of 3 threads. What the numbers of Complex cannot order *)
(* is kept from the demodulators: with 8 points delays are even and noise   *)
(* meets the first sample of the data.                                      *)
EXTENDS PhyLink, Sequences

Array(s) == [i \in 0 .. Len(s) - 1 |-> s[i + 1]]

SomeBits == Array(<<1, 0, 0, 1, 1, 1, 0>>)
Seed(k) == [i \in 0 .. 30 |-> (i \div k) % 2]

\* As many bits as the tones carry.
Ofdm(backend, order, n, cp, symb, pilots, eq) ==
    [path |-> "ofdm", backend |-> backend, order |-> order, coded |-> SomeBits,
     e_bits |-> n * bits_per_symbol(order), c_init |-> Seed(2), fft_size |-> n, cp_len |-> cp,
     dmrs_symb |-> symb, pilots |-> Array(pilots), eq |-> eq, noise |-> Over(COne, 2)]

\* Two symbols per layer, one with four.
Antennas(backend, order, rows, reg) ==
    LET n == Len(rows[1])
        t == IF n = 4 THEN 1 ELSE 2
    IN  [path |-> "mimo", backend |-> backend, order |-> order, coded |-> SomeBits,
         e_bits |-> n * t * bits_per_symbol(order), c_init |-> Seed(3), n_rx |-> Len(rows), n_tx |-> n,
         H |-> [ij \in (0 .. Len(rows) - 1) \X (0 .. n - 1) |-> rows[ij[1] + 1][ij[2] + 1]],
         reg |-> reg, noise |-> COne]

Held == [order : {"QPSK", "QAM16"}, n : {4, 8}, cp : 0 .. 2, symb : 0 .. 1, eq : {"ZF", "MMSE"}]
Combs == {<<4, <<0, 2>>>>, <<4, <<1>>>>, <<4, <<0, 1, 3>>>>, <<8, <<1, 3, 6>>>>, <<8, <<0, 4, 5, 7>>>>,
          <<8, <<0, 1, 2, 3, 4, 5, 6, 7>>>>}

G(re, im) == Gauss(re, im)
Channels ==
    {<<<<G(1, 1)>>>>,
     <<<<G(0, 0)>>>>,
     <<<<G(1, 0), G(3, 0)>>, <<G(0, 0), G(1, 0)>>>>,
     <<<<G(0, 0), G(1, 0)>>, <<G(0, 1), G(0, 0)>>>>,
     <<<<G(1, 1), G(2, -1)>>, <<G(0, 1), G(1, 0)>>>>,
     <<<<G(1, 0), G(1, 0)>>, <<G(1, 0), G(1, 0)>>>>,
     <<<<G(1, 0), G(0, 1)>>, <<G(0, 0), G(1, 0)>>, <<G(1, -1), G(1, 0)>>>>,
     <<<<G(1, 0), G(1, 1)>>>>}

FourByFour == [i \in 1 .. 4 |-> [j \in 1 .. 4 |-> IF j = (i % 4) + 1 THEN G(0, 1) ELSE IF i = j THEN G(1, 0) ELSE CZero]]
Permutation == [i \in 1 .. 4 |-> [j \in 1 .. 4 |-> IF j = (i % 4) + 1 THEN COne ELSE CZero]]

MCConfigs ==
    {Ofdm("cpu", h.order, h.n, h.cp, h.symb, <<>>, h.eq) : h \in Held} \cup
    {Ofdm("cpu", order, 4, 1, 0, <<>>, "ZF") : order \in {"QAM64", "QAM256"}} \cup
    {Ofdm("cpu", "QPSK", c[1], 2, 0, c[2], "ZF") : c \in Combs} \cup
    {Ofdm("cuda", "QPSK", 4, 1, 0, <<>>, eq) : eq \in {"ZF", "MMSE"}} \cup
    {Antennas("cpu", order, rows, reg) : order \in {"QPSK", "QAM16"}, rows \in Channels, reg \in {CZero, COne}} \cup
    {Antennas("cpu", "QPSK", rows, CZero) : rows \in {FourByFour, Permutation}} \cup
    {[Antennas("cpu", "QPSK", Permutation, CZero) EXCEPT !.H = identity_mimo(4)],
     Antennas("cuda", "QPSK", <<<<G(0, 0), G(1, 0)>>, <<G(0, 1), G(0, 0)>>>>, CZero)}

\* Beyond the prefix, before the start, and, on some links, past the end.
MCDelays(c) ==
    (IF c.cp_len = 2 /\ c.pilots # <<>> THEN {-2 * (2 + c.fft_size)} ELSE {}) \cup
    IF c.fft_size = 4 THEN -1 .. c.cp_len + 1 ELSE {0, 2} \cap 0 .. c.cp_len

Quiet == [at |-> -1, e |-> CZero, small |-> TRUE]
DataStart(c) == (1 - c.dmrs_symb) * (c.cp_len + c.fft_size) + c.cp_len

\* On tones of unit gain noise of amplitude 1 reaches the next amplitude half way.
MCDisturbances(c) ==
    {Quiet} \cup
    IF c.path = "mimo" THEN {[at |-> 0, e |-> COne, small |-> FALSE]}
    ELSE IF c.fft_size = 4
    THEN {[at |-> DataStart(c) + k, e |-> Over(CI, 2), small |-> TRUE] : k \in 0 .. 3} \cup
         {[at |-> DataStart(c), e |-> COne, small |-> FALSE]}
    ELSE {[at |-> DataStart(c), e |-> Over(COne, 2), small |-> TRUE]}

=============================================================================
