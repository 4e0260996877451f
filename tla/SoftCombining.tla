---------------------------- MODULE SoftCombining ----------------------------
(***************************************************************************)
(* One HARQ process on its way through the soft-bit path: a codeword is     *)
(* rate-matched with some redundancy version, its LLRs arrive, rate_dematch *)
(* accumulates them in the circular buffer and writes the buffer back, and  *)
(* HarqBuffer::upsert adds the result to what earlier transmissions left,    *)
(* until clear() makes room for the next codeword.                          *)
(*                                                                         *)
(* The link is noiseless: an LLR has the sign of its bit and a magnitude    *)
(* from Mags. So a soft value of the wrong sign is one that was added to    *)
(* another bit, and a missing magnitude is one that was thrown away.        *)
(***************************************************************************)
EXTENDS RateMatching, Functions

CONSTANTS
    Configs,       \* the configurations, records in ConfigType
    Codewords(_),  \* the codewords of a length
    Rvs,           \* redundancy versions the sender uses (any int: taken modulo 4)
    Mags,          \* magnitudes of an LLR
    MaxTx          \* bound: transmissions of a codeword

ASSUME ConfigAssumption == \A c \in Configs : c \in ConfigType /\ LongEnough(c)
ASSUME CodewordAssumption == \A c \in Configs : Codewords(c.n) \subseteq [0 .. c.n - 1 -> {0, 1}]
ASSUME LinkAssumption == Rvs \subseteq Int /\ Mags \subseteq Nat \ {0} /\ MaxTx \in Nat \ {0}

VARIABLES
    cfg,      \* the configuration both ends use
    coded,    \* the codeword
    pc,       \* where the receiver is
    rv,       \* redundancy version of the transmission being received
    i,        \* loop index of rate_dematch
    buf,      \* its circular buffer
    full,     \* its result
    soft,     \* soft_buffer of the HARQ process
    tx_count, \* tx_count of the HARQ process; 0: no process yet
    covered,  \* history: the coded bits sent so far
    spent     \* history: the sum of the magnitudes received so far

vars == <<cfg, coded, pc, rv, i, buf, full, soft, tx_count, covered, spent>>

Bits == 0 .. cfg.n - 1
Cells == 0 .. BufferSize(cfg) - 1
Silence == [j \in Bits |-> 0]

\* bits_to_llr: bit 0 is positive.
Sign(b) == IF b = 0 THEN 1 ELSE -1

Init ==
    /\ cfg \in Configs
    /\ coded \in Codewords(cfg.n)
    /\ pc = "idle"
    /\ rv = 0
    /\ i = 0
    /\ buf = [k \in Cells |-> 0]
    /\ full = Silence
    /\ soft = Silence
    /\ tx_count = 0
    /\ covered = {}
    /\ spent = 0

\* A transmission arrives and rate_dematch clears its buffers. One that is lost
\* on the way is no step at all.
Receive(r) ==
    /\ pc = "idle" /\ tx_count < MaxTx
    /\ pc' = "loop"
    /\ rv' = r
    /\ i' = 0
    /\ buf' = [k \in Cells |-> 0]
    /\ full' = Silence
    /\ UNCHANGED <<cfg, coded, soft, tx_count, covered, spent>>

\* Mutant: rate_dematch ignores the redundancy version.
CellOf_Rv0(n) == Cell(cfg, 0, n)

\* The cell rate_dematch adds LLR n to.
CellOf(n) == Cell(cfg, rv, n)

\* buf[(k0 + i) % n_cb] += llr_e[i], for an LLR of the bit rate_match sent there.
Accumulate(a) ==
    /\ pc = "loop" /\ i < cfg.e_bits
    /\ buf' = [buf EXCEPT ![CellOf(i)] = @ + a * Sign(coded[Carried(cfg, rv, i)])]
    /\ i' = i + 1
    /\ spent' = spent + a
    /\ UNCHANGED <<cfg, coded, pc, rv, full, soft, tx_count, covered>>

\* Mutant: the write-back forgets that the punctured bits come first.
Unpacked_NoPunch(j) == IF j < BufferSize(cfg) THEN buf[j] ELSE 0

\* full[punch + i % (n_coded - punch)] = buf[i], for all i in order.
Unpacked(j) == IF HasCell(cfg, j) THEN buf[LastCell(cfg, j)] ELSE 0

Unpack ==
    /\ pc = "loop" /\ i = cfg.e_bits
    /\ full' = [j \in Bits |-> Unpacked(j)]
    /\ pc' = "done"
    /\ UNCHANGED <<cfg, coded, rv, i, buf, soft, tx_count, covered, spent>>

\* Mutant: a retransmission replaces what is in the soft buffer.
Combined_Replace == full

\* llr_combine for a known process, a plain copy for a new one.
Combined == IF tx_count = 0 THEN full ELSE [j \in Bits |-> soft[j] + full[j]]

Upsert ==
    /\ pc = "done"
    /\ soft' = Combined
    /\ tx_count' = tx_count + 1
    /\ covered' = covered \cup {Carried(cfg, rv, n) : n \in 0 .. cfg.e_bits - 1}
    /\ pc' = "idle"
    /\ UNCHANGED <<cfg, coded, rv, i, buf, full, spent>>

\* The receiver clears the process and the sender goes on to another codeword.
Clear ==
    /\ pc = "idle" /\ tx_count > 0
    /\ coded' \in Codewords(cfg.n)
    /\ soft' = Silence
    /\ tx_count' = 0
    /\ covered' = {}
    /\ spent' = 0
    /\ UNCHANGED <<cfg, pc, rv, i, buf, full>>

Next ==
    \/ \E r \in Rvs : Receive(r)
    \/ \E a \in Mags : Accumulate(a)
    \/ Unpack
    \/ Upsert
    \/ Clear

Spec == Init /\ [][Next]_vars

-----------------------------------------------------------------------------

TypeOK ==
    /\ cfg \in Configs
    /\ coded \in [Bits -> {0, 1}]
    /\ pc \in {"idle", "loop", "done"}
    /\ rv \in Int
    /\ i \in 0 .. cfg.e_bits
    /\ buf \in [Cells -> Int]
    /\ full \in [Bits -> Int]
    /\ soft \in [Bits -> Int]
    /\ tx_count \in Nat

\* Whatever redundancy versions are combined, a soft value never argues against
\* the bit it belongs to: rate_dematch undoes the index arithmetic of rate_match
\* (rate_matching.cpp:52-58 against 78-82).
Aligned == \A j \in Bits : soft[j] * Sign(coded[j]) >= 0

\* "rate matching / recovery" (rate_matching.hpp:4): a coded bit that was sent in
\* a transmission that was combined has a soft value.
SentIsRecovered == \A j \in covered : soft[j] # 0

Magnitude(v) == IF v < 0 THEN -v ELSE v

\* Between transmissions the soft buffer holds the magnitude of every LLR that
\* arrived, none of it dropped by the write-back and none of it counted twice.
NothingLost ==
    pc = "idle" => SumFunction([j \in Bits |-> Magnitude(soft[j])]) = spent

\* "rate match RV k0 positions differ" (tests/test_ldpc.cpp:88): with room for five
\* lifted columns, as every code of the repository has, the four redundancy
\* versions start at four different cells. In a smaller buffer two may start at the
\* same one, but even then they come in order and start before its end.
RvsDiffer ==
    LET start(r) == start_offset(cfg, BufferSize(cfg), r)
        roomy == 5 * cfg.zc <= BufferSize(cfg) /\ BufferSize(cfg) >= 4
    IN  /\ start(0) = 0 /\ start(3) < BufferSize(cfg)
        /\ \A r \in 0 .. 2 :
            start(r) <= start(r + 1) /\ (roomy => start(r) # start(r + 1))

=============================================================================
