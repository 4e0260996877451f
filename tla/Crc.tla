--------------------------------- MODULE Crc ---------------------------------
(***************************************************************************)
(* The bit-serial CRC of src/crc.cpp: crc_attach runs compute_crc over a    *)
(* payload and appends the register, crc_check runs compute_crc over what   *)
(* arrived and asks for a zero register.                                    *)
(*                                                                         *)
(* Both start from a zero register and take the bits in the same order, so  *)
(* the model runs the two side by side: a bit enters `crc`, and, flipped or *)
(* not by the link, enters `crc_rx`. A register is a function from the bit  *)
(* number, 0 the least significant, to 0 or 1.                              *)
(***************************************************************************)
EXTENDS Integers

CONSTANTS
    Specs,       \* the polynomials, records of a length and the register poly
    MaxPayload,  \* bound: payload bits
    MaxSpan      \* bound: first to last flipped bit, counted in bits

Bit == {0, 1}

\* spec(t): the length, and poly_full without its leading 1. Each of the five
\* polynomials ends in a 1.
ASSUME CrcAssumption ==
    /\ \A s \in Specs : s.len \in Nat \ {0} /\ s.poly \in [0 .. s.len - 1 -> Bit] /\ s.poly[0] = 1
    /\ MaxPayload \in Nat
    /\ MaxSpan \in Nat

VARIABLES
    spec,    \* the polynomial in use
    phase,   \* "payload": compute_crc of crc_attach; "append": its push_back loop; "done"
    fed,     \* payload bits so far
    pushed,  \* appended bits so far
    crc,     \* the register of crc_attach
    crc_rx,  \* the register of crc_check
    flips    \* positions of the flipped bits of the block

crcVars == <<spec, phase, fed, pushed, crc, crc_rx, flips>>

Width(s) == 0 .. s.len - 1
Zero(s) == [j \in Width(s) |-> 0]

Xor(a, b) == (a + b) % 2

\* Mutant: the shift is taken before the feedback bit is read from the top.
Step_LateFeedback(s, r, b) ==
    LET shifted == [j \in Width(s) |-> IF j = 0 THEN 0 ELSE r[j - 1]]
        fb == Xor(shifted[s.len - 1], b)
    IN  [j \in Width(s) |-> Xor(shifted[j], fb * s.poly[j])]

\* One round of the loop of compute_crc: shift left, and where the bit that falls
\* out differs from the input bit, add the polynomial.
Step(s, r, b) ==
    LET fb == Xor(r[s.len - 1], b)
    IN  [j \in Width(s) |-> Xor(IF j = 0 THEN 0 ELSE r[j - 1], fb * s.poly[j])]

CrcInit ==
    /\ spec \in Specs
    /\ phase = "payload"
    /\ fed = 0
    /\ pushed = 0
    /\ crc = Zero(spec)
    /\ crc_rx = Zero(spec)
    /\ flips = {}

\* The link flips bit p of the block, or not, keeping to one burst.
Flipped(p, e) ==
    /\ e = 1 => \A q \in flips : p - q < MaxSpan
    /\ e = 1 => MaxSpan > 0
    /\ flips' = IF e = 1 THEN flips \cup {p} ELSE flips

Payload(b, e) ==
    /\ phase = "payload" /\ fed < MaxPayload
    /\ crc' = Step(spec, crc, b)
    /\ crc_rx' = Step(spec, crc_rx, Xor(b, e))
    /\ Flipped(fed, e)
    /\ fed' = fed + 1
    /\ UNCHANGED <<spec, phase, pushed>>

Rem ==
    /\ phase = "payload"
    /\ phase' = "append"
    /\ UNCHANGED <<spec, fed, pushed, crc, crc_rx, flips>>

\* Mutant: the register is sent with its least significant bit first.
Sent_LsbFirst == crc[pushed]

\* (rem >> i) & 1 for i from len - 1 down to 0.
Sent == crc[spec.len - 1 - pushed]

PushBack(e) ==
    /\ phase = "append" /\ pushed < spec.len
    /\ crc_rx' = Step(spec, crc_rx, Xor(Sent, e))
    /\ Flipped(fed + pushed, e)
    /\ pushed' = pushed + 1
    /\ UNCHANGED <<spec, phase, fed, crc>>

Finish ==
    /\ phase = "append" /\ pushed = spec.len
    /\ phase' = "done"
    /\ UNCHANGED <<spec, fed, pushed, crc, crc_rx, flips>>

CrcNext ==
    \/ \E b, e \in Bit : Payload(b, e)
    \/ Rem
    \/ \E e \in Bit : PushBack(e)
    \/ Finish

CrcSpec == CrcInit /\ [][CrcNext]_crcVars

-----------------------------------------------------------------------------

CrcTypeOK ==
    /\ spec \in Specs
    /\ phase \in {"payload", "append", "done"}
    /\ fed \in Nat
    /\ pushed \in 0 .. spec.len
    /\ crc \in [Width(spec) -> Bit]
    /\ crc_rx \in [Width(spec) -> Bit]
    /\ flips \subseteq 0 .. fed + pushed - 1

Passed == crc_rx = Zero(spec)

\* crc_check accepts every block that crc_attach made and nobody touched, whatever
\* the polynomial and the payload (crc.cpp:42-57).
CleanPasses == phase = "done" /\ flips = {} => Passed

\* crc_check rejects every block whose flipped bits lie within a span no longer
\* than the CRC, be they payload bits, bits of the CRC or both; a single flipped
\* bit is the shortest span.
BurstCaught ==
    /\ phase = "done" /\ flips # {}
    /\ \A p, q \in flips : p - q < spec.len
    => ~Passed

=============================================================================
