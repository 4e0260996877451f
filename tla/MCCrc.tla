-------------------------------- MODULE MCCrc --------------------------------
(***************************************************************************)
(* Instances of Crc for TLC: CRC6 of the code (0x61), and short polynomials *)
(* that leave room for longer payloads and for every burst.                 *)
(***************************************************************************)
EXTENDS Crc, Sequences

\* The bits of a polynomial, the least significant first.
S(bits) == [len |-> Len(bits), poly |-> [j \in 0 .. Len(bits) - 1 |-> bits[j + 1]]]

MCSpecs == {S(<<1, 0, 0, 0, 0, 1>>), S(<<1, 1, 0, 1>>), S(<<1, 0, 1>>), S(<<1>>)}

=============================================================================
