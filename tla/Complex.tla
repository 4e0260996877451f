------------------------------- MODULE Complex -------------------------------
(***************************************************************************)
(* The numbers the physical layer computes with, without rounding: rational *)
(* combinations of the powers 0..3 of a primitive eighth root of unity w,   *)
(* which is a field, closed under everything the code does to a             *)
(* std::complex as long as transforms have at most eight points. Amplitudes *)
(* are in units of the constellation's scale. Numbers are in lowest terms,  *)
(* so equal numbers are equal records. A vector of the code is a function   *)
(* from 0 .. size - 1.                                                      *)
(***************************************************************************)
EXTENDS Integers, FiniteSets, Functions

RECURSIVE Gcd(_, _)
Gcd(a, b) == IF b = 0 THEN a ELSE Gcd(b, a % b)

Abs(x) == IF x < 0 THEN -x ELSE x

\* n[k+1] / d is the coefficient of w^k.
Number(n, d) ==
    LET c == Gcd(Gcd(Gcd(Abs(n[1]), Abs(n[2])), Gcd(Abs(n[3]), Abs(n[4]))), Abs(d))
        q == IF d < 0 THEN -c ELSE c
    IN  [n |-> <<n[1] \div q, n[2] \div q, n[3] \div q, n[4] \div q>>, d |-> d \div q]

Gauss(re, im) == [n |-> <<re, 0, im, 0>>, d |-> 1]
CZero == Gauss(0, 0)
COne == Gauss(1, 0)
CI == Gauss(0, 1)

Add(x, y) == Number([k \in 1 .. 4 |-> x.n[k] * y.d + y.n[k] * x.d], x.d * y.d)
Neg(x) == [x EXCEPT !.n = <<-x.n[1], -x.n[2], -x.n[3], -x.n[4]>>]
Sub(x, y) == Add(x, Neg(y))

Mul(x, y) ==
    LET a == x.n
        b == y.n
    IN  Number(<<a[1] * b[1] - a[2] * b[4] - a[3] * b[3] - a[4] * b[2],
                 a[1] * b[2] + a[2] * b[1] - a[3] * b[4] - a[4] * b[3],
                 a[1] * b[3] + a[2] * b[2] + a[3] * b[1] - a[4] * b[4],
                 a[1] * b[4] + a[2] * b[3] + a[3] * b[2] + a[4] * b[1]>>, x.d * y.d)

Over(x, k) == Number(x.n, x.d * k)
Times(x, k) == Number([i \in 1 .. 4 |-> x.n[i] * k], x.d)

Conj(x) == [x EXCEPT !.n = <<x.n[1], -x.n[4], -x.n[3], -x.n[2]>>]

\* |x|^2, of the form a + b sqrt(2).
Norm(x) == Mul(x, Conj(x))

\* 1 / x: its norm times a - b sqrt(2) is rational.
Inv(x) ==
    LET m == Norm(x)
        flip == [m EXCEPT !.n = <<m.n[1], -m.n[2], m.n[3], -m.n[4]>>]
        r == Mul(m, flip)
        y == Mul(Conj(x), flip)
    IN  Number([k \in 1 .. 4 |-> y.n[k] * r.d], y.d * r.n[1])

Div(x, y) == Mul(x, Inv(y))

RealPart(x) == Over(Add(x, Conj(x)), 2)
ImagPart(x) == Mul(Over(Sub(x, Conj(x)), 2), Gauss(0, -1))

\* w^k, for any integer k.
Root(k) ==
    LET m == k % 8
        s == IF m < 4 THEN 1 ELSE -1
    IN  [n |-> [i \in 1 .. 4 |-> IF i - 1 = m % 4 THEN s ELSE 0], d |-> 1]

\* Both parts are rational; then they can be compared.
IsGaussian(x) == x.n[2] = 0 /\ x.n[4] = 0

Total(f) == FoldFunction(Add, CZero, f)

-----------------------------------------------------------------------------

Size(a) == Cardinality(DOMAIN a)
Slice(a, from, n) == [i \in 0 .. n - 1 |-> a[from + i]]
Joined(a, b) ==
    [i \in 0 .. Size(a) + Size(b) - 1 |-> IF i < Size(a) THEN a[i] ELSE b[i - Size(a)]]
Fill(n, x) == [i \in 0 .. n - 1 |-> x]

=============================================================================
