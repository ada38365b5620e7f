------------------------------ MODULE Amounts -------------------------------
(***************************************************************************)
(* What the form makes of the amount a customer types.  The text is parsed *)
(* into a floating-point number, multiplied, and cut to an integer, so the *)
(* micro-STX and the fiat amount that are signed go through two or three   *)
(* roundings.  Floating-point numbers are modelled exactly, as a mantissa  *)
(* of Precision bits over a power of two, rounded half to even.            *)
(***************************************************************************)
EXTENDS Integers

CONSTANTS
    Precision,    \* bits of a mantissa: 53 in a double
    Scale,        \* smallest units of an STX: 1_000_000
    Rate,         \* fiat units per STX: "1500"
    Minor,        \* minor units of a fiat unit: 100
    MinSTX,       \* validateSTXAmount: 1
    MaxSTX        \* validateSTXAmount: 100000

ASSUME AmountsAssumption ==
    /\ {Precision, Scale, Rate, Minor, MinSTX, MaxSTX} \subseteq Nat \ {0}
    /\ MinSTX <= MaxSTX

\* The room a mantissa leaves for the largest amount, in smallest units, and for
\* the fiat it is worth, in the largest fraction of a minor unit that an amount
\* may be worth: at a rate of 1500 one twentieth.
ASSUME RoomAssumption ==
    /\ 4 * MaxSTX * Scale <= 2^Precision
    /\ \E parts \in 1..Scale :
          /\ (parts * Rate * Minor) % Scale = 0
          /\ 4 * MaxSTX * Rate * Minor * parts <= 2^Precision

\* A double is mant / 2^shift.  The nearest one to p / q, of two equally near
\* the one with the even mantissa; zero does not occur, nor a number that is
\* too large for a mantissa.
Nearest(p, q) ==
    LET shift == CHOOSE s \in 0..(2 * Precision) :
                    /\ 2^(Precision - 1) * q <= p * 2^s
                    /\ \A t \in 0..(s - 1) : p * 2^t < 2^(Precision - 1) * q
        down  == (p * 2^shift) \div q
        rest  == (p * 2^shift) % q
        up    == \/ 2 * rest > q
                 \/ 2 * rest = q /\ down % 2 = 1
    IN [mant |-> IF up THEN down + 1 ELSE down, shift |-> shift]

Times(x, k) == Nearest(x.mant * k, 2^x.shift)
Floor(x) == x.mant \div 2^x.shift

\* validateSTXAmount, of an amount typed with six decimals and counted in
\* smallest units.
ValidAmount(n) == n \in (MinSTX * Scale)..(MaxSTX * Scale)

ParseFloat(n) == Nearest(n, Scale)

\* microSTX
MicroSTX(n) == Floor(Times(ParseFloat(n), Scale))

\* fiatVal, in minor units, at a rate that is 0 before it is loaded.
FiatVal(n, rate) ==
    IF rate = 0 THEN 0 ELSE Floor(Times(Times(ParseFloat(n), rate), Minor))

\* The expected fiat amount on the page: the same product cut to two decimals
\* by toFixed, which rounds to the nearest.
FiatShown(n) ==
    LET x == Times(ParseFloat(n), Rate)
    IN (2 * x.mant * Minor + 2^x.shift) \div (2 * 2^x.shift)

=============================================================================
