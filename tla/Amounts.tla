------------------------------ MODULE Amounts ------------------------------
(***************************************************************************)
(* pkg/utils/bigint_utils.go: how an amount in the smallest unit of a      *)
(* token is shown with its decimals, and what it is worth.  Both go        *)
(* through binary floating point, with rounding to the nearest, halves to  *)
(* even.  A float is m / 2^k, written [m, k].                              *)
(***************************************************************************)
EXTENDS Integers

CONSTANTS
  FloatBits,    \* least precision of a big.Float made of a big.Int: 64
  DoubleBits,   \* precision of a float64: 53
  MaxAmount,    \* bound: amounts are checked up to it
  Decimals,     \* decimals of the tokens
  Prices        \* prices in USD, as float64 without a fraction

ASSUME AmountsAssumption ==
  /\ FloatBits \in Nat \ {0} /\ DoubleBits \in 1..FloatBits
  /\ MaxAmount \in Nat /\ Decimals \subseteq Nat /\ Prices \subseteq Nat \ {0}

\* Exp: b to the power of n.
Power(b, n) == LET pow[k \in Nat] == IF k = 0 THEN 1 ELSE b * pow[k - 1] IN pow[n]

BitLen(n) ==
  CHOOSE b \in 0..n : n < Power(2, b) /\ (b > 0 => Power(2, b - 1) <= n)

RoundedQuotient(n, d) ==
  LET q == n \div d  r == n % d
  IN IF 2 * r > d \/ (2 * r = d /\ q % 2 = 1) THEN q + 1 ELSE q

\* SetInt takes the bits the number needs, at least 64; Quo the larger precision
\* of its operands.  Bug: what a float64 has.
DoublePrecision(n, d) == DoubleBits
Precision(n, d) ==
  CHOOSE p \in {FloatBits, BitLen(n), BitLen(d)} :
    p >= FloatBits /\ p >= BitLen(n) /\ p >= BitLen(d)

\* new(big.Float).Quo: n / d with as many bits as the precision.
Quotient(n, d) ==
  LET p == Precision(n, d)
      k == CHOOSE e \in 0..(p + BitLen(d)) :
             /\ d * Power(2, p - 1) <= n * Power(2, e)
             /\ n * Power(2, e) < d * Power(2, p)
  IN IF n = 0 THEN [m |-> 0, k |-> 0]
     ELSE [m |-> RoundedQuotient(n * Power(2, k), d), k |-> k]

\* A conversion to float64, and its product with another one.
ToDouble(f) ==
  LET over == BitLen(f.m) - DoubleBits
  IN IF over <= 0 THEN f
     ELSE [f EXCEPT !.m = RoundedQuotient(f.m, Power(2, over)) * Power(2, over)]

\* FormatBigInt: the number shown, in units of its last decimal; trailing zeros
\* that are cut off do not change it.
FormatBigInt(amount, decimals) ==
  LET value == Quotient(amount, Power(10, decimals))
  IN IF decimals = 0 THEN amount
     ELSE RoundedQuotient(value.m * Power(10, decimals), Power(2, value.k))

\* The token's amount as a float.
TokenValue(amount, decimals) == Quotient(amount, Power(10, decimals))

CalculateValueUSD(amount, decimals, price) ==
  LET tokens == ToDouble(TokenValue(amount, decimals))
  IN ToDouble([tokens EXCEPT !.m = @ * price])

-----------------------------------------------------------------------------
(* Properties. *)

\* A shown balance is off by at most one in its last decimal, and exact while the
\* amount has fewer bits than the float: 9.2 ETH at 64 bits.  No positive balance
\* is shown as 0, and a larger one never as less.
ShownNear ==
  \A d \in Decimals : \A a \in 0..MaxAmount :
    LET shown == FormatBigInt(a, d)
    IN /\ shown \in a - 1..a + 1
       /\ a < Power(2, FloatBits - 1) => shown = a
       /\ shown = 0 <=> a = 0
       /\ a < MaxAmount => shown <= FormatBigInt(a + 1, d)

\* A value in USD is wrong by the three roundings on its way and not more, so it is
\* zero only for a balance of zero.
ValueNear ==
  \A d \in Decimals, p \in Prices : \A a \in 0..MaxAmount :
    LET usd  == CalculateValueUSD(a, d, p)
        diff == usd.m * Power(10, d) - a * p * Power(2, usd.k)
    IN (IF diff < 0 THEN -diff ELSE diff) * Power(2, DoubleBits)
         <= 3 * a * p * Power(2, usd.k)
=============================================================================
