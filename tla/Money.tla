------------------------------- MODULE Money -------------------------------
(***************************************************************************)
(* The arithmetic of amounts in minor units (packages/utils/src/money):    *)
(* rounding half to even, a rate in basis points, the split of an amount   *)
(* by weights, and the quote of a plan that is built from them             *)
(* (customer-web, checkout/quote.ts).  bigint is unbounded, as Int is; a   *)
(* call the code answers with a RangeError is outside an operator's        *)
(* domain, which Roundable and Allocatable name.                           *)
(***************************************************************************)
EXTENDS Integers, Sequences, FiniteSets, Ranking

Absolute(n) == IF n < 0 THEN -n ELSE n

Roundable(denominator) == denominator /= 0

(* The quotient of two naturals, half to even. *)
RoundedQuotient(n, d) ==
    LET quotient == n \div d
        twice    == 2 * (n % d)
    IN  IF twice > d \/ (twice = d /\ quotient % 2 /= 0) THEN quotient + 1 ELSE quotient

RoundHalfEven(numerator, denominator) ==
    LET rounded == RoundedQuotient(Absolute(numerator), Absolute(denominator))
    IN  IF (numerator < 0) /= (denominator < 0) THEN -rounded ELSE rounded

BasisPoints == 0 .. 10000   \* what assertBasisPoints lets pass

MultiplyByBps(amount, bps) == RoundHalfEven(amount * bps, 10000)

-----------------------------------------------------------------------------
(* Largest remainder. *)
Allocatable(weights) ==
    weights /= << >> /\ (\A i \in DOMAIN weights : weights[i] >= 0) /\ SumOf(weights) /= 0

Earlier_ByIndex(remainders, i, j) == i < j   \* mutant

(* i is handed a unit before j: a larger remainder, or the lower index. *)
Earlier(remainders, i, j) ==
    remainders[i] > remainders[j] \/ (remainders[i] = remainders[j] /\ i < j)

Allocate(total, weights) ==
    LET whole      == SumOf(weights)
        magnitude  == Absolute(total)
        floors     == [i \in DOMAIN weights |-> (magnitude * weights[i]) \div whole]
        remainders == [i \in DOMAIN weights |-> (magnitude * weights[i]) % whole]
        leftover   == magnitude - SumOf(floors)
        before(i)  == Cardinality({j \in DOMAIN weights : Earlier(remainders, j, i)})
        shares     == [i \in DOMAIN weights |->
                         IF before(i) < leftover THEN floors[i] + 1 ELSE floors[i]]
    IN  IF total < 0 THEN [i \in DOMAIN weights |-> -shares[i]] ELSE shares

-----------------------------------------------------------------------------
TaxBps == 1800
TaxComponents == <<900, 900>>   \* CGST and SGST

QuoteForPlan(gross) ==
    LET net == gross - 0   \* no coupons yet
        tax == MultiplyByBps(net, TaxBps)
    IN  [gross |-> gross, discount |-> 0, net |-> net, tax |-> tax,
         components |-> Allocate(tax, TaxComponents), total |-> net + tax]

-----------------------------------------------------------------------------
(* The rounded quotient is a nearest integer, and the even one of two that *)
(* are equally near, whatever the signs (round-half-even.ts).              *)
NearestEven(n, d) ==
    Roundable(d) =>
       LET r   == RoundHalfEven(n, d)
           off == Absolute(n - r * d)
       IN  2 * off <= Absolute(d) /\ (2 * off = Absolute(d) => r % 2 = 0)

(* The parts make the whole exactly; each is the exact share rounded up or *)
(* down; a larger weight never gets less, no weight gets nothing, and a    *)
(* refund is the charge it reverses, share by share (allocate.ts).         *)
SplitsFairly(total, weights) ==
    Allocatable(weights) =>
       LET part  == Allocate(total, weights)
           whole == SumOf(weights)
       IN  /\ SumOf(part) = total
           /\ \A i \in DOMAIN weights :
                 /\ Absolute(part[i] * whole - total * weights[i]) < whole
                 /\ weights[i] = 0 => part[i] = 0
                 /\ \A j \in DOMAIN weights :
                       weights[i] > weights[j] => Absolute(part[i]) >= Absolute(part[j])
           /\ Allocate(-total, weights) = [i \in DOMAIN weights |-> -part[i]]

(* The two halves a member reads on a quote are the tax, and the tax is    *)
(* within half a unit of the rate, for every price (quote.ts).             *)
QuoteBalances(gross) ==
    LET q == QuoteForPlan(gross)
    IN  /\ q.total = q.gross - q.discount + q.components[1] + q.components[2]
        /\ 2 * Absolute(10000 * q.tax - TaxBps * q.net) <= 10000
        /\ Absolute(q.components[1] - q.components[2]) <= 1
=============================================================================
