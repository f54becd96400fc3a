----------------------------- MODULE FareEngine -----------------------------
(***************************************************************************)
(* FareEngineService.calculateFare in integers.  Distances are in tenths   *)
(* of a metre.  The rate and the percentage of the configuration may be    *)
(* fractions: they are in 1/Scale.  Base fares, a rate per kilometre times *)
(* whole metres, are in 1/(1000 Scale) of the currency, every other amount *)
(* is in hundredths, called cents.  In the code all of them are doubles.   *)
(***************************************************************************)
EXTENDS Integers

CONSTANTS
  Scale,
  FareRatePerKm,           \* in 1/Scale of the currency
  AppFeePercent,           \* in 1/Scale of a percent
  AppFeeMinimumAmount,     \* in cents
  AppFeeMinimumThreshold   \* in cents

ASSUME FareAssumption ==
  /\ Scale \in Nat \ {0}
  /\ FareRatePerKm \in Nat /\ AppFeePercent \in Nat
  /\ AppFeeMinimumAmount \in Nat /\ AppFeeMinimumThreshold \in Nat

\* A cent, and half of it, in the unit of base fares.
Cent == 10 * Scale
HalfCent == 5 * Scale

\* roundDistanceKm: to three decimals, which is to metres.
RoundDistanceKm(distance) == (distance + 5) \div 10

BaseFare(distance) == RoundDistanceKm(distance) * FareRatePerKm

\* resolveDiscountAmount: a discount above the base fare is refused.  A base
\* fare of 0 takes any discount and gives none.
DiscountAccepted(base, discount) == base = 0 \/ Cent * discount <= base

ResolveDiscountAmount(base, discount) == IF base = 0 THEN 0 ELSE discount

\* calculateMonetaryAmount: rounded to cents.
CalculateMonetaryAmount(value) ==
  IF value <= 0 THEN 0 ELSE (value + HalfCent) \div Cent

\* Mutant: the minimum is also charged at the threshold itself.
AppFeeUpToThreshold(fareAfterDiscount) ==
  IF fareAfterDiscount <= AppFeeMinimumThreshold
    THEN AppFeeMinimumAmount
    ELSE (fareAfterDiscount * AppFeePercent + 50 * Scale) \div (100 * Scale)

CalculateAppFee(fareAfterDiscount) ==
  IF fareAfterDiscount <= 0 \/ fareAfterDiscount < AppFeeMinimumThreshold
    THEN AppFeeMinimumAmount
    ELSE (fareAfterDiscount * AppFeePercent + 50 * Scale) \div (100 * Scale)

\* In hundredths of a percent.
CalculateDiscountPercent(base, discount) ==
  IF base = 0 \/ discount = 0
    THEN 0
    ELSE LET ratio == (20000 * (Cent * discount) + base) \div (2 * base) IN
         IF ratio > 10000 THEN 10000 ELSE ratio

CalculateFare(distance, discount) ==
  LET base  == BaseFare(distance)
      given == ResolveDiscountAmount(base, discount)
      after == CalculateMonetaryAmount(base - Cent * given)
      fee   == CalculateAppFee(after)
  IN  [base |-> base, discount |-> given,
       percent |-> CalculateDiscountPercent(base, given),
       fee |-> fee, final |-> after + fee]

-----------------------------------------------------------------------------
(* The same fare without rounding, in 1/(100 Scale) of the unit of base    *)
(* fares, from the discounted fare `rest' as it was before rounding.       *)

FareWithMinimum(rest) == (100 * Scale) * (rest + Cent * AppFeeMinimumAmount)

FareWithPercentage(rest) == (100 * Scale + AppFeePercent) * rest

ExactFare(rest) ==
  IF rest = 0 \/ rest < Cent * AppFeeMinimumThreshold THEN FareWithMinimum(rest)
                                                      ELSE FareWithPercentage(rest)

\* Rounding `rest' to cents takes it to the threshold, or to nothing: which fee
\* is due then depends on whether it is decided before or after rounding.
RoundingDecides(rest) ==
  \/ rest < Cent * AppFeeMinimumThreshold /\ Cent * AppFeeMinimumThreshold <= rest + HalfCent
  \/ 0 < rest /\ rest < HalfCent

\* How far rounding twice may lead: half a cent for the discounted fare, the
\* fee of that half cent, and half a cent for the fee.
RoundingError == 2 * ((100 * Scale) * HalfCent) + HalfCent * AppFeePercent

Close(final, exact) ==
  LET difference == (100 * Scale) * (Cent * final) - exact IN
  -RoundingError <= difference /\ difference <= RoundingError

FinalIsExact(bill) ==
  LET rest == bill.base - Cent * bill.discount IN
  IF RoundingDecides(rest)
    THEN Close(bill.final, FareWithMinimum(rest)) \/ Close(bill.final, FareWithPercentage(rest))
    ELSE Close(bill.final, ExactFare(rest))

\* The percentage is the discount's share of the base fare, rounded.
PercentIsExact(bill) ==
  LET difference == 2 * (bill.percent * bill.base - 10000 * (Cent * bill.discount)) IN
  -bill.base <= difference /\ difference <= bill.base
=============================================================================
