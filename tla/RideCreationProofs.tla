------------------------- MODULE RideCreationProofs -------------------------
(***************************************************************************)
(* Proofs about RideCreation and the fare it ends with, for any riders,    *)
(* drivers, requests, rates and bounds.                                    *)
(***************************************************************************)
EXTENDS RideCreation, SequenceTheorems, TLAPS

-----------------------------------------------------------------------------
(* The fare.                                                               *)

\* A cent in the unit of base fares is two halves.
LEMMA CentTypes ==
  /\ Scale \in Nat \ {0} /\ Cent \in Nat \ {0} /\ HalfCent \in Nat \ {0}
  /\ Cent = 2 * HalfCent /\ 100 * Scale \in Nat \ {0}
BY FareAssumption, SMT DEF Cent, HalfCent

\* Products of natural numbers are natural, and multiplying keeps an order.
LEMMA Products ==
  /\ \A m, n \in Nat : m * n \in Nat
  /\ \A p \in Nat : \A m, n \in Int : m <= n => p * m <= p * n
BY SMT

\* What \div gives.
LEMMA Quotient ==
  \A n \in Nat, b \in Nat \ {0} :
    n \div b \in Nat /\ b * (n \div b) <= n /\ n < b * (n \div b) + b
BY SMT

\* BaseFare is a natural number, and so is a distance rounded to metres.
LEMMA BaseFareIsNat ==
  ASSUME NEW distance \in Nat
  PROVE  BaseFare(distance) \in Nat
<1>1. RoundDistanceKm(distance) \in Nat
  BY SMT DEF RoundDistanceKm
<1>2. FareRatePerKm \in Nat
  BY FareAssumption
<1> QED
  BY <1>1, <1>2, Products DEF BaseFare

\* calculateMonetaryAmount is within half a cent of what it rounds.
LEMMA RoundedToCents ==
  ASSUME NEW value \in Nat
  PROVE  LET cents == CalculateMonetaryAmount(value) IN
         /\ cents \in Nat
         /\ Cent * cents <= value + HalfCent
         /\ value < Cent * cents + HalfCent
         /\ value = 0 => cents = 0
<1> DEFINE q == (value + HalfCent) \div Cent
<1>1. value + HalfCent \in Nat
  BY CentTypes, SMT
<1>2. q \in Nat /\ Cent * q <= value + HalfCent /\ value + HalfCent < Cent * q + Cent
  BY <1>1, CentTypes, Quotient
<1>3. CalculateMonetaryAmount(value) = IF value <= 0 THEN 0 ELSE q
  BY DEF CalculateMonetaryAmount
<1> HIDE DEF q
<1>4. CASE value = 0
  <2>1. CalculateMonetaryAmount(value) = 0
    BY <1>3, <1>4
  <2>2. Cent * 0 = 0
    BY CentTypes, SMT
  <2> QED
    BY <1>4, <2>1, <2>2, CentTypes
<1>5. CASE value # 0
  <2>1. CalculateMonetaryAmount(value) = q
    BY <1>3, <1>5
  <2>2. Cent * q \in Nat
    BY <1>2, CentTypes, Products
  <2>3. value < Cent * q + HalfCent
    <3> DEFINE product == Cent * q
    <3> HIDE DEF product
    <3> SUFFICES value < product + HalfCent
      BY DEF product
    <3>1. product \in Nat /\ value + HalfCent < product + Cent
      BY <1>2, <2>2 DEF product
    <3> QED
      BY <3>1, CentTypes
  <2> QED
    BY <1>2, <1>5, <2>1, <2>3
<1> QED
  BY <1>4, <1>5

\* calculateAppFee is within half a cent of the percentage, or the minimum.
LEMMA AppFeeRounded ==
  ASSUME NEW after \in Nat
  PROVE  LET fee == CalculateAppFee(after)
             product == after * AppFeePercent
         IN
         /\ fee \in Nat
         /\ after = 0 \/ after < AppFeeMinimumThreshold => fee = AppFeeMinimumAmount
         /\ ~(after = 0 \/ after < AppFeeMinimumThreshold) =>
              /\ (100 * Scale) * fee <= product + 50 * Scale
              /\ product <= (100 * Scale) * fee + 50 * Scale
<1> DEFINE product == after * AppFeePercent
           q == (product + 50 * Scale) \div (100 * Scale)
           part == (100 * Scale) * q
<1>1. /\ product \in Nat /\ AppFeeMinimumAmount \in Nat /\ AppFeeMinimumThreshold \in Nat
      /\ Scale \in Nat
  BY FareAssumption, Products
<1>2. CalculateAppFee(after) = IF after <= 0 \/ after < AppFeeMinimumThreshold
                                 THEN AppFeeMinimumAmount ELSE q
  BY DEF CalculateAppFee
<1> HIDE DEF product
<1>3. product + 50 * Scale \in Nat
  BY <1>1
<1>4. q \in Nat /\ part <= product + 50 * Scale /\ product + 50 * Scale < part + 100 * Scale
  BY <1>3, CentTypes, Quotient
<1> HIDE DEF q
<1>5. part \in Nat
  BY <1>4, CentTypes, Products
<1>6. part = (100 * Scale) * q
  OBVIOUS
<1> HIDE DEF part
<1>7. part <= product + 50 * Scale /\ product <= part + 50 * Scale
  BY <1>1, <1>4, <1>5
<1>8. CASE after = 0 \/ after < AppFeeMinimumThreshold
  BY <1>1, <1>2, <1>8
<1>9. CASE ~(after = 0 \/ after < AppFeeMinimumThreshold)
  <2>1. CalculateAppFee(after) = q
    BY <1>1, <1>2, <1>9
  <2> QED
    BY <1>4, <1>6, <1>7, <1>9, <2>1 DEF product
<1> QED
  BY <1>8, <1>9

\* calculateDiscountPercent rounds the discount's share of the base fare.
LEMMA PercentRounded ==
  ASSUME NEW base \in Nat, NEW discount \in Nat, Cent * discount <= base
  PROVE  LET percent == CalculateDiscountPercent(base, discount) IN
         /\ percent \in 0 .. 10000
         /\ 2 * (percent * base) <= 20000 * (Cent * discount) + base
         /\ 20000 * (Cent * discount) <= 2 * (percent * base) + base
<1> DEFINE percent == CalculateDiscountPercent(base, discount)
           part == Cent * discount
<1>1. part \in Nat /\ part <= base
  BY CentTypes, Products
<1>2. discount = 0 => part = 0
  BY CentTypes, SMT
<1>3. percent = IF base = 0 \/ discount = 0
                  THEN 0
                  ELSE LET ratio == (20000 * part + base) \div (2 * base) IN
                       IF ratio > 10000 THEN 10000 ELSE ratio
  BY DEF CalculateDiscountPercent
<1> HIDE DEF part
<1> SUFFICES /\ percent \in 0 .. 10000
             /\ 2 * (percent * base) <= 20000 * part + base
             /\ 20000 * part <= 2 * (percent * base) + base
  BY DEF part
<1> HIDE DEF percent
<1>4. CASE base = 0 \/ discount = 0
  <2>1. percent = 0 /\ part = 0
    BY <1>1, <1>2, <1>3, <1>4
  <2> QED
    BY <2>1, SMT
<1>5. CASE base # 0 /\ discount # 0
  <2> DEFINE n == 20000 * part + base
             b == 2 * base
             ratio == n \div b
  <2>1. n \in Nat /\ b \in Nat \ {0}
    BY <1>1, <1>5, SMT
  <2>2. percent = IF ratio > 10000 THEN 10000 ELSE ratio
    BY <1>3, <1>5
  <2> HIDE DEF n, b
  <2>3. ratio \in Nat /\ b * ratio <= n /\ n < b * ratio + b
    BY <2>1, Quotient
  <2> HIDE DEF ratio
  <2>4. 2 * base * ratio <= 20000 * part + base /\ 20000 * part + base < 2 * base * ratio + 2 * base
    BY <2>3 DEF n, b
  <2>5. ratio <= 10000
    <3> SUFFICES ASSUME ratio >= 10001 PROVE FALSE
      BY <2>3, SMT
    <3>1. base * 10001 <= base * ratio
      BY <2>3, Products, SMT
    <3> QED
      BY <1>1, <1>5, <2>3, <2>4, <3>1, SMT
  <2>6. percent = ratio
    BY <2>2, <2>3, <2>5, SMT
  <2>7. 2 * base * ratio = 2 * (percent * base)
    BY <2>3, <2>6, SMT
  <2> QED
    BY <1>1, <2>3, <2>4, <2>5, <2>6, <2>7, SMT
<1> QED
  BY <1>4, <1>5

\* Away from the threshold and from zero, the rounded fare is on the same side
\* as the fare before rounding.
LEMMA SameBranch ==
  ASSUME NEW rest \in Nat, ~RoundingDecides(rest)
  PROVE  LET after == CalculateMonetaryAmount(rest) IN
         (after = 0 \/ after < AppFeeMinimumThreshold)
           <=> (rest = 0 \/ rest < Cent * AppFeeMinimumThreshold)
<1> DEFINE after == CalculateMonetaryAmount(rest)
           part == Cent * after
           limit == Cent * AppFeeMinimumThreshold
<1>1. /\ after \in Nat /\ part <= rest + HalfCent /\ rest < part + HalfCent
      /\ rest = 0 => after = 0
  BY RoundedToCents
<1>2. AppFeeMinimumThreshold \in Nat /\ Cent \in Nat /\ HalfCent \in Nat /\ Cent = 2 * HalfCent
  BY FareAssumption, CentTypes
<1> HIDE DEF after
<1>3. part \in Nat /\ limit \in Nat
  BY <1>1, <1>2, Products
<1>4. ~(rest < limit /\ limit <= rest + HalfCent) /\ ~(0 < rest /\ rest < HalfCent)
  BY DEF RoundingDecides
<1>5. after >= AppFeeMinimumThreshold => limit <= part
  BY <1>1, <1>2, Products
<1>6. after < AppFeeMinimumThreshold => part + Cent <= limit
  <2> SUFFICES ASSUME after + 1 <= AppFeeMinimumThreshold PROVE part + Cent <= limit
    BY <1>1, <1>2
  <2>1. Cent * (after + 1) <= limit
    BY <1>1, <1>2, Products
  <2>2. Cent * (after + 1) = part + Cent
    BY <1>1, <1>2, SMT
  <2> QED
    BY <2>1, <2>2
<1>7. after = 0 => part = 0
  BY <1>2, SMT
<1> HIDE DEF part, limit
<1>8. (after = 0 \/ after < AppFeeMinimumThreshold) <=> (rest = 0 \/ rest < limit)
  BY <1>1, <1>2, <1>3, <1>4, <1>5, <1>6, <1>7
<1> QED
  BY <1>8 DEF after, limit

\* With the minimum, only the discounted fare was rounded.
LEMMA MinimumClose ==
  ASSUME NEW rest \in Nat
  PROVE  LET after == CalculateMonetaryAmount(rest) IN
         Close(after + AppFeeMinimumAmount, FareWithMinimum(rest))
<1> DEFINE after == CalculateMonetaryAmount(rest)
           k == 100 * Scale
           m == AppFeeMinimumAmount
<1>1. after \in Nat /\ Cent * after <= rest + HalfCent /\ rest < Cent * after + HalfCent
  BY RoundedToCents
<1>2. m \in Nat /\ AppFeePercent \in Nat /\ k \in Nat /\ Cent \in Nat /\ HalfCent \in Nat
  BY FareAssumption, CentTypes
<1> HIDE DEF after, k, m
<1>3. Cent * after \in Nat /\ Cent * m \in Nat /\ HalfCent * AppFeePercent \in Nat
  BY <1>1, <1>2, Products
<1>4. PICK part \in Nat, minimum \in Nat, share \in Nat :
        part = Cent * after /\ minimum = Cent * m /\ share = HalfCent * AppFeePercent
  BY <1>3
<1>5. /\ k * part \in Nat /\ k * rest \in Nat /\ k * HalfCent \in Nat /\ k * minimum \in Nat
  BY <1>2, Products
<1>6. k * part <= k * (rest + HalfCent) /\ k * rest <= k * (part + HalfCent)
  <2>1. part <= rest + HalfCent /\ rest <= part + HalfCent
    BY <1>1, <1>2, <1>4
  <2> QED
    BY <1>2, <2>1, Products
<1>7. /\ k * (rest + HalfCent) = k * rest + k * HalfCent
      /\ k * (part + HalfCent) = k * part + k * HalfCent
      /\ k * (rest + minimum) = k * rest + k * minimum
      /\ k * (part + minimum) = k * part + k * minimum
  BY <1>2, <1>4, SMT
<1>8. Cent * (after + m) = part + minimum
  BY <1>1, <1>2, <1>4, SMT
<1>9. PICK kp \in Nat, kr \in Nat, kh \in Nat, km \in Nat :
        kp = k * part /\ kr = k * rest /\ kh = k * HalfCent /\ km = k * minimum
  BY <1>5
<1>10. kp <= kr + kh /\ kr <= kp + kh
  BY <1>6, <1>7, <1>9
<1>11. FareWithMinimum(rest) = kr + km
  BY <1>4, <1>7, <1>9 DEF FareWithMinimum, k, m
<1>12. (100 * Scale) * (Cent * (after + m)) = kp + km
  BY <1>7, <1>8, <1>9 DEF k
<1>13. RoundingError = 2 * kh + share
  BY <1>4, <1>9 DEF RoundingError, k
<1>14. /\ -(2 * kh + share) <= (kp + km) - (kr + km)
       /\ (kp + km) - (kr + km) <= 2 * kh + share
  BY <1>10
<1>15. Close(after + m, FareWithMinimum(rest))
  BY <1>11, <1>12, <1>13, <1>14 DEF Close
<1> QED
  BY <1>15 DEF after, m

\* With the percentage, the discounted fare and its fee were rounded.
LEMMA PercentageClose ==
  ASSUME NEW rest \in Nat,
         CalculateMonetaryAmount(rest) # 0,
         CalculateMonetaryAmount(rest) >= AppFeeMinimumThreshold
  PROVE  LET after == CalculateMonetaryAmount(rest) IN
         Close(after + CalculateAppFee(after), FareWithPercentage(rest))
<1> DEFINE after == CalculateMonetaryAmount(rest)
           fee == CalculateAppFee(after)
           k == 100 * Scale
           p == AppFeePercent
<1>1. after \in Nat /\ Cent * after <= rest + HalfCent /\ rest < Cent * after + HalfCent
  BY RoundedToCents
<1>2. /\ p \in Nat /\ k \in Nat /\ Cent \in Nat /\ HalfCent \in Nat /\ Scale \in Nat
      /\ AppFeeMinimumThreshold \in Nat /\ Cent = 2 * HalfCent
  BY FareAssumption, CentTypes
<1>3. /\ fee \in Nat
      /\ k * fee <= after * p + 50 * Scale
      /\ after * p <= k * fee + 50 * Scale
  <2> HIDE DEF after
  <2>1. ~(after = 0 \/ after < AppFeeMinimumThreshold)
    BY <1>1, <1>2 DEF after
  <2> QED
    BY <1>1, <2>1, AppFeeRounded
<1>4. 50 * Scale \in Nat /\ Cent * (50 * Scale) = k * HalfCent
  BY <1>2, SMT DEF Cent, HalfCent
<1> HIDE DEF after, fee, k, p
<1>5. /\ Cent * after \in Nat /\ after * p \in Nat /\ k * fee \in Nat
  BY <1>1, <1>2, <1>3, Products
<1>6. PICK part \in Nat, product \in Nat, kf \in Nat, half \in Nat :
        part = Cent * after /\ product = after * p /\ kf = k * fee /\ half = 50 * Scale
  BY <1>4, <1>5
<1>7. /\ Cent * kf \in Nat /\ Cent * product \in Nat /\ k * part \in Nat /\ k * rest \in Nat
      /\ p * part \in Nat /\ p * rest \in Nat /\ p * HalfCent \in Nat /\ k * HalfCent \in Nat
  BY <1>2, <1>6, Products
<1>8. Cent * kf <= Cent * (product + half) /\ Cent * product <= Cent * (kf + half)
  BY <1>2, <1>3, <1>6, Products
<1>9. part <= rest + HalfCent /\ rest <= part + HalfCent
  BY <1>1, <1>2, <1>6
<1>10. k * part <= k * (rest + HalfCent) /\ k * rest <= k * (part + HalfCent)
  BY <1>2, <1>9, Products
<1>11. p * part <= p * (rest + HalfCent) /\ p * rest <= p * (part + HalfCent)
  BY <1>2, <1>9, Products
<1>12. /\ k * (rest + HalfCent) = k * rest + k * HalfCent
       /\ k * (part + HalfCent) = k * part + k * HalfCent
       /\ p * (rest + HalfCent) = p * rest + p * HalfCent
       /\ p * (part + HalfCent) = p * part + p * HalfCent
  BY <1>2, <1>6, SMT
<1>13. /\ Cent * (product + half) = Cent * product + Cent * half
       /\ Cent * (kf + half) = Cent * kf + Cent * half
  BY <1>2, <1>6, SMT
<1>14. Cent * product = p * part
  <2>1. Cent * (after * p) = p * (Cent * after)
    BY <1>1, <1>2, SMT
  <2> QED
    BY <1>6, <2>1
<1>15. k * (Cent * (after + fee)) = k * part + Cent * kf
  <2>1. k * (Cent * (after + fee)) = k * (Cent * after) + Cent * (k * fee)
    BY <1>1, <1>2, <1>3, SMT
  <2> QED
    BY <1>6, <2>1
<1>16. (k + p) * rest = k * rest + p * rest
  BY <1>2, SMT
<1>17. HalfCent * p = p * HalfCent
  BY <1>2, SMT
<1>18. PICK ckf \in Nat, kp \in Nat, kr \in Nat, pp \in Nat, pr \in Nat, ph \in Nat, kh \in Nat :
         /\ ckf = Cent * kf /\ kp = k * part /\ kr = k * rest /\ pp = p * part
         /\ pr = p * rest /\ ph = p * HalfCent /\ kh = k * HalfCent
  BY <1>7
<1>19. Cent * half = kh
  BY <1>4, <1>6, <1>18
<1>20. /\ ckf <= pp + kh /\ pp <= ckf + kh
       /\ kp <= kr + kh /\ kr <= kp + kh
       /\ pp <= pr + ph /\ pr <= pp + ph
  BY <1>8, <1>10, <1>11, <1>12, <1>13, <1>14, <1>18, <1>19
<1>21. /\ -(2 * kh + ph) <= (kp + ckf) - (kr + pr)
       /\ (kp + ckf) - (kr + pr) <= 2 * kh + ph
  BY <1>20
<1>22. RoundingError = 2 * kh + ph
  BY <1>17, <1>18 DEF RoundingError, k, p
<1>23. FareWithPercentage(rest) = kr + pr
  BY <1>16, <1>18 DEF FareWithPercentage, k, p
<1>24. (100 * Scale) * (Cent * (after + fee)) = kp + ckf
  BY <1>15, <1>18 DEF k
<1>25. Close(after + fee, FareWithPercentage(rest))
  BY <1>21, <1>22, <1>23, <1>24 DEF Close
<1> QED
  BY <1>25 DEF after, fee

\* calculateFare: whatever the rates, the distance and the discount, the bill
\* is exact up to the rounding.
LEMMA FareRounded ==
  ASSUME NEW distance \in Nat, NEW discount \in Nat,
         DiscountAccepted(BaseFare(distance), discount)
  PROVE  LET bill == CalculateFare(distance, discount) IN
         bill \in Bill /\ FinalIsExact(bill) /\ PercentIsExact(bill)
<1> DEFINE base  == BaseFare(distance)
           given == ResolveDiscountAmount(base, discount)
           rest  == base - Cent * given
           after == CalculateMonetaryAmount(rest)
           fee   == CalculateAppFee(after)
           percent == CalculateDiscountPercent(base, given)
           bill  == [base |-> base, discount |-> given, percent |-> percent,
                     fee |-> fee, final |-> after + fee]
<1>1. CalculateFare(distance, discount) = bill
  BY DEF CalculateFare
<1>2. base \in Nat
  BY BaseFareIsNat
<1>3. given \in Nat /\ Cent * given \in Nat /\ Cent * given <= base
  <2>1. base = 0 \/ Cent * discount <= base
    BY DEF DiscountAccepted
  <2>2. given = IF base = 0 THEN 0 ELSE discount
    BY DEF ResolveDiscountAmount
  <2> HIDE DEF base, given
  <2>3. Cent * 0 = 0
    BY CentTypes, SMT
  <2>4. given \in Nat
    BY <2>2
  <2>5. Cent * given <= base
    BY <1>2, <2>1, <2>2, <2>3
  <2> QED
    BY <2>4, <2>5, CentTypes, Products
<1> HIDE DEF base, given
<1>4. rest \in Nat
  BY <1>2, <1>3
<1>5. after \in Nat
  <2> HIDE DEF rest
  <2> QED
    BY <1>4, RoundedToCents
<1>6. /\ percent \in 0 .. 10000
      /\ 2 * (percent * base) <= 20000 * (Cent * given) + base
      /\ 20000 * (Cent * given) <= 2 * (percent * base) + base
  BY <1>2, <1>3, PercentRounded
<1>7. fee \in Nat /\ (after = 0 \/ after < AppFeeMinimumThreshold => fee = AppFeeMinimumAmount)
  <2> HIDE DEF after
  <2> QED
    BY <1>5, AppFeeRounded
<1>8. AppFeeMinimumThreshold \in Nat
  BY FareAssumption
<1>9. bill \in Bill
  <2> HIDE DEF after, fee, percent
  <2> QED
    BY <1>2, <1>3, <1>5, <1>6, <1>7 DEF Bill
<1>10. PercentIsExact(bill)
  <2> DEFINE share == percent * base
             part == Cent * given
  <2>1. share \in Nat
    <3> HIDE DEF percent
    <3> QED
      BY <1>2, <1>6, Products
  <2>2. 2 * share <= 20000 * part + base /\ 20000 * part <= 2 * share + base /\ part \in Nat
    BY <1>3, <1>6
  <2> HIDE DEF share, part
  <2>3. -base <= 2 * (share - 10000 * part) /\ 2 * (share - 10000 * part) <= base
    BY <1>2, <2>1, <2>2, SMT
  <2>4. -base <= 2 * (percent * base - 10000 * (Cent * given))
        /\ 2 * (percent * base - 10000 * (Cent * given)) <= base
    BY <2>3 DEF share, part
  <2> HIDE DEF percent, fee, after
  <2> QED
    BY <2>4 DEF PercentIsExact
<1>11. /\ after = 0 \/ after < AppFeeMinimumThreshold =>
            Close(after + fee, FareWithMinimum(rest))
       /\ ~(after = 0 \/ after < AppFeeMinimumThreshold) =>
            Close(after + fee, FareWithPercentage(rest))
  <2> HIDE DEF rest
  <2>1. CASE after = 0 \/ after < AppFeeMinimumThreshold
    <3>1. fee = AppFeeMinimumAmount
      BY <1>7, <2>1
    <3>2. Close(after + AppFeeMinimumAmount, FareWithMinimum(rest))
      BY <1>4, MinimumClose
    <3> QED
      BY <2>1, <3>1, <3>2
  <2>2. CASE ~(after = 0 \/ after < AppFeeMinimumThreshold)
    <3>1. after # 0 /\ after >= AppFeeMinimumThreshold
      <4> HIDE DEF after
      <4> QED
        BY <1>5, <1>8, <2>2
    <3>2. Close(after + fee, FareWithPercentage(rest))
      BY <1>4, <3>1, PercentageClose
    <3> QED
      BY <2>2, <3>2
  <2> QED
    BY <2>1, <2>2
<1>12. ~RoundingDecides(rest) => Close(after + fee, ExactFare(rest))
  <2> HIDE DEF rest
  <2> SUFFICES ASSUME ~RoundingDecides(rest) PROVE Close(after + fee, ExactFare(rest))
    OBVIOUS
  <2>1. (after = 0 \/ after < AppFeeMinimumThreshold)
          <=> (rest = 0 \/ rest < Cent * AppFeeMinimumThreshold)
    BY <1>4, SameBranch
  <2> HIDE DEF after, fee
  <2> QED
    BY <1>11, <2>1 DEF ExactFare
<1>13. FinalIsExact(bill)
  <2>1. bill.base = base /\ bill.discount = given /\ bill.final = after + fee
    BY DEF bill
  <2> HIDE DEF bill, after, fee
  <2>2. bill.base - Cent * bill.discount = rest
    BY <2>1
  <2> HIDE DEF rest
  <2> QED
    BY <1>11, <1>12, <2>1, <2>2 DEF FinalIsExact
<1> QED
  BY <1>1, <1>9, <1>10, <1>13

-----------------------------------------------------------------------------
(* The inductive invariant.                                                *)

\* A request that began has a rider and saw no more rides than there are, and
\* it has no answer while it works.
RequestInv ==
  \A q \in Requests :
    /\ request[q].pc # "idle" => request[q].rider \in Riders
    /\ request[q].pc = "idle" => request[q].route = "idle"
    /\ request[q].pc \in {"both", "load", "offer"} => request[q].answer = "none"
    /\ request[q].seen <= Len(rides)

\* The request of a stored ride is past the commit, is the only one of that
\* ride, and was not refused.
StoredInv ==
  \A i \in DOMAIN rides :
    /\ request[rides[i].of].pc \notin {"idle", "both"}
    /\ request[rides[i].of].answer \in {"none", "internal", "created"}
    /\ request[rides[i].of].rider = rides[i].rider
    /\ \A j \in DOMAIN rides : rides[j].of = rides[i].of => i = j

IsOpen(x) == ~Finished(x.status)

\* A request before its commit began before every open ride of its rider, save
\* those that were written back.
SeenInv ==
  \A q \in Requests, i \in DOMAIN rides :
    request[q].pc = "both" /\ IsOpen(rides[i]) /\ rides[i].rider = request[q].rider
      => request[q].seen < i \/ rides[i].revived

\* While a ride is open and was not written back, every later ride of its rider
\* comes from a request that began before it was committed.
BornInv ==
  \A i, j \in DOMAIN rides :
    i < j /\ rides[i].rider = rides[j].rider /\ IsOpen(rides[i])
      => request[rides[j].of].seen < i \/ rides[i].revived

\* A handler in flight has read a ride that is there.
HandlerInv ==
  \A h \in Handlers : handler[h].to # "none" => handler[h].ride \in DOMAIN rides

\* A job, and what came of it, belongs to a request with the id of the job.
JobInv ==
  /\ \A id \in DOMAIN jobs :
       jobs[id].of # Nothing => request[jobs[id].of].pc # "idle" /\ JobId(jobs[id].of) = id
  /\ \A q \in Requests :
       request[q].estimate # Nothing =>
         request[request[q].estimate].pc # "idle" /\ JobId(request[q].estimate) = JobId(q)
  /\ \A i \in DOMAIN rides :
       request[rides[i].estimate].pc # "idle" /\ JobId(rides[i].estimate) = JobId(rides[i].of)

CreationInv ==
  /\ CreationTypeOK /\ RequestInv /\ StoredInv /\ SeenInv /\ JobInv /\ HandlerInv
  /\ BornInv /\ FareIsExact

\* The types of the rows and of their fields.
LEMMA RowTypes ==
  ASSUME CreationTypeOK
  PROVE  /\ \A i \in DOMAIN rides : /\ i \in Nat /\ i <= Len(rides)
                                    /\ rides[i] \in Ride
                                    /\ rides[i].of \in Requests
                                    /\ rides[i].estimate \in Requests
         /\ \A q \in Requests : request[q].estimate \in Requests \cup {Nothing}
         /\ \A id \in DOMAIN jobs : jobs[id].of \in Requests \cup {Nothing}
<1>1. \A i \in DOMAIN rides : i \in Nat /\ i <= Len(rides) /\ rides[i] \in Ride
  BY SMT DEF CreationTypeOK
<1>2. \A x \in Ride : x.of \in Requests /\ x.estimate \in Requests
  BY DEF Ride
<1>3. \A q \in Requests : request[q].estimate \in Requests \cup {Nothing}
  BY DEF CreationTypeOK, Request
<1>4. \A id \in DOMAIN jobs : jobs[id].of \in Requests \cup {Nothing}
  BY DEF CreationTypeOK, Job
<1> QED
  BY <1>1, <1>2, <1>3, <1>4

\* The job id of a request that began is one of the queue.
LEMMA JobIdKnown ==
  ASSUME CreationTypeOK, RequestInv, NEW q \in Requests, request[q].pc # "idle"
  PROVE  JobId(q) \in Riders \X (0 .. MaxClock)
<1>1. request[q].rider \in Riders /\ request[q].stamp \in 0 .. MaxClock
  BY DEF CreationTypeOK, RequestInv, Request
<1> QED
  BY <1>1 DEF JobId

\* No handler is in flight.
LEMMA NoHandlerTyped == NoHandler \in Handler /\ NoHandler.to = "none"
BY DEF NoHandler, Handler

\* The invariant holds at the start.
LEMMA InitCreationInv == Init => CreationInv
<1> SUFFICES ASSUME Init PROVE CreationInv
  OBVIOUS
<1>1. rides = << >> /\ DOMAIN rides = {} /\ Len(rides) = 0
  BY DEF Init
<1>2. \A q \in Requests : request[q] = NoRequest
  BY DEF Init
<1>3. CreationTypeOK
  <2>1. NoRequest \in Request
    BY CreationAssumption, SMT DEF NoRequest, Request
  <2>2. NoJob \in Job
    BY DEF NoJob, Job
  <2>3. 0 \in 0 .. MaxClock /\ 0 \in 0 .. MaxFaults /\ 0 \in 0 .. MaxCalls
    BY CreationAssumption, SMT
  <2>4. rides \in Seq(Ride)
    BY <1>1
  <2> QED
    BY <2>1, <2>2, <2>3, <2>4, NoHandlerTyped DEF Init, CreationTypeOK
<1>4. RequestInv
  BY <1>1, <1>2, SMT DEF RequestInv, NoRequest
<1>5. StoredInv /\ SeenInv /\ BornInv /\ FareIsExact
  BY <1>1 DEF StoredInv, SeenInv, BornInv, FareIsExact
<1>6. JobInv
  <2>1. \A id \in DOMAIN jobs : jobs[id].of = Nothing
    BY DEF Init, NoJob
  <2>2. \A q \in Requests : request[q].estimate = Nothing
    BY <1>2 DEF NoRequest
  <2> QED
    BY <1>1, <2>1, <2>2 DEF JobInv
<1>7. HandlerInv
  BY NoHandlerTyped DEF Init, HandlerInv
<1> QED
  BY <1>3, <1>4, <1>5, <1>6, <1>7 DEF CreationInv

-----------------------------------------------------------------------------
(* Steps that leave the rides alone.                                       *)

\* How a request may change in such a step.
Moves(x, y) ==
  /\ y.rider = x.rider /\ y.stamp = x.stamp /\ y.seen = x.seen
  /\ y.pc = "idle" <=> x.pc = "idle"
  /\ y.pc = "idle" => y.route = "idle"
  /\ y.pc = "both" => x.pc = "both"
  /\ y.pc \in {"both", "load", "offer"} => y.answer = "none"
  /\ x.pc \notin {"idle", "both"} => y.answer \in {x.answer, "internal"}

\* All but the jobs and the types follow from that.
LEMMA MovesKeepRows ==
  ASSUME CreationInv, rides' = rides,
         \A q \in Requests : Moves(request[q], request'[q])
  PROVE  /\ RequestInv' /\ StoredInv' /\ SeenInv'
         /\ BornInv' /\ FareIsExact'
<1> USE DEF CreationInv
<1>1. \A i \in DOMAIN rides : rides[i] \in Ride /\ rides[i].of \in Requests
  BY RowTypes
<1>2. RequestInv'
  BY DEF RequestInv, Moves
<1>3. StoredInv'
  BY <1>1 DEF StoredInv, Moves
<1>4. SeenInv'
  BY DEF SeenInv, Moves
<1>5. BornInv'
  BY <1>1 DEF BornInv, Moves
<1>6. FareIsExact'
  BY DEF FareIsExact
<1> QED
  BY <1>2, <1>3, <1>4, <1>5, <1>6

\* And the jobs, when their requests stay the same.
LEMMA MovesKeepJobs ==
  ASSUME CreationInv, rides' = rides,
         \A q \in Requests : Moves(request[q], request'[q]),
         \A q \in Requests : request'[q].estimate \in {request[q].estimate, Nothing},
         DOMAIN jobs' = DOMAIN jobs,
         \A id \in DOMAIN jobs : jobs'[id].of \in {jobs[id].of, Nothing}
  PROVE  JobInv'
<1> USE DEF CreationInv
<1>1. \A q \in Requests : JobId(q)' = JobId(q)
  BY DEF JobId, Moves
<1>2. /\ \A i \in DOMAIN rides : rides[i].of \in Requests /\ rides[i].estimate \in Requests
      /\ \A q \in Requests : request[q].estimate \in Requests \cup {Nothing}
      /\ \A id \in DOMAIN jobs : jobs[id].of \in Requests \cup {Nothing}
  BY RowTypes
<1> QED
  BY <1>1, <1>2 DEF JobInv, Moves

\* A fault is counted within its bound.
LEMMA FaultTyped ==
  ASSUME faults \in 0 .. MaxFaults, Fault
  PROVE  faults' \in 0 .. MaxFaults
BY CreationAssumption, SMT DEF Fault

\* One request moves and the jobs stay: the steps of a request between its
\* start and its commit.
LEMMA RequestStepKeepsInv ==
  ASSUME CreationInv, rides' = rides, clock' = clock, faults' \in 0 .. MaxFaults,
         UNCHANGED <<jobs, handler, calls>>,
         NEW q \in Requests, NEW y \in Request,
         request' = [request EXCEPT ![q] = y],
         Moves(request[q], y), y.estimate \in {request[q].estimate, Nothing}
  PROVE  CreationInv'
<1> USE DEF CreationInv
<1>1. \A r \in Requests : request'[r] = IF r = q THEN y ELSE request[r]
  BY DEF CreationTypeOK
<1>2. \A r \in Requests : Moves(request[r], request'[r])
  <2>1. \A r \in Requests : Moves(request[r], request[r])
    BY DEF Moves, RequestInv
  <2> QED
    BY <1>1, <2>1
<1>3. CreationTypeOK'
  BY <1>1 DEF CreationTypeOK
<1>4. JobInv'
  BY <1>1, <1>2, MovesKeepJobs
<1>5. HandlerInv'
  BY DEF HandlerInv
<1> QED
  BY <1>2, <1>3, <1>4, <1>5, MovesKeepRows

\* A rejected promise moves its request.
LEMMA RejectedMoves ==
  ASSUME NEW x \in Request, x.pc # "idle",
         x.pc \in {"both", "load", "offer"} => x.answer = "none",
         NEW a \in {"badRequest", "internal"}
  PROVE  /\ Rejected(x, a) \in Request /\ Moves(x, Rejected(x, a))
         /\ Rejected(x, a).estimate = x.estimate
BY DEF Rejected, Request, Moves

\* The steps of a request that only change its own record.
LEMMA RequestStepsKeepInv ==
  ASSUME CreationInv, NEW q \in Requests,
         \/ CreateQueueEvents(q) \/ QueueFails(q) \/ Timeout(q)
         \/ \E drivers \in Nearby : GetNearbyDrivers(q, drivers)
         \/ NearbyDriversFail(q) \/ NoDriverNearby(q) \/ CreateFails(q)
         \/ LoadRide(q) \/ LoadFails(q)
  PROVE  CreationInv'
<1> DEFINE x == request[q]
<1>1. /\ x \in Request
      /\ x.pc = "idle" => x.route = "idle"
      /\ x.pc \in {"both", "load", "offer"} => x.answer = "none"
      /\ request \in [Requests -> Request] /\ faults \in 0 .. MaxFaults
  BY DEF CreationInv, CreationTypeOK, RequestInv
<1>2. CASE CreateQueueEvents(q)
  <2> DEFINE y == [x EXCEPT !.route = "add"]
  <2>1. y \in Request /\ Moves(x, y) /\ y.estimate = x.estimate
    BY <1>1, <1>2 DEF CreateQueueEvents, Request, Moves
  <2>2. request' = [request EXCEPT ![q] = y]
    BY <1>2 DEF CreateQueueEvents
  <2> HIDE DEF y
  <2> QED
    BY <1>1, <1>2, <2>1, <2>2, RequestStepKeepsInv DEF CreateQueueEvents
<1>3. CASE QueueFails(q)
  <2>1. x.pc # "idle"
    BY <1>1, <1>3 DEF QueueFails
  <2>2. faults' \in 0 .. MaxFaults
    BY <1>1, <1>3, FaultTyped DEF QueueFails
  <2>3. request' = [request EXCEPT ![q] = Rejected(x, "internal")]
    BY <1>3 DEF QueueFails
  <2> QED
    BY <1>1, <1>3, <2>1, <2>2, <2>3, RejectedMoves, RequestStepKeepsInv DEF QueueFails
<1>4. CASE Timeout(q)
  <2>1. x.pc # "idle"
    BY <1>1, <1>4 DEF Timeout
  <2>2. request' = [request EXCEPT ![q] = Rejected(x, "badRequest")]
    BY <1>4 DEF Timeout
  <2> QED
    BY <1>1, <1>4, <2>1, <2>2, RejectedMoves, RequestStepKeepsInv DEF Timeout
<1>5. CASE \E drivers \in Nearby : GetNearbyDrivers(q, drivers)
  <2> PICK drivers \in Nearby : GetNearbyDrivers(q, drivers)
    BY <1>5
  <2> DEFINE y == [x EXCEPT !.drivers = drivers]
  <2>1. y \in Request /\ Moves(x, y) /\ y.estimate = x.estimate
    BY <1>1 DEF GetNearbyDrivers, Request, Moves
  <2>2. request' = [request EXCEPT ![q] = y]
    BY DEF GetNearbyDrivers
  <2> HIDE DEF y
  <2> QED
    BY <1>1, <2>1, <2>2, RequestStepKeepsInv DEF GetNearbyDrivers
<1>6. CASE NearbyDriversFail(q) \/ CreateFails(q) \/ LoadFails(q)
  <2> DEFINE y == [x EXCEPT !.pc = "catch", !.answer = "internal"]
  <2>1. x.pc \in {"both", "load"}
    BY <1>6 DEF NearbyDriversFail, CreateFails, LoadFails, BothKnown
  <2>2. y \in Request /\ Moves(x, y) /\ y.estimate = x.estimate
    BY <1>1, <2>1 DEF Request, Moves
  <2>3. request' = [request EXCEPT ![q] = y]
    BY <1>6 DEF NearbyDriversFail, CreateFails, LoadFails
  <2>4. faults' \in 0 .. MaxFaults
    BY <1>1, <1>6, FaultTyped DEF NearbyDriversFail, CreateFails, LoadFails
  <2>5. UNCHANGED <<rides, jobs, handler, calls, clock>>
    BY <1>6 DEF NearbyDriversFail, CreateFails, LoadFails
  <2> HIDE DEF y
  <2> QED
    BY <2>2, <2>3, <2>4, <2>5, RequestStepKeepsInv
<1>7. CASE NoDriverNearby(q)
  <2> DEFINE y == [x EXCEPT !.pc = "catch", !.answer = "noDriver"]
  <2>1. y \in Request /\ Moves(x, y) /\ y.estimate = x.estimate
    BY <1>1, <1>7 DEF NoDriverNearby, BothKnown, Request, Moves
  <2>2. request' = [request EXCEPT ![q] = y]
    BY <1>7 DEF NoDriverNearby
  <2> HIDE DEF y
  <2> QED
    BY <1>1, <1>7, <2>1, <2>2, RequestStepKeepsInv DEF NoDriverNearby
<1>8. CASE LoadRide(q)
  <2> DEFINE y == [x EXCEPT !.pc = "offer"]
  <2>1. y \in Request /\ Moves(x, y) /\ y.estimate = x.estimate
    BY <1>1, <1>8 DEF LoadRide, Request, Moves
  <2>2. request' = [request EXCEPT ![q] = y]
    BY <1>8 DEF LoadRide
  <2> HIDE DEF y
  <2> QED
    BY <1>1, <1>8, <2>1, <2>2, RequestStepKeepsInv DEF LoadRide
<1> QED
  BY <1>2, <1>3, <1>4, <1>5, <1>6, <1>7, <1>8

-----------------------------------------------------------------------------
(* The queue.                                                              *)

\* Queue.remove leaves jobs of the same requests.
LEMMA RemoveKeepsJobs ==
  ASSUME jobs \in [Riders \X (0 .. MaxClock) -> Job], NEW k, Remove(k)
  PROVE  /\ jobs' \in [Riders \X (0 .. MaxClock) -> Job]
         /\ DOMAIN jobs' = DOMAIN jobs
         /\ \A id \in DOMAIN jobs : jobs'[id].of \in {jobs[id].of, Nothing}
<1>1. NoJob \in Job /\ NoJob.of = Nothing
  BY DEF NoJob, Job
<1> HIDE DEF NoJob
<1>2. jobs' = [jobs EXCEPT ![k] = IF jobs[k].state = "active" THEN jobs[k] ELSE NoJob]
  BY DEF Remove
<1>3. \A id \in Riders \X (0 .. MaxClock) : jobs'[id] \in {jobs[id], NoJob}
  BY <1>2
<1> QED
  BY <1>1, <1>2, <1>3

\* The steps that take jobs on or away.
LEMMA QueueStepsKeepInv ==
  ASSUME CreationInv,
         \/ \E q \in Requests : RemoveOldJob(q) \/ CreateRideCatch(q)
         \/ \E id \in DOMAIN jobs : TakeJob(id) \/ EstimateFails(id)
         \/ Crash
  PROVE  CreationInv'
<1>1. /\ request \in [Requests -> Request] /\ faults \in 0 .. MaxFaults
      /\ jobs \in [Riders \X (0 .. MaxClock) -> Job]
      /\ \A q \in Requests : /\ request[q] \in Request
                             /\ request[q].pc = "idle" => request[q].route = "idle"
                             /\ request[q].pc \in {"both", "load", "offer"}
                                  => request[q].answer = "none"
  BY DEF CreationInv, CreationTypeOK, RequestInv
<1>2. \A q \in Requests : Moves(request[q], request[q])
  BY <1>1 DEF Moves
<1>h. NoHandler \in Handler /\ NoHandler.to = "none"
  BY NoHandlerTyped
<1> HIDE DEF NoHandler
<1> SUFFICES /\ rides' = rides /\ clock' = clock /\ faults' \in 0 .. MaxFaults
             /\ calls' = calls
             /\ handler' = handler \/ handler' = [h \in Handlers |-> NoHandler]
             /\ request' \in [Requests -> Request]
             /\ \A q \in Requests : Moves(request[q], request'[q])
             /\ \A q \in Requests : request'[q].estimate \in {request[q].estimate, Nothing}
             /\ jobs' \in [Riders \X (0 .. MaxClock) -> Job]
             /\ DOMAIN jobs' = DOMAIN jobs
             /\ \A id \in DOMAIN jobs : jobs'[id].of \in {jobs[id].of, Nothing}
  <2>1. CreationTypeOK'
    BY <1>h DEF CreationInv, CreationTypeOK
  <2>2. HandlerInv'
    BY <1>h DEF CreationInv, HandlerInv
  <2> QED
    BY <2>1, <2>2, MovesKeepRows, MovesKeepJobs DEF CreationInv
<1>3. CASE \E q \in Requests : RemoveOldJob(q)
  <2> PICK q \in Requests : RemoveOldJob(q)
    BY <1>3
  <2> DEFINE y == [request[q] EXCEPT !.route = "events"]
  <2>1. y \in Request /\ Moves(request[q], y) /\ y.estimate = request[q].estimate
    BY <1>1 DEF RemoveOldJob, Request, Moves
  <2>2. request' = [request EXCEPT ![q] = y]
    BY DEF RemoveOldJob
  <2> HIDE DEF y
  <2>3. \A r \in Requests : request'[r] = IF r = q THEN y ELSE request[r]
    BY <1>1, <2>2
  <2> QED
    BY <1>1, <1>2, <2>1, <2>2, <2>3, RemoveKeepsJobs DEF RemoveOldJob
<1>4. CASE \E q \in Requests : CreateRideCatch(q)
  <2> PICK q \in Requests : CreateRideCatch(q)
    BY <1>4
  <2> DEFINE y == [request[q] EXCEPT !.pc = "done", !.answer = request[q].answer,
                                     !.estimate = Nothing, !.drivers = Nothing]
  <2>1. y \in Request /\ Moves(request[q], y) /\ y.estimate = Nothing
    BY <1>1 DEF CreateRideCatch, Request, Moves
  <2>2. request' = [request EXCEPT ![q] = y]
    BY DEF CreateRideCatch, Answered
  <2> HIDE DEF y
  <2>3. \A r \in Requests : request'[r] = IF r = q THEN y ELSE request[r]
    BY <1>1, <2>2
  <2> QED
    BY <1>1, <1>2, <2>1, <2>2, <2>3, RemoveKeepsJobs DEF CreateRideCatch
<1>5. CASE \E id \in DOMAIN jobs : TakeJob(id)
  <2> PICK id \in DOMAIN jobs : TakeJob(id)
    BY <1>5
  <2>1. \A x \in Job : [x EXCEPT !.state = "active"] \in Job
                       /\ [x EXCEPT !.state = "active"].of = x.of
    BY DEF Job
  <2>2. jobs' = [jobs EXCEPT ![id] = [jobs[id] EXCEPT !.state = "active"]]
    BY DEF TakeJob
  <2> QED
    BY <1>1, <1>2, <2>1, <2>2 DEF TakeJob
<1>6. CASE \E id \in DOMAIN jobs : EstimateFails(id)
  <2> PICK id \in DOMAIN jobs : EstimateFails(id)
    BY <1>6
  <2>1. \A x \in Job : [x EXCEPT !.state = "failed"] \in Job
                       /\ [x EXCEPT !.state = "failed"].of = x.of
    BY DEF Job
  <2>2. jobs' = [jobs EXCEPT ![id] = [jobs[id] EXCEPT !.state = "failed"]]
    BY DEF EstimateFails
  <2>3. \A q \in Requests :
          request'[q] = request[q] \/ ( /\ request[q].route = "wait"
                                        /\ request'[q] = Rejected(request[q], "badRequest"))
    BY DEF EstimateFails
  <2>4. \A q \in Requests :
          /\ request'[q] \in Request /\ Moves(request[q], request'[q])
          /\ request'[q].estimate = request[q].estimate
    BY <1>1, <1>2, <2>3, RejectedMoves
  <2>5. request' \in [Requests -> Request]
    BY <2>4 DEF EstimateFails
  <2>6. faults' \in 0 .. MaxFaults
    BY <1>1, FaultTyped DEF EstimateFails
  <2> QED
    BY <1>1, <2>1, <2>2, <2>4, <2>5, <2>6 DEF EstimateFails
<1>7. CASE Crash
  <2>1. \A q \in Requests :
          /\ request'[q] \in Request /\ Moves(request[q], request'[q])
          /\ request'[q].estimate = request[q].estimate
    <3> SUFFICES ASSUME NEW q \in Requests
                 PROVE  /\ request'[q] \in Request /\ Moves(request[q], request'[q])
                        /\ request'[q].estimate = request[q].estimate
      OBVIOUS
    <3> DEFINE x == request[q]
               pc == IF x.pc \in {"idle", "done"} THEN x.pc ELSE "dead"
               route == IF x.route = "idle" THEN x.route ELSE "ended"
    <3>1. request'[q] = [x EXCEPT !.pc = pc, !.route = route]
      BY <1>7 DEF Crash
    <3>2. /\ x \in Request
          /\ x.pc = "idle" => x.route = "idle"
          /\ pc \in {"idle", "done", "dead"} /\ route \in {"idle", "ended"}
          /\ pc = "idle" <=> x.pc = "idle"
          /\ route = "idle" <=> x.route = "idle"
      BY <1>1
    <3> HIDE DEF x, pc, route
    <3>3. /\ [x EXCEPT !.pc = pc, !.route = route] \in Request
          /\ Moves(x, [x EXCEPT !.pc = pc, !.route = route])
          /\ [x EXCEPT !.pc = pc, !.route = route].estimate = x.estimate
      BY <3>2 DEF Request, Moves
    <3> QED
      BY <3>1, <3>3 DEF x
  <2>2. request' \in [Requests -> Request]
    BY <1>7, <2>1 DEF Crash
  <2>3. \A id \in DOMAIN jobs : jobs'[id] \in Job /\ jobs'[id].of = jobs[id].of
    <3>1. \A id \in DOMAIN jobs :
            \E st \in {jobs[id].state, "waiting"} : jobs'[id] = [jobs[id] EXCEPT !.state = st]
      BY <1>7 DEF Crash
    <3> SUFFICES ASSUME NEW id \in DOMAIN jobs
                 PROVE  jobs'[id] \in Job /\ jobs'[id].of = jobs[id].of
      OBVIOUS
    <3>2. PICK st \in {jobs[id].state, "waiting"} : jobs'[id] = [jobs[id] EXCEPT !.state = st]
      BY <3>1
    <3>3. jobs[id] \in Job
      BY <1>1
    <3>4. /\ [jobs[id] EXCEPT !.state = st] \in Job
          /\ [jobs[id] EXCEPT !.state = st].of = jobs[id].of
      BY <3>3 DEF Job
    <3> QED
      BY <3>2, <3>4
  <2>4. jobs' \in [Riders \X (0 .. MaxClock) -> Job] /\ DOMAIN jobs' = DOMAIN jobs
    BY <1>1, <1>7, <2>3 DEF Crash
  <2>5. faults' \in 0 .. MaxFaults
    BY <1>1, <1>7, FaultTyped DEF Crash
  <2>6. /\ rides' = rides /\ clock' = clock /\ calls' = calls
        /\ handler' = [h \in Handlers |-> NoHandler]
    BY <1>7 DEF Crash
  <2> QED
    BY <2>1, <2>2, <2>3, <2>4, <2>5, <2>6
<1> QED
  BY <1>3, <1>4, <1>5, <1>6, <1>7

\* The jobs keep their requests when a new one is added for its own request,
\* and a request takes the estimate of its own job.
LEMMA ResultsKeepJobs ==
  ASSUME CreationInv, rides' = rides,
         \A q \in Requests : Moves(request[q], request'[q]),
         \A q \in Requests :
           \/ request'[q].estimate = request[q].estimate
           \/ JobId(q) \in DOMAIN jobs /\ request'[q].estimate = jobs[JobId(q)].of,
         DOMAIN jobs' = DOMAIN jobs,
         \A id \in DOMAIN jobs :
           \/ jobs'[id].of = jobs[id].of
           \/ \E q \in Requests : /\ jobs'[id].of = q /\ request[q].pc # "idle"
                                  /\ JobId(q) = id
  PROVE  JobInv'
<1>1. \A q \in Requests : JobId(q)' = JobId(q) /\ (request'[q].pc = "idle" <=> request[q].pc = "idle")
  BY DEF JobId, Moves
<1>2. /\ \A i \in DOMAIN rides : rides[i].of \in Requests /\ rides[i].estimate \in Requests
      /\ \A q \in Requests : request[q].estimate \in Requests \cup {Nothing}
      /\ \A id \in DOMAIN jobs : jobs[id].of \in Requests \cup {Nothing}
  BY RowTypes DEF CreationInv
<1>3. JobInv
  BY DEF CreationInv
<1>4. (\A id \in DOMAIN jobs :
         jobs[id].of # Nothing => request[jobs[id].of].pc # "idle" /\ JobId(jobs[id].of) = id)'
  BY <1>1, <1>2, <1>3 DEF JobInv
<1>5. (\A q \in Requests :
         request[q].estimate # Nothing =>
           request[request[q].estimate].pc # "idle" /\ JobId(request[q].estimate) = JobId(q))'
  BY <1>1, <1>2, <1>3 DEF JobInv
<1>6. (\A i \in DOMAIN rides :
         request[rides[i].estimate].pc # "idle" /\ JobId(rides[i].estimate) = JobId(rides[i].of))'
  BY <1>1, <1>2, <1>3 DEF JobInv
<1> QED
  BY <1>4, <1>5, <1>6 DEF JobInv

\* Adding a job, listening for it, and its result.
LEMMA JobStepsKeepInv ==
  ASSUME CreationInv,
         \/ \E q \in Requests : AddJob(q) \/ Listen(q)
         \/ \E id \in DOMAIN jobs : EstimateRoute(id)
  PROVE  CreationInv'
<1>1. /\ request \in [Requests -> Request] /\ faults \in 0 .. MaxFaults
      /\ jobs \in [Riders \X (0 .. MaxClock) -> Job]
      /\ \A q \in Requests : /\ request[q] \in Request
                             /\ request[q].pc = "idle" => request[q].route = "idle"
                             /\ request[q].pc \in {"both", "load", "offer"}
                                  => request[q].answer = "none"
  BY DEF CreationInv, CreationTypeOK, RequestInv
<1>2. \A q \in Requests : Moves(request[q], request[q])
  BY <1>1 DEF Moves
<1>3. \A q \in Requests : request[q].pc # "idle" => JobId(q) \in DOMAIN jobs
  BY <1>1, JobIdKnown DEF CreationInv
<1>4. \A id \in DOMAIN jobs : jobs[id].of \in Requests \cup {Nothing}
  BY RowTypes DEF CreationInv
<1>5. CASE \E q \in Requests : AddJob(q)
  <2> PICK q \in Requests : AddJob(q)
    BY <1>5
  <2> DEFINE y == [request[q] EXCEPT !.route = "listen"]
             new == [state |-> "waiting", of |-> q]
  <2>1. /\ y \in Request /\ Moves(request[q], y) /\ y.estimate = request[q].estimate
        /\ request[q].pc # "idle"
    BY <1>1 DEF AddJob, Request, Moves
  <2>2. request' = [request EXCEPT ![q] = y]
    BY DEF AddJob
  <2>3. new \in Job /\ new.of = q
    BY DEF Job
  <2>4. /\ jobs' \in [Riders \X (0 .. MaxClock) -> Job] /\ DOMAIN jobs' = DOMAIN jobs
        /\ \A id \in DOMAIN jobs : \/ jobs'[id] = jobs[id]
                                   \/ jobs'[id] = new /\ id = JobId(q)
    <3>1. jobs' = [jobs EXCEPT ![JobId(q)] =
                     IF jobs[JobId(q)].state \in {"none", "gone"} THEN new ELSE jobs[JobId(q)]]
      BY DEF AddJob
    <3> HIDE DEF new
    <3>2. \A id \in DOMAIN jobs : \/ jobs'[id] = jobs[id]
                                  \/ jobs'[id] = new /\ id = JobId(q)
      BY <1>1, <3>1
    <3> QED
      BY <1>1, <2>3, <3>1, <3>2
  <2> HIDE DEF y, new
  <2>5. \A r \in Requests : request'[r] = IF r = q THEN y ELSE request[r]
    BY <1>1, <2>2
  <2>6. /\ \A r \in Requests : Moves(request[r], request'[r])
        /\ \A r \in Requests : request'[r].estimate = request[r].estimate
    BY <1>2, <2>1, <2>5
  <2>7. CreationTypeOK'
    BY <1>1, <2>1, <2>2, <2>4 DEF AddJob, CreationInv, CreationTypeOK
  <2>8. \A id \in DOMAIN jobs :
          \/ jobs'[id].of = jobs[id].of
          \/ \E r \in Requests : jobs'[id].of = r /\ request[r].pc # "idle" /\ JobId(r) = id
    BY <2>1, <2>3, <2>4
  <2>9. rides' = rides /\ HandlerInv'
    BY DEF AddJob, CreationInv, HandlerInv
  <2> QED
    BY <2>4, <2>6, <2>7, <2>8, <2>9, ResultsKeepJobs, MovesKeepRows DEF CreationInv
<1>6. CASE \E q \in Requests : Listen(q)
  <2> PICK q \in Requests : Listen(q)
    BY <1>6
  <2> DEFINE of == jobs[JobId(q)].of
  <2>1. request[q].route = "listen" /\ request[q].pc # "idle" /\ of \in Requests \cup {Nothing}
    BY <1>1, <1>3, <1>4 DEF Listen
  <2>2. PICK y \in { [request[q] EXCEPT !.route = "wait"],
                     [request[q] EXCEPT !.route = "ended", !.estimate = of],
                     Rejected(request[q], "badRequest") } :
              request' = [request EXCEPT ![q] = y]
    BY DEF Listen
  <2> HIDE DEF of
  <2>3. y \in Request /\ Moves(request[q], y) /\ y.estimate \in {request[q].estimate, of}
    <3>1. CASE y = [request[q] EXCEPT !.route = "wait"]
      BY <1>1, <2>1, <3>1 DEF Request, Moves
    <3>2. CASE y = [request[q] EXCEPT !.route = "ended", !.estimate = of]
      BY <1>1, <2>1, <3>2 DEF Request, Moves
    <3>3. CASE y = Rejected(request[q], "badRequest")
      BY <1>1, <2>1, <3>3, RejectedMoves
    <3> QED
      BY <2>2, <3>1, <3>2, <3>3
  <2>4. \A r \in Requests : request'[r] = IF r = q THEN y ELSE request[r]
    BY <1>1, <2>2
  <2>5. \A r \in Requests : Moves(request[r], request'[r])
    BY <1>2, <2>3, <2>4
  <2>6. CreationTypeOK'
    BY <1>1, <2>2, <2>3 DEF Listen, CreationInv, CreationTypeOK
  <2>7. \A r \in Requests :
          \/ request'[r].estimate = request[r].estimate
          \/ JobId(r) \in DOMAIN jobs /\ request'[r].estimate = jobs[JobId(r)].of
    BY <1>3, <2>1, <2>3, <2>4 DEF of
  <2>8. rides' = rides /\ jobs' = jobs /\ HandlerInv'
    BY DEF Listen, CreationInv, HandlerInv
  <2> QED
    BY <2>5, <2>6, <2>7, <2>8, ResultsKeepJobs, MovesKeepRows DEF CreationInv
<1>7. CASE \E id \in DOMAIN jobs : EstimateRoute(id)
  <2> PICK id \in DOMAIN jobs : EstimateRoute(id)
    BY <1>7
  <2> DEFINE of == jobs[id].of
             y(r) == [request[r] EXCEPT !.route = "ended", !.estimate = of]
  <2>1. \A x \in Job : [x EXCEPT !.state = "gone"] \in Job
                       /\ [x EXCEPT !.state = "gone"].of = x.of
    BY DEF Job
  <2>2. jobs' = [jobs EXCEPT ![id] = [jobs[id] EXCEPT !.state = "gone"]]
    BY DEF EstimateRoute
  <2>3. /\ jobs' \in [Riders \X (0 .. MaxClock) -> Job] /\ DOMAIN jobs' = DOMAIN jobs
        /\ \A k \in DOMAIN jobs : jobs'[k].of = jobs[k].of
    BY <1>1, <2>1, <2>2
  <2>4. \A r \in Requests :
          \/ request'[r] = request[r]
          \/ request[r].route = "wait" /\ JobId(r) = id /\ request'[r] = y(r)
    BY DEF EstimateRoute
  <2>5. of \in Requests \cup {Nothing}
    BY <1>4
  <2>6. \A r \in Requests :
          request[r].route = "wait" =>
            y(r) \in Request /\ Moves(request[r], y(r)) /\ y(r).estimate = of
    <3> HIDE DEF of
    <3> QED
      BY <1>1, <2>5 DEF Request, Moves
  <2>7. \A r \in Requests :
          /\ request'[r] \in Request /\ Moves(request[r], request'[r])
          /\ request'[r].estimate = request[r].estimate
             \/ (JobId(r) \in DOMAIN jobs /\ request'[r].estimate = jobs[JobId(r)].of)
    <3> HIDE DEF y
    <3> QED
      BY <1>1, <1>2, <2>4, <2>6
  <2>8. request' \in [Requests -> Request]
    BY <2>7 DEF EstimateRoute
  <2>9. CreationTypeOK'
    BY <2>3, <2>8 DEF EstimateRoute, CreationInv, CreationTypeOK
  <2>10. rides' = rides /\ HandlerInv'
    BY DEF EstimateRoute, CreationInv, HandlerInv
  <2> QED
    BY <2>3, <2>7, <2>9, <2>10, ResultsKeepJobs, MovesKeepRows DEF CreationInv
<1> QED
  BY <1>5, <1>6, <1>7

-----------------------------------------------------------------------------
(* Steps of the rides.                                                     *)

\* A row that keeps who asked for it, is open again only if it says so, and
\* whose fare is right.
LEMMA RideStepKeepsInv ==
  ASSUME CreationInv, UNCHANGED <<request, jobs, calls, clock, faults>>,
         handler' \in [Handlers -> Handler],
         \A h \in Handlers : handler'[h] = handler[h] \/ handler'[h].to = "none",
         NEW i \in DOMAIN rides, NEW y \in Ride,
         rides' = [rides EXCEPT ![i] = y],
         y.of = rides[i].of, y.rider = rides[i].rider, y.estimate = rides[i].estimate,
         IsOpen(y) => IsOpen(rides[i]) \/ y.revived,
         rides[i].revived => y.revived,
         y.status = "completed" => FinalIsExact(y.bill) /\ PercentIsExact(y.bill)
  PROVE  CreationInv'
<1> USE DEF CreationInv
<1>1. rides \in Seq(Ride) /\ i \in 1 .. Len(rides) /\ DOMAIN rides = 1 .. Len(rides)
  BY DEF CreationTypeOK
<1>2. /\ rides' \in Seq(Ride) /\ Len(rides') = Len(rides) /\ DOMAIN rides' = DOMAIN rides
      /\ \A j \in DOMAIN rides : rides'[j] = IF j = i THEN y ELSE rides[j]
  BY <1>1, ExceptSeq
<1>3. \A j \in DOMAIN rides : /\ rides'[j].of = rides[j].of
                              /\ rides'[j].rider = rides[j].rider
                              /\ rides'[j].estimate = rides[j].estimate
                              /\ IsOpen(rides'[j]) => IsOpen(rides[j]) \/ rides'[j].revived
                              /\ rides[j].revived => rides'[j].revived
  BY <1>2
<1>4. \A q : JobId(q)' = JobId(q)
  BY DEF JobId
<1>5. CreationTypeOK'
  BY <1>2 DEF CreationTypeOK
<1>6. RequestInv'
  BY <1>2 DEF RequestInv
<1>7. StoredInv'
  BY <1>2, <1>3 DEF StoredInv
<1>8. SeenInv'
  BY <1>2, <1>3 DEF SeenInv
<1>9. JobInv'
  BY <1>2, <1>3, <1>4 DEF JobInv
<1>10. BornInv'
  BY <1>2, <1>3 DEF BornInv
<1>11. HandlerInv'
  BY <1>2 DEF HandlerInv
<1>12. FareIsExact'
  BY <1>2 DEF FareIsExact
<1> QED
  BY <1>5, <1>6, <1>7, <1>8, <1>9, <1>10, <1>11, <1>12

\* A handler writes its row.
LEMMA UpdateRideKeepsInv ==
  ASSUME CreationInv, NEW h \in Handlers, NEW to \in DOMAIN AllowedStatuses,
         NEW bill \in Bill, UpdateRide(h, to, bill),
         to = "completed" => FinalIsExact(bill) /\ PercentIsExact(bill)
  PROVE  CreationInv'
<1> DEFINE i == handler[h].ride
           revived == rides[i].revived \/ (Finished(rides[i].status) /\ ~Finished(to))
           y == [rides[i] EXCEPT !.status = to, !.bill = bill, !.revived = revived]
<1>1. handler \in [Handlers -> Handler]
  BY DEF CreationInv, CreationTypeOK
<1>2. to # "none" /\ handler[h].to = to
  BY DEF AllowedStatuses, UpdateRide
<1>3. i \in DOMAIN rides
  BY <1>2 DEF CreationInv, HandlerInv
<1>4. rides[i] \in Ride /\ rides[i].revived \in BOOLEAN
  BY <1>3, RowTypes DEF CreationInv, Ride
<1>5. UNCHANGED <<request, jobs, calls, clock, faults>> /\ rides' = [rides EXCEPT ![i] = y]
  BY DEF UpdateRide
<1>6. /\ handler' \in [Handlers -> Handler]
      /\ \A g \in Handlers : handler'[g] = handler[g] \/ handler'[g].to = "none"
  <2> HIDE DEF NoHandler
  <2> QED
    BY <1>1, NoHandlerTyped DEF UpdateRide
<1>7. revived \in BOOLEAN
  BY <1>4 DEF Finished
<1> HIDE DEF i
<1>8. /\ ~Finished(to) => ~Finished(rides[i].status) \/ revived
      /\ rides[i].revived => revived
  OBVIOUS
<1> HIDE DEF revived
<1>9. /\ y \in Ride /\ y.of = rides[i].of /\ y.rider = rides[i].rider
      /\ y.estimate = rides[i].estimate /\ y.status = to /\ y.bill = bill
      /\ y.revived = revived
  BY <1>4, <1>7 DEF Ride
<1> HIDE DEF y
<1>10. IsOpen(y) => IsOpen(rides[i]) \/ y.revived
  BY <1>8, <1>9 DEF IsOpen
<1> QED
  BY <1>3, <1>5, <1>6, <1>8, <1>9, <1>10, RideStepKeepsInv

\* Offers, and what becomes of a ride.
LEMMA RideStepsKeepInv ==
  ASSUME CreationInv,
         \/ \E q \in Requests, d \in Drivers : NotifyRideOffered(q, d)
         \/ \E h \in Handlers :
              \/ \E i \in DOMAIN rides, to \in DOMAIN AllowedStatuses : ReadRide(h, i, to)
              \/ MoveRide(h) \/ CancelRide(h)
              \/ \E distance \in Distances, discount \in Discounts :
                   CompleteRide(h, distance, discount)
  PROVE  CreationInv'
<1>1. \A i \in DOMAIN rides : rides[i] \in Ride
  BY RowTypes DEF CreationInv
<1>2. /\ handler \in [Handlers -> Handler] /\ calls \in 0 .. MaxCalls
      /\ rides \in Seq(Ride)
  BY DEF CreationInv, CreationTypeOK
<1>b. NoBill \in Bill
  BY SMT DEF NoBill, Bill
<1>s. {"candidates_computed", "accepted", "trip_started", "canceled", "completed"}
        = DOMAIN AllowedStatuses
  BY DEF AllowedStatuses
<1>3. CASE \E q \in Requests, d \in Drivers : NotifyRideOffered(q, d)
  <2> PICK q \in Requests, d \in Drivers : NotifyRideOffered(q, d)
    BY <1>3
  <2> PICK i \in DOMAIN rides :
             /\ rides[i].of = q /\ d \in rides[i].candidates \ rides[i].offered
             /\ rides' = [rides EXCEPT ![i].offered = @ \cup {d}]
    BY DEF NotifyRideOffered
  <2> DEFINE y == [rides[i] EXCEPT !.offered = rides[i].offered \cup {d}]
  <2>1. rides' = [rides EXCEPT ![i] = y]
    OBVIOUS
  <2>2. rides[i].status = "completed" =>
          FinalIsExact(rides[i].bill) /\ PercentIsExact(rides[i].bill)
    BY DEF CreationInv, FareIsExact
  <2>3. /\ y \in Ride /\ y.of = rides[i].of /\ y.rider = rides[i].rider
        /\ y.estimate = rides[i].estimate /\ y.status = rides[i].status
        /\ y.bill = rides[i].bill /\ y.revived = rides[i].revived
    BY <1>1 DEF Ride
  <2>4. /\ IsOpen(y) => IsOpen(rides[i]) \/ y.revived
        /\ rides[i].revived => y.revived
        /\ y.status = "completed" => FinalIsExact(y.bill) /\ PercentIsExact(y.bill)
    BY <2>2, <2>3 DEF IsOpen
  <2>5. UNCHANGED <<request, jobs, handler, calls, clock, faults>>
    BY DEF NotifyRideOffered
  <2>6. /\ handler' \in [Handlers -> Handler]
        /\ \A g \in Handlers : handler'[g] = handler[g] \/ handler'[g].to = "none"
    BY <1>2, <2>5
  <2>7. i \in DOMAIN rides
    OBVIOUS
  <2> HIDE DEF y
  <2> QED
    BY <2>1, <2>3, <2>4, <2>5, <2>6, <2>7, RideStepKeepsInv
<1>4. ASSUME NEW h \in Handlers, NEW i \in DOMAIN rides, NEW to \in DOMAIN AllowedStatuses,
             ReadRide(h, i, to)
      PROVE  CreationInv'
  <2> DEFINE g == [ride |-> i, to |-> to]
  <2>1. i \in Nat
    BY <1>2
  <2>2. g \in Handler /\ g.ride = i
    BY <2>1 DEF Handler
  <2> HIDE DEF g
  <2>3. /\ handler' = [handler EXCEPT ![h] = g] /\ calls' \in 0 .. MaxCalls
        /\ UNCHANGED <<rides, request, jobs, clock, faults>>
    BY <1>2, <1>4, CreationAssumption DEF ReadRide, g
  <2>4. CreationTypeOK'
    BY <1>2, <2>2, <2>3 DEF CreationInv, CreationTypeOK
  <2>5. HandlerInv'
    BY <1>2, <2>2, <2>3 DEF CreationInv, HandlerInv
  <2>6. RequestInv' /\ StoredInv' /\ SeenInv' /\ BornInv' /\ FareIsExact'
    BY <2>3 DEF CreationInv, RequestInv, StoredInv, SeenInv, BornInv, FareIsExact
  <2>7. JobInv'
    BY <2>3 DEF CreationInv, JobInv, JobId
  <2> QED
    BY <2>4, <2>5, <2>6, <2>7 DEF CreationInv
<1>5. ASSUME NEW h \in Handlers, MoveRide(h) \/ CancelRide(h) PROVE CreationInv'
  <2>1. PICK to \in {"candidates_computed", "accepted", "trip_started", "canceled"} :
               UpdateRide(h, to, NoBill)
    BY <1>5 DEF MoveRide, CancelRide
  <2>2. to \in DOMAIN AllowedStatuses /\ to # "completed"
    BY <1>s, <2>1
  <2> QED
    BY <1>b, <2>1, <2>2, UpdateRideKeepsInv
<1>6. ASSUME NEW h \in Handlers, NEW distance \in Distances, NEW discount \in Discounts,
             CompleteRide(h, distance, discount)
      PROVE  CreationInv'
  <2> DEFINE bill == CalculateFare(distance, discount)
  <2>1. distance \in Nat /\ discount \in Nat
    BY CreationAssumption
  <2>2. bill \in Bill /\ FinalIsExact(bill) /\ PercentIsExact(bill)
    BY <1>6, <2>1, FareRounded DEF CompleteRide
  <2>3. UpdateRide(h, "completed", bill)
    BY <1>6 DEF CompleteRide
  <2> HIDE DEF bill
  <2> QED
    BY <1>s, <2>2, <2>3, UpdateRideKeepsInv
<1> QED
  BY <1>3, <1>4, <1>5, <1>6

-----------------------------------------------------------------------------
(* Steps that begin, store and end a request.                              *)

\* A request begins: nothing refers to it yet, and it goes on only if its rider
\* has no open ride.
LEMMA CreateRideKeepsInv ==
  ASSUME CreationInv, NEW q \in Requests, NEW r \in Riders, NEW now \in 0 .. MaxClock,
         CreateRide(q, r, now)
  PROVE  CreationInv'
<1> USE DEF CreationInv
<1> DEFINE free == ~ \E i \in DOMAIN rides : Unfinished(i, r)
           y == request'[q]
<1>1. /\ request \in [Requests -> Request] /\ request[q].pc = "idle"
      /\ rides \in Seq(Ride) /\ Len(rides) \in Nat
      /\ UNCHANGED <<rides, jobs, handler, calls, faults>> /\ clock' = now
  BY DEF CreateRide, CreationTypeOK
<1>2. /\ y.pc \in {"both", "done"}
      /\ y.pc = "both" => free
      /\ y.rider = r /\ y.estimate = Nothing /\ y.seen = Len(rides)
      /\ y.pc = "both" => y.answer = "none"
      /\ y \in Request
  <2>1. y = IF free
              THEN [NoRequest EXCEPT !.pc = "both", !.rider = r, !.stamp = now,
                                     !.seen = Len(rides), !.route = "remove"]
              ELSE [NoRequest EXCEPT !.pc = "done", !.rider = r, !.stamp = now,
                                     !.seen = Len(rides), !.answer = "conflict"]
    BY <1>1 DEF CreateRide
  <2> HIDE DEF y, free
  <2> QED
    BY <1>1, <2>1 DEF NoRequest, Request
<1>3. request' \in [Requests -> Request] /\ \A p \in Requests \ {q} : request'[p] = request[p]
  <2>1. request' = [request EXCEPT ![q] = y]
    BY <1>1 DEF CreateRide
  <2> HIDE DEF y
  <2> QED
    BY <1>1, <1>2, <2>1
<1> HIDE DEF y
<1>4. /\ \A i \in DOMAIN rides : rides[i].of \in Requests \ {q} /\ rides[i].estimate \in Requests \ {q}
      /\ \A p \in Requests : request[p].estimate \in (Requests \cup {Nothing}) \ {q}
      /\ \A id \in DOMAIN jobs : jobs[id].of \in (Requests \cup {Nothing}) \ {q}
  BY <1>1, RowTypes, CreationAssumption DEF StoredInv, JobInv
<1>5. \A p \in Requests \ {q} : JobId(p)' = JobId(p)
  BY <1>3 DEF JobId
<1>6. CreationTypeOK'
  BY <1>1, <1>3 DEF CreationTypeOK
<1>7. RequestInv'
  <2>1. /\ request'[q].pc # "idle" /\ request'[q].rider \in Riders
        /\ request'[q].pc \notin {"load", "offer"}
        /\ request'[q].pc = "both" => request'[q].answer = "none"
        /\ request'[q].seen = Len(rides)
    BY <1>2 DEF y
  <2>2. Len(rides') = Len(rides) /\ Len(rides) <= Len(rides)
    BY <1>1
  <2> QED
    BY <1>3, <2>1, <2>2 DEF RequestInv
<1>8. StoredInv'
  BY <1>1, <1>3, <1>4 DEF StoredInv
<1>9. SeenInv'
  <2>1. \A i \in DOMAIN rides : y.pc = "both" /\ IsOpen(rides[i]) => rides[i].rider # y.rider
    BY <1>2 DEF IsOpen, Unfinished
  <2>2. y = request'[q]
    BY DEF y
  <2> QED
    BY <1>1, <1>3, <2>1, <2>2 DEF SeenInv
<1>10. JobInv'
  <2>1. request'[q].estimate = Nothing
    BY <1>2 DEF y
  <2>2. \A p \in Requests \ {q} : request'[p].pc = request[p].pc /\ request'[p].estimate = request[p].estimate
    BY <1>3
  <2>3. /\ \A id \in DOMAIN jobs' :
             jobs'[id].of # Nothing =>
               request'[jobs'[id].of].pc # "idle" /\ JobId(jobs[id].of)' = id
        /\ \A i \in DOMAIN rides' :
             /\ request'[rides'[i].estimate].pc # "idle"
             /\ JobId(rides[i].estimate)' = JobId(rides[i].of)'
    BY <1>1, <1>4, <1>5, <2>2 DEF JobInv
  <2>4. \A p \in Requests :
           request'[p].estimate # Nothing =>
             /\ request'[request'[p].estimate].pc # "idle"
             /\ JobId(request[p].estimate)' = JobId(p)'
    BY <1>4, <1>5, <2>1, <2>2 DEF JobInv
  <2> QED
    BY <1>1, <2>1, <2>2, <2>3, <2>4 DEF JobInv, JobId
<1>11. BornInv' /\ FareIsExact' /\ HandlerInv'
  BY <1>1, <1>3, <1>4 DEF BornInv, FareIsExact, HandlerInv
<1> QED
  BY <1>6, <1>7, <1>8, <1>9, <1>10, <1>11

\* The answer follows the last offer of the only ride of the request.
LEMMA NotifyRideMatchedKeepsInv ==
  ASSUME CreationInv, NEW q \in Requests, NotifyRideMatched(q)
  PROVE  CreationInv'
<1> USE DEF CreationInv
<1> DEFINE x == request[q]
           y == [x EXCEPT !.pc = "done", !.answer = "created",
                          !.estimate = Nothing, !.drivers = Nothing]
<1>1. /\ request \in [Requests -> Request] /\ x.pc = "offer"
      /\ request' = [request EXCEPT ![q] = y] /\ UNCHANGED <<rides, jobs, handler, calls, clock, faults>>
  BY DEF NotifyRideMatched, Answered, CreationTypeOK
<1>2. /\ y \in Request /\ y.pc = "done" /\ y.answer = "created" /\ y.estimate = Nothing
      /\ y.rider = x.rider /\ y.stamp = x.stamp /\ y.seen = x.seen
  BY <1>1 DEF Request
<1> HIDE DEF y
<1>3. /\ request' \in [Requests -> Request] /\ request'[q] = y
      /\ \A p \in Requests \ {q} : request'[p] = request[p]
  BY <1>1, <1>2
<1>4. \A p \in Requests : JobId(p)' = JobId(p)
  BY <1>2, <1>3 DEF JobId
<1>5. /\ \A i \in DOMAIN rides : rides[i].of \in Requests /\ rides[i].estimate \in Requests
      /\ \A p \in Requests : request[p].estimate \in Requests \cup {Nothing}
      /\ \A id \in DOMAIN jobs : jobs[id].of \in Requests \cup {Nothing}
  BY RowTypes
<1>6. \A p \in Requests : /\ request'[p].rider = request[p].rider
                          /\ request'[p].seen = request[p].seen
                          /\ request'[p].pc = "idle" <=> request[p].pc = "idle"
                          /\ request'[p].pc = "both" => request[p].pc = "both"
                          /\ request'[p].estimate \in {request[p].estimate, Nothing}
  BY <1>1, <1>2, <1>3
<1>7. CreationTypeOK'
  BY <1>1, <1>3 DEF CreationTypeOK
<1>8. RequestInv'
  BY <1>1, <1>2, <1>3 DEF RequestInv
<1>9. StoredInv'
  BY <1>1, <1>2, <1>3, <1>5 DEF StoredInv
<1>10. SeenInv'
  BY <1>1, <1>6 DEF SeenInv
<1>11. JobInv'
  BY <1>1, <1>4, <1>5, <1>6 DEF JobInv
<1>12. BornInv'
  BY <1>1, <1>5, <1>6 DEF BornInv
<1>13. FareIsExact' /\ HandlerInv'
  BY <1>1 DEF FareIsExact, HandlerInv
<1> QED
  BY <1>7, <1>8, <1>9, <1>10, <1>11, <1>12, <1>13

\* The ride is the last row and the only one of its request, and every open
\* ride of its rider that was there when the request began is gone.
LEMMA CreateRideWithDetailsKeepsInv ==
  ASSUME CreationInv, NEW q \in Requests, CreateRideWithDetails(q)
  PROVE  CreationInv'
<1> USE DEF CreationInv
<1> DEFINE x == request[q]
           y == [x EXCEPT !.pc = "load"]
           row == [of |-> q, rider |-> x.rider, status |-> "candidates_computed",
                   estimate |-> x.estimate, candidates |-> x.drivers,
                   offered |-> {}, bill |-> NoBill, revived |-> FALSE]
           n == Len(rides)
<1>1. /\ request \in [Requests -> Request] /\ rides \in Seq(Ride) /\ n \in Nat
      /\ x \in Request /\ x.pc = "both" /\ x.estimate # Nothing
      /\ x.drivers # Nothing /\ x.drivers # {}
      /\ request' = [request EXCEPT ![q] = y] /\ rides' = Append(rides, row)
      /\ UNCHANGED <<jobs, handler, calls, clock, faults>>
  BY DEF CreateRideWithDetails, BothKnown, CreationTypeOK
<1>2. x.rider \in Riders /\ x.answer = "none"
  BY <1>1 DEF RequestInv
<1>3. row \in Ride
  <2>1. NoBill \in Bill
    BY SMT DEF NoBill, Bill
  <2>2. x.estimate \in Requests /\ x.drivers \in Nearby \ {{}}
    BY <1>1 DEF Request
  <2> HIDE DEF NoBill, x
  <2> QED
    BY <1>2, <2>1, <2>2 DEF Ride, AllowedStatuses
<1>4. /\ row.of = q /\ row.rider = x.rider /\ row.estimate = x.estimate /\ row.offered = {}
      /\ row.status = "candidates_computed" /\ IsOpen(row)
  BY DEF IsOpen, Finished
<1>5. /\ y \in Request /\ y.pc = "load" /\ y.answer = "none" /\ y.rider = x.rider
      /\ y.stamp = x.stamp /\ y.seen = x.seen /\ y.estimate = x.estimate
  BY <1>1, <1>2 DEF Request
<1> HIDE DEF row, y
<1>6. /\ rides' \in Seq(Ride) /\ Len(rides') = n + 1
      /\ DOMAIN rides' = 1 .. (n + 1) /\ DOMAIN rides = 1 .. n
      /\ \A i \in 1 .. n : rides'[i] = rides[i]
      /\ rides'[n + 1] = row
  BY <1>1, <1>3, AppendProperties
<1>7. /\ request' \in [Requests -> Request] /\ request'[q] = y
      /\ \A p \in Requests \ {q} : request'[p] = request[p]
  BY <1>1, <1>5
<1>8. /\ \A i \in 1 .. n : rides[i].of \in Requests \ {q} /\ rides[i].estimate \in Requests
      /\ \A p \in Requests : request[p].estimate \in Requests \cup {Nothing}
      /\ \A id \in DOMAIN jobs : jobs[id].of \in Requests \cup {Nothing}
  BY <1>1, <1>6, RowTypes DEF StoredInv
<1>9. \A p \in Requests : /\ request'[p].rider = request[p].rider
                          /\ request'[p].stamp = request[p].stamp
                          /\ request'[p].seen = request[p].seen
                          /\ request'[p].estimate = request[p].estimate
                          /\ request'[p].pc = "idle" <=> request[p].pc = "idle"
                          /\ request'[p].pc = "both" => request[p].pc = "both"
  BY <1>1, <1>5, <1>7
<1>10. \A i \in DOMAIN rides' : i \in 1 .. n \/ i = n + 1
  BY <1>1, <1>6
<1>11. CreationTypeOK'
  BY <1>1, <1>6, <1>7 DEF CreationTypeOK
<1>12. RequestInv'
  <2>1. \A p \in Requests : request[p].seen \in Nat /\ request[p].seen <= n
    BY <1>1 DEF RequestInv, Request
  <2>2. \A p \in Requests : request'[p].seen <= Len(rides')
    BY <1>1, <1>6, <1>9, <2>1
  <2> QED
    BY <1>2, <1>5, <1>7, <2>2 DEF RequestInv
<1>13. StoredInv'
  <2>1. /\ request'[rides'[n + 1].of].pc = "load"
        /\ request'[rides'[n + 1].of].answer = "none"
        /\ request'[rides'[n + 1].of].rider = rides'[n + 1].rider
        /\ rides'[n + 1].of = q
    BY <1>4, <1>5, <1>6, <1>7
  <2>2. \A i \in 1 .. n :
          /\ request'[rides'[i].of].pc \notin {"idle", "both"}
          /\ request'[rides'[i].of].answer \in {"none", "internal", "created"}
          /\ request'[rides'[i].of].rider = rides'[i].rider
          /\ rides'[i].of # q
          /\ \A j \in 1 .. n : rides'[j].of = rides'[i].of => i = j
    BY <1>6, <1>7, <1>8 DEF StoredInv
  <2> QED
    BY <1>10, <2>1, <2>2 DEF StoredInv
<1>14. SeenInv'
  <2> SUFFICES ASSUME NEW p \in Requests, NEW i \in DOMAIN rides',
                      request'[p].pc = "both"
               PROVE  IsOpen(rides'[i]) /\ rides'[i].rider = request'[p].rider
                        => request'[p].seen < i \/ rides'[i].revived
    BY DEF SeenInv
  <2>1. CASE i \in 1 .. n
    BY <1>6, <1>9, <2>1 DEF SeenInv
  <2>2. CASE i = n + 1
    <3>1. request[p].seen \in Nat /\ request[p].seen <= n
      BY <1>1 DEF RequestInv, Request
    <3> QED
      BY <1>1, <1>9, <2>2, <3>1
  <2> QED
    BY <1>10, <2>1, <2>2
<1>15. JobInv'
  <2>1. (\A id \in DOMAIN jobs : jobs[id].of # Nothing =>
           request[jobs[id].of].pc # "idle" /\ JobId(jobs[id].of) = id)'
    BY <1>1, <1>8, <1>9 DEF JobInv, JobId
  <2>2. (\A p \in Requests : request[p].estimate # Nothing =>
           request[request[p].estimate].pc # "idle" /\ JobId(request[p].estimate) = JobId(p))'
    BY <1>8, <1>9 DEF JobInv, JobId
  <2>3. /\ x.estimate \in Requests /\ request[x.estimate].pc # "idle"
        /\ JobId(x.estimate) = JobId(q)
    BY <1>1, <1>8 DEF JobInv
  <2>4. \A i \in DOMAIN rides' :
          /\ rides'[i].estimate \in Requests /\ rides'[i].of \in Requests
          /\ request[rides'[i].estimate].pc # "idle"
          /\ request[rides'[i].estimate].rider = request[rides'[i].of].rider
          /\ request[rides'[i].estimate].stamp = request[rides'[i].of].stamp
    <3>1. \A i \in 1 .. n :
            /\ request[rides[i].estimate].pc # "idle"
            /\ request[rides[i].estimate].rider = request[rides[i].of].rider
            /\ request[rides[i].estimate].stamp = request[rides[i].of].stamp
      BY <1>6 DEF JobInv, JobId
    <3>2. /\ request[x.estimate].rider = request[q].rider
          /\ request[x.estimate].stamp = request[q].stamp
      BY <2>3 DEF JobId
    <3> QED
      BY <1>4, <1>6, <1>8, <1>10, <2>3, <3>1, <3>2
  <2>5. (\A i \in DOMAIN rides :
           request[rides[i].estimate].pc # "idle" /\ JobId(rides[i].estimate) = JobId(rides[i].of))'
    BY <1>9, <2>4 DEF JobId
  <2> QED
    BY <2>1, <2>2, <2>5 DEF JobInv
<1>16. BornInv'
  <2> SUFFICES ASSUME NEW i \in DOMAIN rides', NEW j \in DOMAIN rides',
                      IsOpen(rides'[i]), i < j, rides'[i].rider = rides'[j].rider
               PROVE  request'[rides'[j].of].seen < i \/ rides'[i].revived
    BY DEF BornInv
  <2>1. i \in 1 .. n
    BY <1>1, <1>6
  <2>2. CASE j \in 1 .. n
    BY <1>6, <1>8, <1>9, <2>1, <2>2 DEF BornInv
  <2>3. CASE j = n + 1
    BY <1>1, <1>4, <1>6, <1>9, <2>1, <2>3 DEF SeenInv
  <2> QED
    BY <1>10, <2>2, <2>3
<1>17. FareIsExact'
  BY <1>4, <1>6, <1>10 DEF FareIsExact
<1>18. HandlerInv'
  <2>1. DOMAIN rides \subseteq DOMAIN rides'
    BY <1>1, <1>6
  <2> QED
    BY <1>1, <2>1 DEF HandlerInv
<1> QED
  BY <1>11, <1>12, <1>13, <1>14, <1>15, <1>16, <1>17, <1>18

-----------------------------------------------------------------------------
(* The theorems.                                                           *)

\* Every step keeps the invariant.
LEMMA NextCreationInv == CreationInv /\ [Next]_vars => CreationInv'
<1> SUFFICES ASSUME CreationInv, [Next]_vars PROVE CreationInv'
  OBVIOUS
<1>1. CASE UNCHANGED vars
  BY <1>1 DEF vars, CreationInv, CreationTypeOK, RequestInv, StoredInv, SeenInv, IsOpen,
              JobInv, JobId, BornInv, FareIsExact, HandlerInv
<1>2. ASSUME NEW q \in Requests,
             \/ \E r \in Riders, now \in 0 .. MaxClock : CreateRide(q, r, now)
             \/ RequestStep(q)
             \/ QueueFails(q) \/ NearbyDriversFail(q) \/ CreateFails(q) \/ LoadFails(q)
      PROVE  CreationInv'
  BY <1>2, CreateRideKeepsInv, RequestStepsKeepInv, QueueStepsKeepInv, JobStepsKeepInv,
     RideStepsKeepInv, NotifyRideMatchedKeepsInv, CreateRideWithDetailsKeepsInv
     DEF RequestStep
<1>3. ASSUME NEW id \in DOMAIN jobs, TakeJob(id) \/ EstimateRoute(id) \/ EstimateFails(id)
      PROVE  CreationInv'
  BY <1>3, QueueStepsKeepInv, JobStepsKeepInv
<1>4. CASE Crash
  BY <1>4, QueueStepsKeepInv
<1>5. ASSUME NEW h \in Handlers,
             \/ \E i \in DOMAIN rides, to \in DOMAIN AllowedStatuses : ReadRide(h, i, to)
             \/ MoveRide(h) \/ CancelRide(h)
             \/ \E distance \in Distances, discount \in Discounts :
                  CompleteRide(h, distance, discount)
      PROVE  CreationInv'
  BY <1>5, RideStepsKeepInv
<1> QED
  BY <1>1, <1>2, <1>3, <1>4, <1>5 DEF Next

\* The invariant holds throughout.
LEMMA CreationInvariant == Spec => []CreationInv
BY InitCreationInv, NextCreationInv, PTL DEF Spec

\* Every variable keeps its type: a ride is stored with an estimate and with
\* at least one candidate, whatever fails.
THEOREM CreationTypesCorrect == Spec => []CreationTypeOK
<1>1. CreationInv => CreationTypeOK
  BY DEF CreationInv
<1> QED
  BY <1>1, CreationInvariant, PTL

\* For any riders, requests and handlers, a rider has two open rides only when
\* the check of the later createRide came before the commit of the earlier ride,
\* or when a handler that had read the earlier ride wrote it back after it was
\* finished.
THEOREM OneRideCorrect == Spec => []OneRideUnlessOverlapping
<1>1. CreationInv => OneRideUnlessOverlapping
  BY DEF CreationInv, BornInv, IsOpen, OneRideUnlessOverlapping
<1> QED
  BY <1>1, CreationInvariant, PTL

\* A stored ride has the estimate of its own route, or of a request of the
\* same rider in the same millisecond.
THEOREM EstimateIsOwnCorrect == Spec => []EstimateIsOwn
<1>1. CreationInv => EstimateIsOwn
  BY DEF CreationInv, JobInv, JobId, EstimateIsOwn
<1> QED
  BY <1>1, CreationInvariant, PTL

\* A refused request leaves no ride.
THEOREM RefusalCorrect == Spec => []RefusalLeavesNothing
<1>1. CreationInv => RefusalLeavesNothing
  BY DEF CreationInv, StoredInv, RefusalLeavesNothing
<1> QED
  BY <1>1, CreationInvariant, PTL

\* For every rate, percentage, distance and discount, the fare of a completed
\* ride is within the stated rounding error of the fare without rounding, unless
\* rounding to cents decides which app fee is due, and then of one of the two.
THEOREM FareCorrect == Spec => []FareIsExact
<1>1. CreationInv => FareIsExact
  BY DEF CreationInv
<1> QED
  BY <1>1, CreationInvariant, PTL
=============================================================================
