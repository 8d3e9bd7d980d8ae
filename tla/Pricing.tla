------------------------------ MODULE Pricing ------------------------------
(***************************************************************************)
(* The money arithmetic of checkout and fulfilment, in integer cents:      *)
(* the platform fee (payments.service.ts), the discounted plan price       *)
(* (subscriptions.service.ts) and the test that decides whether the amount *)
(* a provider reports is the amount that was invoiced.                     *)
(***************************************************************************)
EXTENDS Integers

\* PLATFORM_FEE_PCT
PlatformFeePct == 20

\* Mutant: the percentage taken for a factor.
FeeByFactor(amount) == amount * PlatformFeePct

\* feeCents: what the platform keeps of an order, rounded down.
FeeCents(amount) == (amount * PlatformFeePct) \div 100

\* creatorCents: what the creator's wallet is credited with.
CreatorCents(amount) == amount - FeeCents(amount)

\* Mutant: the discounted price is rounded down.
DiscountedDown(price, discount) == {(price * (100 - discount)) \div 100}

\* The price a plan is sold at.  The code rounds a binary floating-point
\* product, which equals the exact product rounded half up except when the
\* exact product ends in half a cent: then it may come out one cent lower.
DiscountedCents(price, discount) ==
    LET exact   == price * (100 - discount)       \* in hundredths of a cent
        rounded == (exact + 50) \div 100
    IN  IF exact % 100 = 50 THEN {rounded, rounded - 1} ELSE {rounded}

\* Mutant: only the exact amount is accepted.
AcceptsExactly(reported, amount) == reported = amount

\* Whether a reported amount is taken for the invoiced one.  A report of zero
\* stands for "the provider did not say", which is not compared at all.
Accepts(reported, amount) ==
    \/ reported <= 0
    \/ /\ reported - amount <= 1
       /\ amount - reported <= 1

=============================================================================
