--------------------------- MODULE PricingProofs ---------------------------
(***************************************************************************)
(* The money arithmetic is right for every amount, price and discount, not *)
(* only for those of TLC's runs; and sums of amounts add up as they should, *)
(* however many there are.                                                 *)
(***************************************************************************)
EXTENDS Pricing, FiniteSets, Functions, FiniteSetTheorems, TLAPS

\* The fee is the largest whole number of cents within a fifth of the amount.
LEMMA FeeBounds ==
  ASSUME NEW amount \in Nat
  PROVE  /\ FeeCents(amount) \in 0..amount
         /\ 5 * FeeCents(amount) <= amount
         /\ 5 * (FeeCents(amount) + 1) > amount
         /\ CreatorCents(amount) \in 0..amount
  <1>1. FeeCents(amount) = (amount * 20) \div 100
    BY DEF FeeCents, PlatformFeePct
  <1>2. (amount * 20) \div 100 \in Nat
        /\ 100 * ((amount * 20) \div 100) <= amount * 20
        /\ 100 * ((amount * 20) \div 100) + 100 > amount * 20
    OBVIOUS
  <1> QED BY <1>1, <1>2 DEF CreatorCents

\* Rounding to the nearest cent, whichever way a half cent goes.
LEMMA Rounding ==
  ASSUME NEW exact \in Nat,
         NEW cents \in IF exact % 100 = 50
                       THEN {(exact + 50) \div 100, (exact + 50) \div 100 - 1}
                       ELSE {(exact + 50) \div 100}
  PROVE  /\ cents \in Nat
         /\ 2 * (100 * cents - exact) <= 100
         /\ 2 * (exact - 100 * cents) <= 100
  <1>1. PICK q \in Nat, r \in 0..99 : exact = 100 * q + r
    <2> DEFINE q == exact \div 100
               r == exact - 100 * q
    <2>1. q \in Nat /\ r \in 0..99 /\ exact = 100 * q + r
      OBVIOUS
    <2> HIDE DEF q, r
    <2> QED BY <2>1
  <1>2. (exact + 50) \div 100 = IF r >= 50 THEN q + 1 ELSE q
    BY <1>1
  <1>3. exact % 100 = r
    BY <1>1
  <1> QED BY <1>1, <1>2, <1>3

\* startCheckout: no price is more than half a cent away from the exact
\* discounted price.
LEMMA Discounted ==
  ASSUME NEW price \in Nat, NEW discount \in 0..90,
         NEW cents \in DiscountedCents(price, discount)
  PROVE  LET exact == price * (100 - discount)
         IN  /\ cents \in Nat
             /\ 2 * (100 * cents - exact) <= 100
             /\ 2 * (exact - 100 * cents) <= 100
  <1> DEFINE exact == price * (100 - discount)
  <1>1. exact \in Nat
    OBVIOUS
  <1>2. cents \in IF exact % 100 = 50
                  THEN {(exact + 50) \div 100, (exact + 50) \div 100 - 1}
                  ELSE {(exact + 50) \div 100}
    BY DEF DiscountedCents
  <1> HIDE DEF exact
  <1>3. /\ cents \in Nat
        /\ 2 * (100 * cents - exact) <= 100
        /\ 2 * (exact - 100 * cents) <= 100
    BY <1>1, <1>2, Rounding
  <1> QED BY <1>3 DEF exact

\* createCheckout: the fee is 20% of an amount rounded down, and the creator gets
\* the rest, at least four fifths.
LEMMA Fair ==
  ASSUME NEW cents \in Nat
  PROVE  /\ FeeCents(cents) = CHOOSE f \in 0..cents : 5 * f <= cents /\ 5 * (f + 1) > cents
         /\ 5 * CreatorCents(cents) >= 4 * cents
         /\ 5 * CreatorCents(cents) < 4 * cents + 5
  <1>1. /\ FeeCents(cents) \in 0..cents
        /\ 5 * FeeCents(cents) <= cents /\ 5 * (FeeCents(cents) + 1) > cents
    BY FeeBounds
  <1>2. \A f \in 0..cents : 5 * f <= cents /\ 5 * (f + 1) > cents => f = FeeCents(cents)
    BY <1>1
  <1>3. FeeCents(cents) = CHOOSE f \in 0..cents : 5 * f <= cents /\ 5 * (f + 1) > cents
    BY <1>1, <1>2
  <1> QED BY <1>1, <1>3 DEF CreatorCents

-----------------------------------------------------------------------------
(* Sums over finite sets *)

Picked(s)    == CHOOSE x \in s : TRUE
Sums(g, f, S) == g = [s \in SUBSET S |-> IF s = {} THEN 0 ELSE f[Picked(s)] + g[s \ {Picked(s)}]]
SumsOf(f, S) == CHOOSE g : Sums(g, f, S)

\* SumFunctionOnSet is defined by a choice among the functions that satisfy its recursion
\* equation: there is one, and they all agree.
LEMMA SumUnfolds ==
    ASSUME NEW f, NEW S
    PROVE  SumFunctionOnSet(f, S) = SumsOf(f, S)[S]
  BY DEF SumFunctionOnSet, FoldFunctionOnSet, MapThenFoldSet, SumsOf, Sums, Picked

\* Induction over the subsets of a finite set: a class of them has a smallest member.
LEMMA Smallest ==
    ASSUME NEW S, IsFiniteSet(S), NEW C, C \subseteq SUBSET S, C # {}
    PROVE  \E T \in C : \A U \in SUBSET T : U # T => U \notin C
  <1>1. IsWellFoundedOn(StrictSubsetOrdering(S), FiniteSubsetsOf(S))
    BY FS_StrictSubsetOrderingWellFounded
  <1>2. FiniteSubsetsOf(S) = SUBSET S
    BY FS_FiniteSubsetsOfFinite
  <1>3. PICK T \in C : \A U \in C : <<U, T>> \notin StrictSubsetOrdering(S)
    BY <1>1, <1>2, WFMin
  <1> QED BY <1>3 DEF StrictSubsetOrdering

LEMMA SumsAt ==
    ASSUME NEW f, NEW S, NEW g, Sums(g, f, S), NEW s \in SUBSET S
    PROVE  /\ s = {} => g[s] = 0
           /\ s # {} => /\ Picked(s) \in s
                        /\ g[s] = f[Picked(s)] + g[s \ {Picked(s)}]
  BY DEF Sums, Picked

LEMMA SumsAgree ==
    ASSUME NEW f, NEW A, NEW B, NEW g, NEW h, Sums(g, f, A), Sums(h, f, B),
           NEW S, S \subseteq A \cap B, IsFiniteSet(S)
    PROVE  g[S] = h[S]
  <1> DEFINE C == {s \in SUBSET S : g[s] # h[s]}
  <1> SUFFICES ASSUME C # {} PROVE FALSE
    OBVIOUS
  <1>0. C \subseteq SUBSET S
    OBVIOUS
  <1>1. PICK T \in C : \A U \in SUBSET T : U # T => U \notin C
    <2> HIDE DEF C
    <2> QED BY <1>0, Smallest
  <1>2. T \in SUBSET A /\ T \in SUBSET B /\ T \in SUBSET S /\ g[T] # h[T]
    OBVIOUS
  <1> HIDE DEF C
  <1>3. /\ T = {} => g[T] = 0
        /\ T # {} => /\ Picked(T) \in T
                     /\ g[T] = f[Picked(T)] + g[T \ {Picked(T)}]
    BY <1>2, SumsAt
  <1>4. /\ T = {} => h[T] = 0
        /\ T # {} => h[T] = f[Picked(T)] + h[T \ {Picked(T)}]
    BY <1>2, SumsAt
  <1>5. T # {}
    BY <1>2, <1>3, <1>4
  <1> DEFINE U == T \ {Picked(T)}
  <1>6. U \in SUBSET T /\ U # T
    BY <1>3, <1>5
  <1>7. U \notin C
    BY <1>1, <1>6
  <1>8. g[U] = h[U]
    BY <1>2, <1>6, <1>7 DEF C
  <1> QED BY <1>2, <1>3, <1>4, <1>5, <1>8

LEMMA SumsExist ==
    ASSUME NEW f, NEW S, IsFiniteSet(S)
    PROVE  Sums(SumsOf(f, S), f, S)
  <1> DEFINE C == {s \in SUBSET S : ~ Sums(SumsOf(f, s), f, s)}
  <1> SUFFICES ASSUME C # {} PROVE FALSE
    OBVIOUS
  <1>0. C \subseteq SUBSET S
    OBVIOUS
  <1>1. PICK T \in C : \A U \in SUBSET T : U # T => U \notin C
    <2> HIDE DEF C
    <2> QED BY <1>0, Smallest
  <1> DEFINE Earlier(s) == SumsOf(f, s)[s]
             At(s) == IF s = {} THEN 0 ELSE f[Picked(s)] + Earlier(s \ {Picked(s)})
             h == [s \in SUBSET T |-> At(s)]
  <1>2. \A s \in SUBSET T : s # {} => Picked(s) \in s
    BY DEF Picked
  <1>3. ASSUME NEW u \in SUBSET T, u # T
        PROVE  Earlier(u) = At(u)
    <2>1. Sums(SumsOf(f, u), f, u)
      BY <1>1, <1>3
    <2>2. CASE u = {}
      BY <2>1, <2>2, SumsAt
    <2>3. CASE u # {}
      <3> DEFINE v == u \ {Picked(u)}
      <3>1. Picked(u) \in u /\ SumsOf(f, u)[u] = f[Picked(u)] + SumsOf(f, u)[v]
        BY <2>1, <2>3, SumsAt
      <3>2. v \in SUBSET T /\ v # T
        BY <3>1
      <3>3. Sums(SumsOf(f, v), f, v)
        BY <1>1, <3>2
      <3>4. IsFiniteSet(v)
        BY <3>2, FS_Subset
      <3>5. SumsOf(f, u)[v] = SumsOf(f, v)[v]
        BY <2>1, <3>3, <3>4, SumsAgree
      <3> QED BY <2>3, <3>1, <3>5
    <2> QED BY <2>2, <2>3
  <1>4. \A s \in SUBSET T : s # {} => Earlier(s \ {Picked(s)}) = h[s \ {Picked(s)}]
    BY <1>2, <1>3
  <1>5. Sums(h, f, T)
    BY <1>4 DEF Sums
  <1>6. Sums(SumsOf(f, T), f, T)
    BY <1>5 DEF SumsOf
  <1> QED BY <1>6

\* Nothing adds up to nothing.
LEMMA SumOfNone ==
    ASSUME NEW f
    PROVE  SumFunctionOnSet(f, {}) = 0
  <1>1. Sums(SumsOf(f, {}), f, {})
    BY SumsExist, FS_EmptySet
  <1> QED BY <1>1, SumUnfolds, SumsAt

\* Sum of a set from that without the element that is picked.
LEMMA SumWithoutPicked ==
    ASSUME NEW f, NEW S, IsFiniteSet(S), S # {}
    PROVE  /\ Picked(S) \in S
           /\ SumFunctionOnSet(f, S) = f[Picked(S)] + SumFunctionOnSet(f, S \ {Picked(S)})
  <1> DEFINE U == S \ {Picked(S)}
  <1>1. IsFiniteSet(U)
    <2>1. U \in SUBSET S
      OBVIOUS
    <2> QED BY <2>1, FS_Subset
  <1>2. Sums(SumsOf(f, S), f, S) /\ Sums(SumsOf(f, U), f, U)
    BY <1>1, SumsExist
  <1>3. SumsOf(f, S)[U] = SumsOf(f, U)[U]
    BY <1>1, <1>2, SumsAgree
  <1>4. Picked(S) \in S /\ SumsOf(f, S)[S] = f[Picked(S)] + SumsOf(f, S)[S \ {Picked(S)}]
    <2> DEFINE g == SumsOf(f, S)
    <2>1. Sums(g, f, S) /\ S \in SUBSET S
      BY <1>2
    <2> HIDE DEF g
    <2>2. Picked(S) \in S /\ g[S] = f[Picked(S)] + g[S \ {Picked(S)}]
      BY <2>1, SumsAt
    <2> QED BY <2>2 DEF g
  <1> QED BY <1>3, <1>4, SumUnfolds

\* A sum of natural numbers is one.
LEMMA SumIsNat ==
    ASSUME NEW S, IsFiniteSet(S), NEW f, \A x \in S : f[x] \in Nat
    PROVE  SumFunctionOnSet(f, S) \in Nat
  <1> DEFINE C == {s \in SUBSET S : SumFunctionOnSet(f, s) \notin Nat}
  <1> SUFFICES ASSUME C # {} PROVE FALSE
    OBVIOUS
  <1>0. C \subseteq SUBSET S
    OBVIOUS
  <1>1. PICK T \in C : \A U \in SUBSET T : U # T => U \notin C
    <2> HIDE DEF C
    <2> QED BY <1>0, Smallest
  <1>2. T # {} /\ IsFiniteSet(T)
    <2>1. T # {}
      BY SumOfNone
    <2>2. T \in SUBSET S
      OBVIOUS
    <2> HIDE DEF C
    <2> QED BY <2>1, <2>2, FS_Subset
  <1>3. /\ Picked(T) \in T
        /\ SumFunctionOnSet(f, T) = f[Picked(T)] + SumFunctionOnSet(f, T \ {Picked(T)})
    BY <1>2, SumWithoutPicked
  <1>4. SumFunctionOnSet(f, T \ {Picked(T)}) \in Nat
    BY <1>1, <1>3
  <1> QED BY <1>3, <1>4

\* Functions that agree on a set have the same sum over it.
LEMMA SumOfEqual ==
    ASSUME NEW S, IsFiniteSet(S), NEW f, NEW g, \A x \in S : f[x] = g[x]
    PROVE  SumFunctionOnSet(f, S) = SumFunctionOnSet(g, S)
  <1> DEFINE C == {s \in SUBSET S : SumFunctionOnSet(f, s) # SumFunctionOnSet(g, s)}
  <1> SUFFICES ASSUME C # {} PROVE FALSE
    OBVIOUS
  <1>0. C \subseteq SUBSET S
    OBVIOUS
  <1>1. PICK T \in C : \A U \in SUBSET T : U # T => U \notin C
    <2> HIDE DEF C
    <2> QED BY <1>0, Smallest
  <1>2. T # {} /\ IsFiniteSet(T)
    <2>1. T # {}
      BY SumOfNone
    <2>2. T \in SUBSET S
      OBVIOUS
    <2> HIDE DEF C
    <2> QED BY <2>1, <2>2, FS_Subset
  <1> DEFINE U == T \ {Picked(T)}
  <1>3. /\ Picked(T) \in T
        /\ SumFunctionOnSet(f, T) = f[Picked(T)] + SumFunctionOnSet(f, U)
        /\ SumFunctionOnSet(g, T) = g[Picked(T)] + SumFunctionOnSet(g, U)
    BY <1>2, SumWithoutPicked
  <1>4. SumFunctionOnSet(f, U) = SumFunctionOnSet(g, U)
    BY <1>1, <1>3
  <1> QED BY <1>3, <1>4

\* Any element may be taken out first.
LEMMA SumWithout ==
    ASSUME NEW S, IsFiniteSet(S), NEW f, \A x \in S : f[x] \in Nat, NEW a \in S
    PROVE  SumFunctionOnSet(f, S) = f[a] + SumFunctionOnSet(f, S \ {a})
  <1> DEFINE Total(s) == SumFunctionOnSet(f, s)
             C == {s \in SUBSET S : \E e \in s : Total(s) # f[e] + Total(s \ {e})}
  <1> SUFFICES ASSUME C # {} PROVE FALSE
    OBVIOUS
  <1>0. C \subseteq SUBSET S
    OBVIOUS
  <1>1. PICK T \in C : \A U \in SUBSET T : U # T => U \notin C
    <2> HIDE DEF C
    <2> QED BY <1>0, Smallest
  <1>2. PICK e \in T : Total(T) # f[e] + Total(T \ {e})
    OBVIOUS
  <1>3. T \in SUBSET S /\ T # {} /\ IsFiniteSet(T)
    BY FS_Subset
  <1> DEFINE p == Picked(T)
             U == T \ {p}
             V == T \ {e}
             W == T \ {e, p}
  <1>4. p \in T /\ Total(T) = f[p] + Total(U)
    BY <1>3, SumWithoutPicked
  <1>5. p # e
    BY <1>2, <1>4
  <1>6. U \in SUBSET T /\ U # T /\ e \in U /\ U \ {e} = W
    BY <1>4, <1>5
  <1>7. V \in SUBSET T /\ V # T /\ p \in V /\ V \ {p} = W
    BY <1>4, <1>5
  <1>8. Total(U) = f[e] + Total(W)
    <2>1. U \notin C /\ U \in SUBSET S
      BY <1>1, <1>3, <1>6
    <2>2. Total(U) = f[e] + Total(U \ {e})
      BY <2>1, <1>6
    <2> QED BY <2>2, <1>6
  <1>9. Total(V) = f[p] + Total(W)
    <2>1. V \notin C /\ V \in SUBSET S
      BY <1>1, <1>3, <1>7
    <2>2. Total(V) = f[p] + Total(V \ {p})
      BY <2>1, <1>7
    <2> QED BY <2>2, <1>7
  <1>10. Total(W) \in Nat /\ f[e] \in Nat /\ f[p] \in Nat
    <2>1. IsFiniteSet(W) /\ W \in SUBSET S
      BY <1>3, FS_Subset
    <2> QED BY <1>3, <1>4, <2>1, SumIsNat
  <1> HIDE DEF Total, U, V, W, p
  <1> QED BY <1>2, <1>4, <1>8, <1>9, <1>10 DEF V

\* One element more.
LEMMA SumWithOneMore ==
    ASSUME NEW S, IsFiniteSet(S), NEW f, NEW g, NEW a, a \notin S,
           \A x \in S : f[x] \in Nat /\ g[x] = f[x], g[a] \in Nat
    PROVE  SumFunctionOnSet(g, S \cup {a}) = g[a] + SumFunctionOnSet(f, S)
  <1> DEFINE T == S \cup {a}
  <1>1. IsFiniteSet(T) /\ a \in T /\ T \ {a} = S
    BY FS_AddElement
  <1>2. \A x \in T : g[x] \in Nat
    OBVIOUS
  <1> HIDE DEF T
  <1>3. SumFunctionOnSet(g, T) = g[a] + SumFunctionOnSet(g, S)
    BY <1>1, <1>2, SumWithout
  <1>4. SumFunctionOnSet(g, S) = SumFunctionOnSet(f, S)
    BY SumOfEqual
  <1> QED BY <1>3, <1>4 DEF T

=============================================================================
