----------------------------- MODULE MCPayments -----------------------------
(***************************************************************************)
(* Instances of Payments for TLC.  Accounts: alice and bob buy, carol      *)
(* sells.  What is for sale differs by run; prices are chosen so that the  *)
(* fee is rounded and a discounted price ends in half a cent.              *)
(***************************************************************************)
EXTENDS PaymentsInv, TLC

CONSTANTS alice, bob, carol, monthly, quarterly, post, clip

OneBuyer   == {alice, carol}
TwoBuyers  == {alice, bob, carol}
MCSeller   == [t \in Targets |-> carol]
MCPrice    == [t \in Plans \cup Posts \cup Media |-> IF t \in Plans THEN 105 ELSE 299]
MCDiscount == [t \in Plans |-> IF t = monthly THEN 50 ELSE 0]
MCMonths   == [t \in Plans |-> IF t = monthly THEN 1 ELSE 3]

\* The state without the acknowledged notifications: no action of Spec and no
\* property of a run that uses this view reads them.
Unanswered == <<dbVars, now, extVars, req, faults>>

Symmetry == Permutations(Orders) \cup Permutations(PaymentIds) \cup Permutations(Workers)
=============================================================================
