--------------------------- MODULE PaymentsProofs ---------------------------
(***************************************************************************)
(* Theorems about Payments, for every set of users, items, orders,         *)
(* payments and requests and every bound.                                  *)
(***************************************************************************)
EXTENDS PaymentsInv, PricingProofs, TLAPS

-----------------------------------------------------------------------------
(* The constants and the operators *)

LEMMA CreatorCentsNat == \A a \in Nat : CreatorCents(a) \in Nat
  BY DEF CreatorCents, FeeCents, PlatformFeePct

\* Only a settled payment is announced as such.
LEMMA SettledNotes ==
  ASSUME NEW provider \in {"NOWPAYMENTS", "PAYPAL"}, NEW state \in {"paid", "settled"},
         NEW type \in NoteTypes(provider, state),
         ~Intermediate(type), type # "approved"
  PROVE  state = "settled"
  BY DEF NoteTypes, Intermediate

\* Each kind of checkout is one of BeginCheckout at prices that are numbers.
LEMMA CheckoutBegins ==
  ASSUME NEW w \in Workers, NEW b \in Users, NEW t \in Targets, NEW o \in Orders,
         NEW provider \in Providers, StartCheckout(w, b, t, o, provider)
  PROVE  \E prices \in SUBSET Nat : BeginCheckout(w, b, t, o, provider, prices)
  <1>1. CASE t \in Plans /\ StartSubscription(w, b, t, o, provider)
    <2>1. Price[t] \in Nat \ {0} /\ Discount[t] \in 0..90
      BY <1>1, PriceType
    <2> DEFINE exact == Price[t] * (100 - Discount[t])
    <2>2. exact \in Nat
      BY <2>1
    <2>3. DiscountedCents(Price[t], Discount[t]) \in SUBSET Nat
      <3>1. DiscountedCents(Price[t], Discount[t]) =
              IF exact % 100 = 50 THEN {(exact + 50) \div 100, (exact + 50) \div 100 - 1}
                                  ELSE {(exact + 50) \div 100}
        BY DEF DiscountedCents
      <3>2. (exact + 50) \div 100 \in Nat
            /\ (exact % 100 = 50 => (exact + 50) \div 100 - 1 \in Nat)
        <4> HIDE DEF exact
        <4> QED BY <2>2
      <3> HIDE DEF exact
      <3> QED BY <3>1, <3>2
    <2> QED BY <1>1, <2>3 DEF StartSubscription
  <1>2. CASE t \in Posts \cup Media /\ StartPurchase(w, b, t, o, provider)
    <2>1. {Price[t]} \in SUBSET Nat
      BY <1>2, PriceType
    <2> QED BY <1>2, <2>1 DEF StartPurchase
  <1>3. CASE t \in Creators /\ StartTip(w, b, t, o, provider)
    <2>1. TipAmounts \in SUBSET Nat
      BY PriceType
    <2> QED BY <1>3, <2>1 DEF StartTip
  <1> QED BY <1>1, <1>2, <1>3 DEF StartCheckout

LEMMA IdleIsRequest == Idle \in Request
  BY DEF Idle, At, Request

-----------------------------------------------------------------------------
(* The initial state *)

LEMMA InitInv == Init => IInv
  <1> SUFFICES ASSUME Init PROVE IInv
    OBVIOUS
  <1>1. TypeOK
    BY IdleIsRequest DEF Init, TypeOK
  <1>2. \A w \in Workers : RequestOK(w)
    BY DEF Init, Idle, At, RequestOK, CheckoutOK, HookOK, PendingOK, ClaimedOK, EndOK,
           StillLocked, CheckoutSteps, HookSteps, TxSteps
  <1>3. ReferencesFresh /\ OrderRowExclusive /\ WalletRowExclusive
    BY DEF Init, Idle, At, ReferencesFresh, OrderRowExclusive, WalletRowExclusive, TxSteps
  <1>4. InvoicedIsRecorded /\ PaymentsKnown
    BY DEF Init, InvoicedIsRecorded, PaymentsKnown
  <1>5. NeverWithoutPayment /\ GrantsMatchOrders /\ OnePurchasePerPost
    BY DEF Init, NeverWithoutPayment, GrantsMatchOrders, OnePurchasePerPost,
           Fulfilled, HasStatus
  <1> QED BY <1>1, <1>2, <1>3, <1>4, <1>5 DEF IInv

-----------------------------------------------------------------------------
(* Steps of one request that leave the rows, the payments and the clock alone *)

LEMMA RequestMoves ==
  ASSUME IInv, NEW w \in Workers,
         UNCHANGED <<order, wallet, sub, purchases, tips, now, invoiced, pay>>,
         events' \subseteq PaymentIds, done' \subseteq Note, faults' \in Nat,
         NEW r \in Request, req' = [req EXCEPT ![w] = r],
         RequestOK(w)',
         r.pc = "persist" => \A v \in Workers \ {w} : req[v].order # r.order,
         r.pc \in TxSteps => ~OrderLocked(w, r.order),
         r.pc \in TxSteps \ {"credit"} => ~WalletLocked(w, Seller[r.row.target])
  PROVE  IInv'
  <1>1. TypeOK'
    BY DEF IInv, TypeOK
  <1>2. \A v \in Workers : v # w => req'[v] = req[v]
    BY DEF IInv, TypeOK
  <1>3. req'[w] = r
    BY DEF IInv, TypeOK
  <1>4. ASSUME NEW v \in Workers PROVE RequestOK(v)'
    <2>1. CASE v = w
      BY <2>1
    <2>2. CASE v # w
      <3>1. RequestOK(v) /\ req'[v] = req[v]
        BY <2>2, <1>2 DEF IInv
      <3>2. (CheckoutOK(v) /\ HookOK(v) /\ PendingOK(v) /\ ClaimedOK(v))'
        BY <3>1 DEF RequestOK, CheckoutOK, HookOK, PendingOK, ClaimedOK, HasStatus
      <3>3. EndOK(v)'
        BY <3>1 DEF RequestOK, EndOK
      <3>4. StillLocked(v)'
        BY <3>1 DEF RequestOK, StillLocked, Unlocked
      <3> QED BY <3>2, <3>3, <3>4 DEF RequestOK
    <2> QED BY <2>1, <2>2
  <1>5. ReferencesFresh'
    BY <1>2, <1>3 DEF IInv, ReferencesFresh
  <1>6. OrderRowExclusive'
    BY <1>2, <1>3 DEF IInv, OrderRowExclusive, OrderLocked
  <1>7. WalletRowExclusive'
    BY <1>2, <1>3 DEF IInv, WalletRowExclusive, WalletLocked
  <1>8. (InvoicedIsRecorded /\ PaymentsKnown)'
    BY DEF IInv, InvoicedIsRecorded, PaymentsKnown
  <1>9. (NeverWithoutPayment /\ GrantsMatchOrders /\ OnePurchasePerPost)'
    BY DEF IInv, NeverWithoutPayment, GrantsMatchOrders, OnePurchasePerPost,
           Fulfilled, HasStatus, PaidFor, SettledFor, InFull
  <1> QED BY <1>1, <1>4, <1>5, <1>6, <1>7, <1>8, <1>9 DEF IInv

\* A request that ends, however it ends, leaves nothing behind.
LEMMA RequestEnds ==
  ASSUME IInv, NEW w \in Workers,
         UNCHANGED <<order, wallet, sub, purchases, tips, now, invoiced, pay>>,
         events' \subseteq PaymentIds, done' \subseteq Note, faults' \in Nat,
         req' = [req EXCEPT ![w] = Idle]
  PROVE  IInv'
  <1>1. req'[w] = Idle
    BY DEF IInv, TypeOK
  <1>2. RequestOK(w)'
    BY <1>1 DEF Idle, At, RequestOK, CheckoutOK, HookOK, PendingOK, ClaimedOK, EndOK,
           StillLocked, CheckoutSteps, HookSteps, TxSteps
  <1>3. /\ Idle.pc # "persist"
        /\ Idle.pc \notin TxSteps
    BY DEF Idle, At, TxSteps
  <1> QED BY <1>2, <1>3, IdleIsRequest, RequestMoves

-----------------------------------------------------------------------------
(* The checkout steps *)

LEMMA BeginCheckoutInv ==
  ASSUME IInv, NEW w \in Workers, NEW b \in Users, NEW t \in Targets, NEW o \in Orders,
         NEW provider \in Providers, NEW prices \in SUBSET Nat,
         BeginCheckout(w, b, t, o, provider, prices)
  PROVE  IInv'
  <1>0. b # Seller[t]
    BY DEF BeginCheckout
  <1>1. PICK cents \in prices :
            req' = [req EXCEPT ![w] =
                      At("persist", o,
                         [status |-> "PENDING", buyer |-> b, target |-> t,
                          amount |-> cents, provider |-> provider], NoNote, 0)]
    BY DEF BeginCheckout
  <1> DEFINE row == [status |-> "PENDING", buyer |-> b, target |-> t,
                     amount |-> cents, provider |-> provider]
             r == [pc |-> "persist", order |-> o, row |-> row, note |-> NoNote, end |-> 0]
  <1>2. cents \in Nat
    BY <1>1
  <1>3. row \in OrderRow
    BY <1>2 DEF OrderRow
  <1>4. r \in Request
    BY <1>3 DEF Request, CheckoutSteps
  <1>5. req' = [req EXCEPT ![w] = r]
    BY <1>1 DEF At
  <1>6. req'[w] = r
    BY <1>5 DEF IInv, TypeOK
  <1>7. RequestOK(w)'
    <2>1. CheckoutOK(w)'
      <3>1. row.status = "PENDING" /\ row.buyer # Seller[row.target]
        BY <1>0
      <3>2. order[o] = NoRow /\ order' = order
        BY DEF BeginCheckout, dbVars
      <3> HIDE DEF row
      <3> QED BY <1>3, <1>6, <3>1, <3>2 DEF CheckoutOK
    <2>2. (HookOK(w) /\ PendingOK(w) /\ ClaimedOK(w) /\ EndOK(w) /\ StillLocked(w))'
      BY <1>6 DEF HookOK, PendingOK, ClaimedOK, EndOK, StillLocked, HookSteps, TxSteps
    <2> QED BY <2>1, <2>2 DEF RequestOK
  <1>8. \A v \in Workers \ {w} : req[v].order # o
    BY DEF BeginCheckout
  <1>9. r.pc \notin TxSteps
    BY DEF TxSteps
  <1>10. /\ UNCHANGED <<order, wallet, sub, purchases, tips, now, invoiced, pay>>
         /\ events' \subseteq PaymentIds /\ done' \subseteq Note /\ faults' \in Nat
    BY DEF BeginCheckout, dbVars, extVars, IInv, TypeOK
  <1> QED BY <1>4, <1>5, <1>7, <1>8, <1>9, <1>10, RequestMoves

-----------------------------------------------------------------------------
(* Requests that end *)

LEMMA EndingStepsInv ==
  ASSUME IInv, NEW w \in Workers,
         CaptureRefused(w) \/ MarkEventFails(w) \/ GrantConflicts(w) \/ Fail(w)
  PROVE  IInv'
  <1>1. /\ UNCHANGED <<order, wallet, sub, purchases, tips, now, invoiced, pay>>
        /\ req' = [req EXCEPT ![w] = Idle]
        /\ faults' \in Nat
    BY DEF CaptureRefused, MarkEventFails, GrantConflicts, Fail, Acknowledge,
           dbVars, extVars, IInv, TypeOK
  <1>2. req[w].pc \in HookSteps => req[w].note \in Note /\ req[w].note.payment \in PaymentIds
    BY DEF IInv, RequestOK, HookOK, Note
  <1>3. events' \subseteq PaymentIds /\ done' \subseteq Note
    BY <1>2 DEF CaptureRefused, MarkEventFails, GrantConflicts, Fail, Acknowledge,
                dbVars, HookSteps, IInv, TypeOK
  <1> QED BY <1>1, <1>3, RequestEnds

-----------------------------------------------------------------------------
(* The webhook steps before the transaction *)

LEMMA ReceiveInv ==
  ASSUME IInv, NEW w \in Workers, NEW n \in Note, Receive(w, n)
  PROVE  IInv'
  <1> DEFINE p == n.payment
             r == [pc |-> IF n.type = "approved" THEN "capture" ELSE "mark",
                   order |-> pay[p].order, row |-> NoRow, note |-> n, end |-> 0]
  <1>1. /\ p \in PaymentIds /\ pay[p] # NoPay /\ pay[p] \in Payment
        /\ pay[p].order \in invoiced /\ pay[p].order \in Orders
        /\ order[pay[p].order] # NoRow /\ order[pay[p].order] \in OrderRow
    BY DEF Receive, Sent, Note, IInv, TypeOK, PaymentsKnown, InvoicedIsRecorded, Payment
  <1>2. /\ UNCHANGED <<order, wallet, sub, purchases, tips, now, invoiced, pay>>
        /\ events' \subseteq PaymentIds /\ faults' \in Nat
    BY DEF Receive, dbVars, extVars, IInv, TypeOK
  <1>3. CASE Intermediate(n.type)
    <2>1. req' = [req EXCEPT ![w] = req[w]] /\ done' = done \cup {n} /\ req' = req
      BY <1>3 DEF Receive, IInv, TypeOK
    <2>2. req[w] \in Request /\ req[w].pc = "idle"
      BY DEF Receive, IInv, TypeOK
    <2>3. RequestOK(w)'
      BY <2>1, <2>2 DEF RequestOK, CheckoutOK, HookOK, PendingOK,
         ClaimedOK, EndOK, StillLocked, CheckoutSteps, HookSteps, TxSteps
    <2>4. req[w].pc \notin TxSteps /\ req[w].pc # "persist"
      BY <2>2 DEF TxSteps
    <2> QED BY <1>2, <2>1, <2>2, <2>3, <2>4, RequestMoves DEF IInv, TypeOK
  <1>4. CASE ~Intermediate(n.type)
    <2>1. req' = [req EXCEPT ![w] = r] /\ done' = done
      BY <1>4 DEF Receive, At
    <2>2. r \in Request
      BY <1>1 DEF Request, HookSteps
    <2>3. req'[w] = r
      BY <2>1 DEF IInv, TypeOK
    <2>4. n.type # "approved" => pay[p].state = "settled"
      BY <1>1, <1>4, SettledNotes, ProvidersKnown DEF Receive, Sent, OrderRow, Payment
    <2>5. r.pc \notin TxSteps /\ r.pc # "persist"
      BY DEF TxSteps
    <2>6. RequestOK(w)'
      BY <1>1, <1>2, <2>3, <2>4 DEF RequestOK, CheckoutOK, HookOK, PendingOK,
         ClaimedOK, EndOK, StillLocked, CheckoutSteps, HookSteps, TxSteps
    <2> QED BY <1>2, <2>1, <2>2, <2>5, <2>6, RequestMoves DEF IInv, TypeOK
  <1> QED BY <1>3, <1>4

LEMMA GotoShape ==
  ASSUME TypeOK, NEW w \in Workers, NEW label \in {"idle"} \cup CheckoutSteps \cup HookSteps,
         Goto(w, label)
  PROVE  \E r \in Request :
            /\ req' = [req EXCEPT ![w] = r] /\ req'[w] = r
            /\ r.pc = label /\ r.order = req[w].order /\ r.row = req[w].row
            /\ r.note = req[w].note /\ r.end = req[w].end
  <1> DEFINE r == [req[w] EXCEPT !.pc = label]
  <1>1. req[w] \in Request /\ req \in [Workers -> Request]
    BY DEF TypeOK
  <1>2. r \in Request
    BY <1>1 DEF Request
  <1>3. /\ r.pc = label /\ r.order = req[w].order /\ r.row = req[w].row
        /\ r.note = req[w].note /\ r.end = req[w].end
    BY <1>1 DEF Request
  <1>4. req' = [req EXCEPT ![w] = r] /\ req'[w] = r
    BY <1>1 DEF Goto
  <1> HIDE DEF r
  <1> QED BY <1>2, <1>3, <1>4

LEMMA MarkEventInv ==
  ASSUME IInv, NEW w \in Workers, MarkEvent(w)
  PROVE  IInv'
  <1>1. /\ UNCHANGED <<order, wallet, sub, purchases, tips, now, invoiced, pay>>
        /\ faults' \in Nat /\ TypeOK
    BY DEF MarkEvent, extVars, IInv, TypeOK
  <1>2. /\ req[w].pc = "mark" /\ HookOK(w)
        /\ req[w].note \in Note /\ req[w].note.payment \in PaymentIds
    BY DEF MarkEvent, IInv, RequestOK, HookOK, HookSteps, Note
  <1>3. events' \subseteq PaymentIds /\ done' \subseteq Note
    BY <1>1, <1>2 DEF MarkEvent, Acknowledge, TypeOK
  <1>4. CASE Acknowledge(w)
    BY <1>1, <1>3, <1>4, RequestEnds DEF Acknowledge
  <1>5. CASE Goto(w, "read")
    <2>1. PICK r \in Request :
              /\ req' = [req EXCEPT ![w] = r] /\ req'[w] = r
              /\ r.pc = "read" /\ r.order = req[w].order /\ r.row = req[w].row
              /\ r.note = req[w].note /\ r.end = req[w].end
      BY <1>1, <1>5, GotoShape DEF HookSteps
    <2>2. RequestOK(w)'
      BY <1>1, <1>2, <2>1 DEF RequestOK, CheckoutOK, HookOK, PendingOK, ClaimedOK,
         EndOK, StillLocked, CheckoutSteps, HookSteps, TxSteps
    <2>3. r.pc # "persist" /\ r.pc \notin TxSteps
      BY <2>1 DEF TxSteps
    <2> QED BY <1>1, <1>3, <2>1, <2>2, <2>3, RequestMoves
  <1> QED BY <1>4, <1>5 DEF MarkEvent

LEMMA ReadOrderInv ==
  ASSUME IInv, NEW w \in Workers, ReadOrder(w)
  PROVE  IInv'
  <1> DEFINE o == req[w].order
             r == At("claim", o, order[o], req[w].note, 0)
  <1>1. /\ UNCHANGED <<order, wallet, sub, purchases, tips, now, invoiced, pay>>
        /\ faults' \in Nat /\ events' \subseteq PaymentIds /\ TypeOK
    BY DEF ReadOrder, dbVars, extVars, IInv, TypeOK
  <1>2. /\ req[w].pc = "read" /\ HookOK(w)
        /\ req[w].note \in Note /\ req[w].note.payment \in PaymentIds
        /\ o \in Orders
    BY DEF ReadOrder, IInv, TypeOK, RequestOK, HookOK, HookSteps, Note, Payment
  <1>3. done' \subseteq Note
    BY <1>1, <1>2 DEF ReadOrder, Acknowledge, TypeOK
  <1>4. CASE Acknowledge(w)
    BY <1>1, <1>3, <1>4, RequestEnds DEF Acknowledge
  <1>5. CASE /\ HasStatus(o, "PENDING")
             /\ Accepts(pay[req[w].note.payment].cents, order[o].amount)
             /\ req' = [req EXCEPT ![w] = r]
    <2>1. order[o] \in OrderRow /\ order[o].status = "PENDING" /\ order[o] # NoRow
      BY <1>1, <1>2, <1>5 DEF HasStatus, TypeOK
    <2>2. r \in Request
      BY <1>2, <2>1 DEF At, Request, HookSteps
    <2>3. /\ req'[w] = r /\ r.pc = "claim" /\ r.order = o /\ r.row = order[o]
          /\ r.note = req[w].note
      BY <1>1, <1>5 DEF TypeOK, At
    <2> HIDE DEF r
    <2>4. HookOK(w)'
      BY <1>1, <1>2, <2>3 DEF HookOK, HookSteps
    <2>5. PendingOK(w)'
      BY <1>1, <1>5, <2>1, <2>3 DEF PendingOK
    <2>6. (CheckoutOK(w) /\ ClaimedOK(w) /\ EndOK(w) /\ StillLocked(w))'
      BY <2>3 DEF CheckoutOK, ClaimedOK, EndOK, StillLocked, CheckoutSteps, TxSteps
    <2>7. r.pc # "persist" /\ r.pc \notin TxSteps
      BY <2>3 DEF TxSteps
    <2> QED BY <1>1, <1>3, <1>5, <2>2, <2>4, <2>5, <2>6, <2>7, RequestMoves DEF RequestOK
  <1> QED BY <1>4, <1>5 DEF ReadOrder

-----------------------------------------------------------------------------
(* The steps of the transaction *)

\* A request that holds its order and its wallet row still does.
LEMMA HeldRows ==
  ASSUME IInv, NEW w \in Workers
  PROVE  /\ req[w].pc \in TxSteps => ~OrderLocked(w, req[w].order)
         /\ req[w].pc \in TxSteps \ {"credit"} => ~WalletLocked(w, Seller[req[w].row.target])
  BY DEF IInv, OrderRowExclusive, WalletRowExclusive, OrderLocked, WalletLocked

LEMMA ClaimOrderInv ==
  ASSUME IInv, NEW w \in Workers, ClaimOrder(w)
  PROVE  IInv'
  <1>1. /\ UNCHANGED <<order, wallet, sub, purchases, tips, now, invoiced, pay>>
        /\ faults' \in Nat /\ events' \subseteq PaymentIds /\ TypeOK
    BY DEF ClaimOrder, dbVars, extVars, IInv, TypeOK
  <1>2. /\ req[w].pc = "claim" /\ HookOK(w) /\ PendingOK(w) /\ req[w].note \in Note
        /\ ~OrderLocked(w, req[w].order)
    BY DEF ClaimOrder, IInv, RequestOK, HookOK, HookSteps
  <1>3. done' \subseteq Note
    BY <1>1, <1>2 DEF ClaimOrder, Acknowledge, TypeOK
  <1>4. CASE Acknowledge(w)
    BY <1>1, <1>3, <1>4, RequestEnds DEF Acknowledge
  <1>5. CASE Claimable(req[w].order) /\ Goto(w, "credit")
    <2>1. PICK r \in Request :
              /\ req' = [req EXCEPT ![w] = r] /\ req'[w] = r
              /\ r.pc = "credit" /\ r.order = req[w].order /\ r.row = req[w].row
              /\ r.note = req[w].note /\ r.end = req[w].end
      BY <1>1, <1>5, GotoShape DEF HookSteps, TxSteps
    <2>2. HookOK(w)'
      BY <1>1, <1>2, <2>1 DEF HookOK, HookSteps
    <2>3. PendingOK(w)'
      BY <1>1, <1>2, <2>1 DEF PendingOK, HasStatus
    <2>4. ClaimedOK(w)'
      BY <1>1, <1>2, <1>5, <2>1 DEF PendingOK, ClaimedOK, Claimable
    <2>5. (CheckoutOK(w) /\ EndOK(w) /\ StillLocked(w))'
      BY <2>1 DEF CheckoutOK, EndOK, StillLocked, CheckoutSteps
    <2>6. r.pc # "persist" /\ r.pc \notin TxSteps \ {"credit"}
      BY <2>1
    <2>7. RequestOK(w)'
      BY <2>2, <2>3, <2>4, <2>5 DEF RequestOK
    <2>8. ~OrderLocked(w, r.order)
      BY <1>2, <2>1
    <2> QED BY <1>1, <1>3, <2>1, <2>6, <2>7, <2>8, RequestMoves
  <1> QED BY <1>4, <1>5 DEF ClaimOrder

LEMMA CreditWalletInv ==
  ASSUME IInv, NEW w \in Workers, CreditWallet(w)
  PROVE  IInv'
  <1> DEFINE label == IF req[w].row.target \in Plans THEN "extend" ELSE "grant"
  <1>1. /\ UNCHANGED <<order, wallet, sub, purchases, tips, now, invoiced, pay>>
        /\ faults' \in Nat /\ events' \subseteq PaymentIds /\ done' \subseteq Note
        /\ TypeOK /\ Goto(w, label) /\ ~WalletLocked(w, Seller[req[w].row.target])
    BY DEF CreditWallet, dbVars, extVars, IInv, TypeOK
  <1>2. /\ req[w].pc = "credit" /\ HookOK(w) /\ PendingOK(w) /\ ClaimedOK(w)
        /\ ~OrderLocked(w, req[w].order)
    BY HeldRows DEF CreditWallet, IInv, RequestOK, TxSteps
  <1>3. PICK r \in Request :
            /\ req' = [req EXCEPT ![w] = r] /\ req'[w] = r
            /\ r.pc = label /\ r.order = req[w].order /\ r.row = req[w].row
            /\ r.note = req[w].note /\ r.end = req[w].end
    BY <1>1, GotoShape DEF HookSteps, TxSteps
  <1>4. (HookOK(w) /\ ClaimedOK(w))'
    BY <1>1, <1>2, <1>3 DEF HookOK, ClaimedOK, HookSteps, TxSteps
  <1>5. PendingOK(w)'
    BY <1>1, <1>2, <1>3 DEF PendingOK, HasStatus, TxSteps
  <1>6. (CheckoutOK(w) /\ EndOK(w) /\ StillLocked(w))'
    BY <1>1, <1>3 DEF CheckoutOK, EndOK, StillLocked, CheckoutSteps
  <1>7. RequestOK(w)'
    BY <1>4, <1>5, <1>6 DEF RequestOK
  <1>8. r.pc # "persist"
    BY <1>3
  <1> QED BY <1>1, <1>2, <1>3, <1>7, <1>8, RequestMoves

LEMMA ReadSubscriptionInv ==
  ASSUME IInv, NEW w \in Workers, ReadSubscription(w)
  PROVE  IInv'
  <1> DEFINE row == req[w].row
             old == sub[row.buyer][Seller[row.target]].end
             newEnd == PeriodBase(old) + Months[row.target]
             r == At("grant", req[w].order, row, req[w].note, newEnd)
  <1>1. /\ UNCHANGED <<order, wallet, sub, purchases, tips, now, invoiced, pay>>
        /\ faults' \in Nat /\ events' \subseteq PaymentIds /\ done' \subseteq Note
        /\ TypeOK
    BY DEF ReadSubscription, dbVars, extVars, IInv, TypeOK
  <1>2. /\ req[w].pc = "extend" /\ HookOK(w) /\ PendingOK(w) /\ ClaimedOK(w)
        /\ ~OrderLocked(w, req[w].order) /\ ~WalletLocked(w, Seller[row.target])
    BY HeldRows DEF ReadSubscription, IInv, RequestOK, TxSteps
  <1>3. row \in OrderRow /\ row.target \in Plans
    BY <1>2 DEF PendingOK, ClaimedOK, TxSteps
  <1>4. old \in Nat /\ now \in Nat /\ Months[row.target] \in Nat
    <2>1. row.buyer \in Users /\ row.target \in Targets
      BY <1>3 DEF OrderRow
    <2>2. Seller[row.target] \in Creators /\ Months[row.target] \in Nat
      BY <1>3, <2>1, SellerType, MonthsType
    <2> HIDE DEF row
    <2>3. sub[row.buyer][Seller[row.target]] \in [end: Nat, cancel: BOOLEAN]
      BY <1>1, <2>1, <2>2 DEF TypeOK
    <2> QED BY <1>1, <2>2, <2>3 DEF TypeOK
  <1>5. newEnd \in Nat /\ (newEnd = old + Months[row.target]
                           \/ (old <= newEnd - Months[row.target]
                               /\ newEnd - Months[row.target] <= now))
    <2> HIDE DEF old, row
    <2> QED BY <1>4 DEF PeriodBase
  <1>6. req[w] \in Request /\ req \in [Workers -> Request]
    BY <1>1 DEF TypeOK
  <1>7. r \in Request
    BY <1>5, <1>6 DEF At, Request, HookSteps, TxSteps
  <1>8. /\ r.pc = "grant" /\ r.order = req[w].order /\ r.row = row
        /\ r.note = req[w].note /\ r.end = newEnd
    BY DEF At
  <1>9. req' = [req EXCEPT ![w] = r] /\ req'[w] = r
    BY <1>6 DEF ReadSubscription
  <1> HIDE DEF r
  <1>10. (HookOK(w) /\ ClaimedOK(w))'
    BY <1>1, <1>2, <1>8, <1>9 DEF HookOK, ClaimedOK, HookSteps, TxSteps
  <1>11. PendingOK(w)'
    BY <1>1, <1>2, <1>8, <1>9 DEF PendingOK, HasStatus, TxSteps
  <1>12. EndOK(w)'
    BY <1>1, <1>5, <1>8, <1>9 DEF EndOK
  <1>13. (CheckoutOK(w) /\ StillLocked(w))'
    BY <1>8, <1>9 DEF CheckoutOK, StillLocked, CheckoutSteps
  <1>14. RequestOK(w)'
    BY <1>10, <1>11, <1>12, <1>13 DEF RequestOK
  <1>15. r.pc # "persist"
    BY <1>8
  <1> QED BY <1>1, <1>2, <1>7, <1>8, <1>9, <1>14, <1>15, RequestMoves

LEMMA GrantInv ==
  ASSUME IInv, NEW w \in Workers, Grant(w)
  PROVE  IInv'
  <1>1. /\ UNCHANGED <<order, wallet, sub, purchases, tips, now, invoiced, pay>>
        /\ faults' \in Nat /\ events' \subseteq PaymentIds /\ done' \subseteq Note
        /\ TypeOK /\ Goto(w, "commit")
    BY DEF Grant, dbVars, extVars, IInv, TypeOK
  <1>2. /\ req[w].pc = "grant" /\ HookOK(w) /\ PendingOK(w) /\ ClaimedOK(w) /\ EndOK(w)
        /\ ~OrderLocked(w, req[w].order) /\ ~WalletLocked(w, Seller[req[w].row.target])
        /\ req[w].row.target \in Posts => ~Unlocked(req[w].row.buyer, req[w].row.target)
    BY HeldRows DEF Grant, IInv, RequestOK, TxSteps
  <1>3. PICK r \in Request :
            /\ req' = [req EXCEPT ![w] = r] /\ req'[w] = r
            /\ r.pc = "commit" /\ r.order = req[w].order /\ r.row = req[w].row
            /\ r.note = req[w].note /\ r.end = req[w].end
    BY <1>1, GotoShape DEF HookSteps, TxSteps
  <1>4. (HookOK(w) /\ ClaimedOK(w))'
    BY <1>1, <1>2, <1>3 DEF HookOK, ClaimedOK, HookSteps, TxSteps
  <1>5. PendingOK(w)'
    BY <1>1, <1>2, <1>3 DEF PendingOK, HasStatus, TxSteps
  <1>6. EndOK(w)'
    BY <1>1, <1>2, <1>3 DEF EndOK
  <1>7. (CheckoutOK(w) /\ StillLocked(w))'
    BY <1>1, <1>2, <1>3 DEF CheckoutOK, StillLocked, CheckoutSteps, Unlocked
  <1>8. RequestOK(w)'
    BY <1>4, <1>5, <1>6, <1>7 DEF RequestOK
  <1>9. r.pc # "persist"
    BY <1>3
  <1> QED BY <1>1, <1>2, <1>3, <1>8, <1>9, RequestMoves

-----------------------------------------------------------------------------
(* Steps that change rows, payments or the clock *)

LEMMA PersistOrderInv ==
  ASSUME IInv, NEW w \in Workers, PersistOrder(w)
  PROVE  IInv'
  <1> DEFINE o == req[w].order
             row == req[w].row
  <1>1. /\ UNCHANGED <<wallet, sub, purchases, tips, events, now, invoiced, pay, done, faults>>
        /\ req[w].pc = "persist" /\ TypeOK /\ Goto(w, "invoice")
        /\ order' = [order EXCEPT ![o] = row]
    BY DEF PersistOrder, extVars, IInv
  <1>2. /\ o \in Orders /\ order[o] = NoRow /\ row \in OrderRow /\ row # NoRow
        /\ row.status = "PENDING" /\ row.buyer # Seller[row.target]
    BY <1>1, Absent DEF IInv, RequestOK, CheckoutOK, CheckoutSteps
  <1>3. PICK r \in Request :
            /\ req' = [req EXCEPT ![w] = r] /\ req'[w] = r
            /\ r.pc = "invoice" /\ r.order = o /\ r.row = row
            /\ r.note = req[w].note /\ r.end = req[w].end
    BY <1>1, GotoShape DEF CheckoutSteps
  <1>4. /\ order'[o] = row
        /\ \A x \in Orders : x # o => order'[x] = order[x]
        /\ \A x \in Orders : order[x] # NoRow => order'[x] = order[x]
    BY <1>1, <1>2 DEF TypeOK
  <1>5. \A v \in Workers : v # w => req'[v] = req[v]
    BY <1>1, <1>3 DEF TypeOK
  <1> HIDE DEF o, row
  <1>6. TypeOK'
    BY <1>1, <1>2, <1>3 DEF TypeOK
  <1>7. Fulfilled' = Fulfilled /\ \A x \in Fulfilled : order'[x] = order[x]
    BY <1>2, <1>4 DEF Fulfilled, HasStatus
  <1>8. purchases \subseteq Fulfilled /\ purchases \subseteq Orders
    BY <1>1 DEF IInv, GrantsMatchOrders, TypeOK
  <1>9. ASSUME NEW v \in Workers PROVE RequestOK(v)'
    <2>1. CASE v = w
      BY <2>1, <1>2, <1>3, <1>4 DEF RequestOK, CheckoutOK, HookOK, PendingOK, ClaimedOK,
         EndOK, StillLocked, CheckoutSteps, HookSteps, TxSteps
    <2>2. CASE v # w
      <3>1. RequestOK(v) /\ req'[v] = req[v]
        BY <2>2, <1>5 DEF IInv
      <3>2. CheckoutOK(v)'
        <4>1. CASE req[v].pc = "persist"
          <5>1. req[v].order # o
            BY <1>1, <2>2, <4>1 DEF IInv, ReferencesFresh, o
          <5> QED BY <3>1, <1>4, <4>1, <5>1 DEF RequestOK, CheckoutOK, CheckoutSteps
        <4>2. CASE req[v].pc = "invoice"
          BY <3>1, <1>4, <4>2 DEF RequestOK, CheckoutOK, CheckoutSteps
        <4> QED BY <3>1, <4>1, <4>2 DEF CheckoutOK, CheckoutSteps
      <3>3. HookOK(v)' /\ EndOK(v)'
        BY <3>1, <1>1 DEF RequestOK, HookOK, EndOK
      <3>4. req[v].pc \in HookSteps => req[v].order \in Orders
        BY <1>1, <3>1 DEF RequestOK, HookOK, TypeOK, Note, Payment
      <3>5. PendingOK(v)' /\ ClaimedOK(v)'
        BY <3>1, <3>4, <1>1, <1>4 DEF RequestOK, PendingOK, ClaimedOK, HasStatus, HookSteps, TxSteps
      <3>6. StillLocked(v)'
        BY <3>1, <1>1, <1>7, <1>8 DEF RequestOK, StillLocked, Unlocked
      <3> QED BY <3>2, <3>3, <3>5, <3>6 DEF RequestOK
    <2> QED BY <2>1, <2>2
  <1>10. (ReferencesFresh /\ OrderRowExclusive /\ WalletRowExclusive)'
    BY <1>3, <1>5 DEF IInv, ReferencesFresh, OrderRowExclusive, WalletRowExclusive, TxSteps
  <1>11. (InvoicedIsRecorded /\ PaymentsKnown)'
    BY <1>1, <1>4 DEF IInv, InvoicedIsRecorded, PaymentsKnown, TypeOK
  <1>12. NeverWithoutPayment'
    BY <1>1, <1>7 DEF IInv, NeverWithoutPayment, PaidFor, SettledFor, InFull
  <1>13. (GrantsMatchOrders /\ OnePurchasePerPost)'
    BY <1>1, <1>7, <1>8 DEF IInv, GrantsMatchOrders, OnePurchasePerPost
  <1> QED BY <1>6, <1>9, <1>10, <1>11, <1>12, <1>13 DEF IInv

LEMMA OpenInvoiceInv ==
  ASSUME IInv, NEW w \in Workers, OpenInvoice(w)
  PROVE  IInv'
  <1>1. /\ UNCHANGED <<order, wallet, sub, purchases, tips, events, now, pay, done, faults>>
        /\ req[w].pc = "invoice" /\ TypeOK
        /\ invoiced' = invoiced \cup {req[w].order}
        /\ req' = [req EXCEPT ![w] = Idle]
    BY DEF OpenInvoice, dbVars, IInv
  <1>2. req[w].order \in Orders /\ order[req[w].order] # NoRow
    BY <1>1 DEF IInv, RequestOK, CheckoutOK, CheckoutSteps
  <1>3. \A v \in Workers : req'[v] = IF v = w THEN Idle ELSE req[v]
    BY <1>1 DEF TypeOK
  <1>4. TypeOK'
    BY <1>1, <1>2, IdleIsRequest DEF TypeOK
  <1>5. ASSUME NEW v \in Workers PROVE RequestOK(v)'
    <2>1. CASE v = w
      BY <2>1, <1>3 DEF Idle, At, RequestOK, CheckoutOK, HookOK, PendingOK, ClaimedOK,
         EndOK, StillLocked, CheckoutSteps, HookSteps, TxSteps
    <2>2. CASE v # w
      <3>1. RequestOK(v) /\ req'[v] = req[v]
        BY <2>2, <1>3 DEF IInv
      <3> QED BY <3>1, <1>1 DEF RequestOK, CheckoutOK, HookOK, PendingOK, ClaimedOK,
                 EndOK, StillLocked, Unlocked, HasStatus
    <2> QED BY <2>1, <2>2
  <1>6. (ReferencesFresh /\ OrderRowExclusive /\ WalletRowExclusive)'
    BY <1>3 DEF IInv, Idle, At, ReferencesFresh, OrderRowExclusive, WalletRowExclusive, TxSteps
  <1>7. (InvoicedIsRecorded /\ PaymentsKnown)'
    BY <1>1, <1>2 DEF IInv, InvoicedIsRecorded, PaymentsKnown
  <1>8. (NeverWithoutPayment /\ GrantsMatchOrders /\ OnePurchasePerPost)'
    BY <1>1 DEF IInv, NeverWithoutPayment, GrantsMatchOrders, OnePurchasePerPost,
           Fulfilled, HasStatus, PaidFor, SettledFor, InFull
  <1> QED BY <1>4, <1>5, <1>6, <1>7, <1>8 DEF IInv

\* A payment that becomes known or settled, whoever brings it about.
LEMMA PaymentsMove ==
  ASSUME IInv,
         UNCHANGED <<order, wallet, sub, purchases, tips, events, now, invoiced, faults>>,
         done' \subseteq Note, req' \in [Workers -> Request],
         \A v \in Workers : req'[v] \in {req[v], Idle},
         pay' \in [PaymentIds -> Payment \cup {NoPay}],
         \A p \in PaymentIds : pay[p] # NoPay =>
            /\ pay'[p] # NoPay /\ pay'[p].order = pay[p].order /\ pay'[p].cents = pay[p].cents
            /\ pay[p].state = "settled" => pay'[p].state = "settled",
         PaymentsKnown'
  PROVE  IInv'
  <1>1. TypeOK'
    BY DEF IInv, TypeOK
  <1>2. ASSUME NEW v \in Workers PROVE RequestOK(v)'
    <2>1. CASE req'[v] = Idle
      BY <2>1 DEF Idle, At, RequestOK, CheckoutOK, HookOK, PendingOK, ClaimedOK,
         EndOK, StillLocked, CheckoutSteps, HookSteps, TxSteps
    <2>2. CASE req'[v] = req[v]
      <3>1. RequestOK(v)
        BY DEF IInv
      <3>2. HookOK(v)'
        BY <2>2, <3>1 DEF RequestOK, HookOK, Note
      <3>3. req[v].pc \in HookSteps =>
               pay'[req[v].note.payment].cents = pay[req[v].note.payment].cents
        BY <3>1 DEF RequestOK, HookOK, Note
      <3>4. PendingOK(v)'
        BY <2>2, <3>1, <3>3 DEF RequestOK, PendingOK, HasStatus, HookSteps
      <3>5. (CheckoutOK(v) /\ ClaimedOK(v) /\ EndOK(v) /\ StillLocked(v))'
        BY <2>2, <3>1 DEF RequestOK, CheckoutOK, ClaimedOK, EndOK, StillLocked, Unlocked
      <3> QED BY <3>2, <3>4, <3>5 DEF RequestOK
    <2> QED BY <2>1, <2>2
  <1>3. (ReferencesFresh /\ OrderRowExclusive /\ WalletRowExclusive)'
    BY DEF IInv, Idle, At, ReferencesFresh, OrderRowExclusive, WalletRowExclusive, TxSteps
  <1>4. InvoicedIsRecorded'
    BY DEF IInv, InvoicedIsRecorded
  <1>5. \A o \in Orders : PaidFor(o) => PaidFor(o)'
    BY DEF PaidFor, SettledFor, InFull
  <1>6. (NeverWithoutPayment /\ GrantsMatchOrders /\ OnePurchasePerPost)'
    BY <1>5 DEF IInv, NeverWithoutPayment, GrantsMatchOrders, OnePurchasePerPost,
           Fulfilled, HasStatus
  <1> QED BY <1>1, <1>2, <1>3, <1>4, <1>6 DEF IInv

LEMMA Settling ==
  ASSUME IInv, NEW p \in PaymentIds, pay[p] # NoPay,
         UNCHANGED <<order, wallet, sub, purchases, tips, events, now, invoiced, faults>>,
         done' \subseteq Note, req' \in [Workers -> Request],
         \A v \in Workers : req'[v] \in {req[v], Idle},
         pay' = [pay EXCEPT ![p].state = "settled"]
  PROVE  IInv'
  <1>1. pay[p] \in Payment /\ pay \in [PaymentIds -> Payment \cup {NoPay}]
    BY DEF IInv, TypeOK
  <1>2. /\ pay'[p] \in Payment /\ pay'[p].order = pay[p].order
        /\ pay'[p].cents = pay[p].cents /\ pay'[p].state = "settled"
    BY <1>1 DEF Payment
  <1>3. pay'[p] # NoPay /\ \A q \in PaymentIds : q # p => pay'[q] = pay[q]
    BY <1>1, <1>2, Absent
  <1>4. pay' \in [PaymentIds -> Payment \cup {NoPay}]
    BY <1>1, <1>2
  <1>5. PaymentsKnown'
    BY <1>2, <1>3 DEF IInv, PaymentsKnown
  <1> QED BY <1>2, <1>3, <1>4, <1>5, PaymentsMove

LEMMA CaptureInv ==
  ASSUME IInv, NEW w \in Workers, Capture(w)
  PROVE  IInv'
  <1>1. /\ req[w].note \in Note /\ req[w].note.payment \in PaymentIds
        /\ pay[req[w].note.payment] # NoPay
    BY DEF Capture, IInv, RequestOK, HookOK, HookSteps, Note
  <1>2. /\ UNCHANGED <<order, wallet, sub, purchases, tips, events, now, invoiced, faults>>
        /\ pay' = [pay EXCEPT ![req[w].note.payment].state = "settled"]
        /\ req' = [req EXCEPT ![w] = Idle] /\ done' = done \cup {req[w].note} /\ TypeOK
    BY DEF Capture, Acknowledge, dbVars, IInv
  <1>3. /\ req' \in [Workers -> Request] /\ done' \subseteq Note
        /\ \A v \in Workers : req'[v] \in {req[v], Idle}
    BY <1>1, <1>2, IdleIsRequest DEF TypeOK
  <1> QED BY <1>1, <1>2, <1>3, Settling

LEMMA ProviderStepsInv ==
  ASSUME IInv, NEW p \in PaymentIds,
         (\E o \in Orders : BuyerPays(p, o)) \/ Settle(p)
  PROVE  IInv'
  <1>1. CASE \E o \in Orders : BuyerPays(p, o)
    <2>1. PICK o \in Orders : BuyerPays(p, o)
      BY <1>1
    <2>2. PICK cents \in Reported(order[o].amount) :
             pay' = [pay EXCEPT ![p] = [state |-> "paid", order |-> o, cents |-> cents]]
      BY <2>1 DEF BuyerPays
    <2>3. pay[p] = NoPay /\ o \in invoiced /\ UNCHANGED <<dbVars, invoiced, now, done, req, faults>>
      BY <2>1 DEF BuyerPays
    <2>4. order[o] \in OrderRow /\ cents \in Nat
      BY <2>2, <2>3 DEF IInv, TypeOK, InvoicedIsRecorded, OrderRow, Reported
    <2>5. [state |-> "paid", order |-> o, cents |-> cents] \in Payment
      BY <2>4 DEF Payment
    <2>6. pay' \in [PaymentIds -> Payment \cup {NoPay}] /\ req' \in [Workers -> Request]
          /\ done' \subseteq Note /\ \A v \in Workers : req'[v] \in {req[v], Idle}
      BY <2>2, <2>3, <2>5 DEF IInv, TypeOK
    <2>7. \A q \in PaymentIds : pay[q] # NoPay => pay'[q] = pay[q]
      BY <2>2, <2>3 DEF IInv, TypeOK
    <2>8. PaymentsKnown'
      BY <2>2, <2>3 DEF IInv, TypeOK, PaymentsKnown
    <2> QED BY <2>3, <2>6, <2>7, <2>8, PaymentsMove DEF dbVars
  <1>2. CASE Settle(p)
    <2>1. /\ pay[p] # NoPay /\ pay' = [pay EXCEPT ![p].state = "settled"]
          /\ UNCHANGED <<dbVars, invoiced, now, done, req, faults>>
      BY <1>2 DEF Settle
    <2>2. /\ req' \in [Workers -> Request] /\ done' \subseteq Note
          /\ \A v \in Workers : req'[v] \in {req[v], Idle}
      BY <2>1 DEF IInv, TypeOK
    <2> QED BY <2>1, <2>2, Settling DEF dbVars
  <1> QED BY <1>1, <1>2

\* The clock and the cancellation flag: no period end moves.
LEMMA ClockMoves ==
  ASSUME IInv,
         UNCHANGED <<order, wallet, purchases, tips, events, invoiced, pay, done, req, faults>>,
         sub' \in [Users -> [Creators -> [end: Nat, cancel: BOOLEAN]]],
         \A b \in Users, c \in Creators : sub'[b][c].end = sub[b][c].end,
         now' \in Nat, now <= now'
  PROVE  IInv'
  <1>1. TypeOK'
    BY DEF IInv, TypeOK
  <1>2. ASSUME NEW v \in Workers PROVE RequestOK(v)'
    <2>1. RequestOK(v)
      BY DEF IInv
    <2>2. (CheckoutOK(v) /\ HookOK(v) /\ PendingOK(v) /\ ClaimedOK(v) /\ StillLocked(v))'
      BY <2>1 DEF RequestOK, CheckoutOK, HookOK, PendingOK, ClaimedOK, StillLocked,
                  Unlocked, HasStatus
    <2>3. EndOK(v)'
      <3> DEFINE row == req[v].row
                 old == sub[row.buyer][Seller[row.target]].end
      <3>1. SUFFICES ASSUME req[v].pc \in {"grant", "commit"}, row.target \in Plans
                     PROVE  EndOK(v)'
        BY DEF EndOK
      <3>2. row \in OrderRow
        BY <2>1, <3>1 DEF RequestOK, PendingOK, TxSteps
      <3>3. row.buyer \in Users /\ Seller[row.target] \in Creators
        BY <3>2, SellerType DEF OrderRow
      <3>4. sub'[row.buyer][Seller[row.target]].end = old
        BY <3>3
      <3>5. req[v].end \in Nat /\ Months[row.target] \in Nat /\ now \in Nat
        <4>1. TypeOK /\ req[v] \in Request
          BY DEF IInv, TypeOK
        <4>2. Months[row.target] \in Nat
          BY <3>1, MonthsType
        <4> QED BY <4>1, <4>2 DEF TypeOK, Request
      <3>6. \/ req[v].end = old + Months[row.target]
            \/ /\ old <= req[v].end - Months[row.target]
               /\ req[v].end - Months[row.target] <= now
        BY <2>1, <3>1 DEF RequestOK, EndOK
      <3>7. \/ req[v].end = old + Months[row.target]
            \/ /\ old <= req[v].end - Months[row.target]
               /\ req[v].end - Months[row.target] <= now'
        <4> HIDE DEF old, row
        <4> QED BY <3>5, <3>6
      <3> QED BY <3>4, <3>7 DEF EndOK
    <2> QED BY <2>2, <2>3 DEF RequestOK
  <1>3. (ReferencesFresh /\ OrderRowExclusive /\ WalletRowExclusive)'
    BY DEF IInv, ReferencesFresh, OrderRowExclusive, WalletRowExclusive
  <1>4. (InvoicedIsRecorded /\ PaymentsKnown)'
    BY DEF IInv, InvoicedIsRecorded, PaymentsKnown
  <1>5. (NeverWithoutPayment /\ GrantsMatchOrders /\ OnePurchasePerPost)'
    BY DEF IInv, NeverWithoutPayment, GrantsMatchOrders, OnePurchasePerPost,
           Fulfilled, HasStatus, PaidFor, SettledFor, InFull
  <1> QED BY <1>1, <1>2, <1>3, <1>4, <1>5 DEF IInv

\* What Cancel does to the subscriptions, read by row.
LEMMA CancelKeepsEnds ==
  ASSUME TypeOK, NEW b \in Users, NEW c \in Creators, Cancel(b, c)
  PROVE  /\ sub' \in [Users -> [Creators -> [end: Nat, cancel: BOOLEAN]]]
         /\ \A u \in Users, d \in Creators : sub'[u][d].end = sub[u][d].end
  <1> DEFINE Row == [end: Nat, cancel: BOOLEAN]
             new == [sub[b][c] EXCEPT !.cancel = TRUE]
  <1>1. sub \in [Users -> [Creators -> Row]] /\ sub[b] \in [Creators -> Row] /\ sub[b][c] \in Row
    BY DEF TypeOK
  <1>2. new \in Row /\ new.end = sub[b][c].end
    BY <1>1
  <1>3. sub' = [sub EXCEPT ![b] = [sub[b] EXCEPT ![c] = new]]
    BY <1>1 DEF Cancel
  <1> HIDE DEF new
  <1>4. sub'[b] = [sub[b] EXCEPT ![c] = new] /\ \A u \in Users : u # b => sub'[u] = sub[u]
    BY <1>1, <1>3
  <1>5. \A u \in Users, d \in Creators : sub'[u][d].end = sub[u][d].end
    BY <1>1, <1>2, <1>4
  <1>6. sub' \in [Users -> [Creators -> Row]]
    BY <1>1, <1>2, <1>3
  <1> QED BY <1>5, <1>6

LEMMA CancelInv ==
  ASSUME IInv, NEW b \in Users, NEW c \in Creators, Cancel(b, c)
  PROVE  IInv'
  <1>1. /\ UNCHANGED <<order, wallet, purchases, tips, events, invoiced, pay, done, req, faults>>
        /\ now' \in Nat /\ now <= now' /\ TypeOK
    BY DEF Cancel, extVars, IInv, TypeOK
  <1> QED BY <1>1, CancelKeepsEnds, ClockMoves

LEMMA TickInv ==
  ASSUME IInv, Tick
  PROVE  IInv'
  <1>1. /\ UNCHANGED <<order, wallet, purchases, tips, events, invoiced, pay, done, req, faults>>
        /\ now' \in Nat /\ now <= now' /\ sub' = sub
        /\ sub' \in [Users -> [Creators -> [end: Nat, cancel: BOOLEAN]]]
    BY DEF Tick, dbVars, extVars, IInv, TypeOK
  <1> QED BY <1>1, ClockMoves

-----------------------------------------------------------------------------
(* The commit *)

\* What a request at its commit knows: its order is PENDING and paid for.
LEMMA AtCommit ==
  ASSUME IInv, NEW w \in Workers, req[w].pc = "commit"
  PROVE  LET o == req[w].order
             row == req[w].row
         IN /\ o \in Orders /\ row \in OrderRow /\ order[o] = row /\ row # NoRow
            /\ row.status = "PENDING" /\ PaidFor(o)
            /\ row.buyer \in Users /\ row.target \in Targets
            /\ Seller[row.target] \in Creators /\ row.amount \in Nat
            /\ req[w].note \in Note /\ req[w].end \in Nat
  <1> DEFINE o == req[w].order
             row == req[w].row
             p == req[w].note.payment
  <1>1. RequestOK(w) /\ TypeOK
    BY DEF IInv
  <1>2. /\ row \in OrderRow /\ row.status = "PENDING" /\ order[o] = row /\ order[o] # NoRow
        /\ Accepts(pay[p].cents, row.amount)
    BY <1>1 DEF RequestOK, PendingOK, ClaimedOK, TxSteps
  <1>3. /\ req[w].note \in Note /\ p \in PaymentIds /\ pay[p] # NoPay
        /\ o = pay[p].order /\ pay[p].state = "settled"
    BY <1>1 DEF RequestOK, HookOK, HookSteps, TxSteps, Note
  <1>4. pay[p] \in Payment /\ pay[p].cents \in Nat /\ o \in Orders /\ row.amount \in Nat
    BY <1>1, <1>2, <1>3 DEF TypeOK, Payment, OrderRow
  <1>5. pay[p].cents \in {0} \cup row.amount - 1 .. row.amount + 1
    BY <1>2, <1>4 DEF Accepts
  <1>6. PaidFor(o)
    BY <1>2, <1>3, <1>5 DEF PaidFor, SettledFor, InFull
  <1>7. /\ row.buyer \in Users /\ row.target \in Targets /\ Seller[row.target] \in Creators
    BY <1>2, SellerType DEF OrderRow
  <1>8. req[w].end \in Nat
    BY <1>1 DEF TypeOK, Request
  <1> QED BY <1>2, <1>3, <1>4, <1>6, <1>7, <1>8

\* What the commit does, row by row.
LEMMA CommitRows ==
  ASSUME IInv, NEW w \in Workers, Commit(w)
  PROVE  LET o == req[w].order
             row == req[w].row
             c == Seller[row.target]
         IN /\ order'[o] \in OrderRow /\ order'[o].status = "SUCCEEDED" /\ order'[o] # NoRow
            /\ order'[o].buyer = row.buyer /\ order'[o].target = row.target
            /\ order'[o].amount = row.amount /\ order'[o].provider = row.provider
            /\ \A x \in Orders : x # o => order'[x] = order[x]
            /\ order' \in [Orders -> OrderRow \cup {NoRow}]
            /\ \A b \in Users, d \in Creators :
                  d # c => sub'[b][d] = sub[b][d]
            /\ row.target \notin Plans => sub' = sub
            /\ row.target \in Plans =>
                  sub' = [sub EXCEPT ![row.buyer][c] = [end |-> req[w].end, cancel |-> FALSE]]
            /\ sub' \in [Users -> [Creators -> [end: Nat, cancel: BOOLEAN]]]
            /\ req'[w] = Idle /\ req' \in [Workers -> Request]
            /\ \A v \in Workers : v # w => req'[v] = req[v]
  <1> DEFINE o == req[w].order
             row == req[w].row
             b == row.buyer
             c == Seller[row.target]
             new == [row EXCEPT !.status = "SUCCEEDED"]
             s == [end |-> req[w].end, cancel |-> FALSE]
             Row == [end: Nat, cancel: BOOLEAN]
  <1>1. /\ o \in Orders /\ row \in OrderRow /\ order[o] = row
        /\ b \in Users /\ c \in Creators /\ req[w].end \in Nat /\ TypeOK
    BY AtCommit DEF Commit, IInv
  <1>2. /\ new \in OrderRow /\ new.status = "SUCCEEDED" /\ new.buyer = b
        /\ new.target = row.target /\ new.amount = row.amount /\ new.provider = row.provider
    <2> HIDE DEF row
    <2> QED BY <1>1 DEF OrderRow
  <1>3. order' = [order EXCEPT ![o] = new]
    BY <1>1 DEF Commit
  <1> HIDE DEF new
  <1>4. /\ order'[o] = new /\ \A x \in Orders : x # o => order'[x] = order[x]
        /\ order' \in [Orders -> OrderRow \cup {NoRow}]
    BY <1>1, <1>2, <1>3 DEF TypeOK
  <1>5. /\ row.target \notin Plans => sub' = sub
        /\ row.target \in Plans => sub' = [sub EXCEPT ![b][c] = s]
    BY DEF Commit
  <1>6. /\ sub \in [Users -> [Creators -> Row]] /\ s \in Row
    BY <1>1 DEF TypeOK
  <1>7. /\ \A u \in Users, d \in Creators : d # c => sub'[u][d] = sub[u][d]
        /\ sub' \in [Users -> [Creators -> Row]]
    <2> HIDE DEF s, b, c, row
    <2>1. CASE row.target \notin Plans
      BY <1>5, <1>6, <2>1
    <2>2. CASE row.target \in Plans
      <3>1. sub' = [sub EXCEPT ![b] = [sub[b] EXCEPT ![c] = s]]
        BY <1>1, <1>5, <1>6, <2>2
      <3>2. \A u \in Users : sub'[u] = IF u = b THEN [sub[b] EXCEPT ![c] = s] ELSE sub[u]
        BY <1>6, <3>1
      <3>3. sub[b] \in [Creators -> Row]
        BY <1>1, <1>6
      <3>4. \A u \in Users, d \in Creators : d # c => sub'[u][d] = sub[u][d]
        BY <3>2, <3>3
      <3>5. sub' \in [Users -> [Creators -> Row]]
        BY <1>6, <3>1, <3>3
      <3> QED BY <3>4, <3>5
    <2> QED BY <2>1, <2>2
  <1>8. /\ req'[w] = Idle /\ req' \in [Workers -> Request]
        /\ \A v \in Workers : v # w => req'[v] = req[v]
    BY <1>1, IdleIsRequest DEF Commit, Acknowledge, TypeOK
  <1>9. new # NoRow
    BY <1>2, Absent
  <1> QED BY <1>2, <1>4, <1>5, <1>7, <1>8, <1>9

LEMMA CommitInv ==
  ASSUME IInv, NEW w \in Workers, Commit(w)
  PROVE  IInv'
  <1> DEFINE o == req[w].order
             row == req[w].row
             c == Seller[row.target]
  <1>1. /\ o \in Orders /\ row \in OrderRow /\ order[o] = row /\ row # NoRow
        /\ row.status = "PENDING" /\ PaidFor(o) /\ row.target \in Targets
        /\ c \in Creators /\ row.amount \in Nat /\ req[w].note \in Note
    BY AtCommit DEF Commit
  <1>2. /\ order'[o] \in OrderRow /\ order'[o].status = "SUCCEEDED" /\ order'[o] # NoRow
        /\ order'[o].buyer = row.buyer /\ order'[o].target = row.target
        /\ order'[o].amount = row.amount
        /\ \A x \in Orders : x # o => order'[x] = order[x]
        /\ order' \in [Orders -> OrderRow \cup {NoRow}]
    BY CommitRows
  <1>3. /\ \A b \in Users, d \in Creators : d # c => sub'[b][d] = sub[b][d]
        /\ sub' \in [Users -> [Creators -> [end: Nat, cancel: BOOLEAN]]]
        /\ req'[w] = Idle /\ req' \in [Workers -> Request]
        /\ \A v \in Workers : v # w => req'[v] = req[v]
    BY CommitRows
  <1>4. /\ UNCHANGED <<events, invoiced, pay, now, faults>>
        /\ wallet' = [wallet EXCEPT ![c] = @ + CreatorCents(row.amount)]
        /\ purchases' = IF row.target \in Posts \cup Media THEN purchases \cup {o} ELSE purchases
        /\ tips' = IF row.target \in Creators THEN tips \cup {o} ELSE tips
        /\ done' = done \cup {req[w].note} /\ TypeOK /\ req[w].pc = "commit"
    BY DEF Commit, Acknowledge, extVars, IInv
  <1>5. row.target \in Posts => ~Unlocked(row.buyer, row.target)
    BY <1>4 DEF IInv, RequestOK, StillLocked
  <1> HIDE DEF o, row, c
  <1>6. /\ \A x \in Orders : (order'[x] = NoRow) <=> (order[x] = NoRow)
        /\ \A x \in Orders : order'[x].buyer = order[x].buyer
                             /\ order'[x].target = order[x].target
                             /\ order'[x].amount = order[x].amount
    BY <1>1, <1>2
  <1>7. Fulfilled' = Fulfilled \cup {o} /\ o \notin Fulfilled
    BY <1>1, <1>2 DEF Fulfilled, HasStatus
  <1>8. TypeOK'
    <2>1. wallet[c] + CreatorCents(row.amount) \in Nat
      BY <1>1, <1>4, CreatorCentsNat DEF TypeOK
    <2> QED BY <1>1, <1>2, <1>3, <1>4, <2>1 DEF TypeOK
  <1>9. ASSUME NEW v \in Workers PROVE RequestOK(v)'
    <2>1. CASE v = w
      BY <2>1, <1>3 DEF Idle, At, RequestOK, CheckoutOK, HookOK, PendingOK, ClaimedOK,
         EndOK, StillLocked, CheckoutSteps, HookSteps, TxSteps
    <2>2. CASE v # w
      <3>1. RequestOK(v) /\ req'[v] = req[v]
        BY <2>2, <1>3 DEF IInv
      <3>2. CheckoutOK(v)'
        BY <3>1, <1>6 DEF RequestOK, CheckoutOK
      <3>3. HookOK(v)'
        BY <3>1, <1>4 DEF RequestOK, HookOK
      <3>4. req[v].pc \in HookSteps => req[v].order \in Orders
        BY <1>4, <3>1 DEF RequestOK, HookOK, TypeOK, Note, Payment
      <3>5. PendingOK(v)'
        BY <3>1, <3>4, <1>2, <1>4, <1>6 DEF RequestOK, PendingOK, HasStatus, HookSteps
      <3>6. req[v].pc \in TxSteps => req[v].order # o
        BY <1>4, <2>2 DEF IInv, OrderRowExclusive, TxSteps, o
      <3>7. ClaimedOK(v)'
        BY <3>1, <3>4, <3>6, <1>2 DEF RequestOK, ClaimedOK, HookSteps
      <3>8. req[v].pc \in TxSteps \ {"credit"} => Seller[req[v].row.target] # c
        BY <1>4, <2>2 DEF IInv, WalletRowExclusive, TxSteps, c, row
      <3>9. req[v].pc \in TxSteps => /\ req[v].row.buyer \in Users
                                     /\ req[v].row.target \in Targets
                                     /\ Seller[req[v].row.target] \in Creators
        BY <3>1, SellerType DEF RequestOK, PendingOK, OrderRow
      <3>10. EndOK(v)'
        <4>1. CASE req[v].pc \in {"grant", "commit"}
          <5>1. sub'[req[v].row.buyer][Seller[req[v].row.target]]
                  = sub[req[v].row.buyer][Seller[req[v].row.target]]
            BY <1>3, <3>8, <3>9, <4>1 DEF TxSteps
          <5> QED BY <3>1, <5>1, <1>4 DEF RequestOK, EndOK
        <4>2. CASE req[v].pc \notin {"grant", "commit"}
          BY <3>1, <4>2 DEF EndOK
        <4> QED BY <4>1, <4>2
      <3>11. StillLocked(v)'
        <4>1. SUFFICES ASSUME req[v].pc = "commit", req[v].row.target \in Posts,
                              NEW x \in purchases',
                              order'[x].buyer = req[v].row.buyer,
                              order'[x].target = req[v].row.target
                       PROVE  FALSE
          BY <3>1 DEF StillLocked, Unlocked
        <4>2. row.target # req[v].row.target
          BY <3>8, <4>1 DEF TxSteps, c
        <4>3. x # o
          BY <4>1, <4>2, <1>2
        <4>4. x \in purchases /\ x \in Orders
          BY <4>1, <4>3, <1>4 DEF TypeOK
        <4> QED BY <3>1, <4>1, <4>4, <1>6 DEF RequestOK, StillLocked, Unlocked
      <3> QED BY <3>2, <3>3, <3>5, <3>7, <3>10, <3>11 DEF RequestOK
    <2> QED BY <2>1, <2>2
  <1>10. (ReferencesFresh /\ OrderRowExclusive /\ WalletRowExclusive)'
    BY <1>3 DEF IInv, Idle, At, ReferencesFresh, OrderRowExclusive, WalletRowExclusive, TxSteps
  <1>11. (InvoicedIsRecorded /\ PaymentsKnown)'
    BY <1>4, <1>6 DEF IInv, InvoicedIsRecorded, PaymentsKnown, TypeOK
  <1>12. \A x \in Orders : PaidFor(x) => PaidFor(x)'
    BY <1>4, <1>6 DEF PaidFor, SettledFor, InFull
  <1>13. NeverWithoutPayment'
    BY <1>1, <1>7, <1>12 DEF IInv, NeverWithoutPayment, Fulfilled
  <1>14. GrantsMatchOrders'
    BY <1>1, <1>2, <1>4, <1>6, <1>7 DEF IInv, GrantsMatchOrders, Fulfilled
  <1>15. OnePurchasePerPost'
    <2>1. ASSUME NEW x \in purchases', NEW y \in purchases', order'[x].target \in Posts,
                 order'[x].target = order'[y].target, order'[x].buyer = order'[y].buyer
          PROVE  x = y
      <3>1. x \in Orders /\ y \in Orders
        BY <1>1, <1>4 DEF TypeOK
      <3>2. CASE x \in purchases /\ y \in purchases
        BY <2>1, <3>1, <3>2, <1>6 DEF IInv, OnePurchasePerPost
      <3>3. CASE x = o /\ y \in purchases
        BY <2>1, <3>1, <3>3, <1>2, <1>5, <1>6 DEF Unlocked
      <3>4. CASE y = o /\ x \in purchases
        BY <2>1, <3>1, <3>4, <1>2, <1>5, <1>6 DEF Unlocked
      <3> QED BY <3>2, <3>3, <3>4, <1>4
    <2> QED BY <2>1 DEF OnePurchasePerPost
  <1> QED BY <1>8, <1>9, <1>10, <1>11, <1>13, <1>14, <1>15 DEF IInv

-----------------------------------------------------------------------------
(* The inductive invariant holds of every behaviour *)

LEMMA StutterInv == IInv /\ UNCHANGED vars => IInv'
  <1> SUFFICES ASSUME IInv, UNCHANGED vars PROVE IInv'
    OBVIOUS
  <1>1. UNCHANGED <<order, wallet, sub, purchases, tips, events, now,
                    invoiced, pay, done, req, faults>>
    BY DEF vars
  <1>2. sub' \in [Users -> [Creators -> [end: Nat, cancel: BOOLEAN]]] /\ now' \in Nat /\ now <= now'
    BY <1>1 DEF IInv, TypeOK
  <1> QED BY <1>1, <1>2, ClockMoves

LEMMA NextInv == IInv /\ [Next]_vars => IInv'
  <1> SUFFICES ASSUME IInv, [Next]_vars PROVE IInv'
    OBVIOUS
  <1>1. ASSUME NEW w \in Workers, NEW b \in Users, NEW t \in Targets, NEW o \in Orders,
               NEW provider \in Providers, StartCheckout(w, b, t, o, provider)
        PROVE  IInv'
    BY <1>1, CheckoutBegins, BeginCheckoutInv
  <1>2. ASSUME NEW w \in Workers, NEW n \in Note, Receive(w, n) PROVE IInv'
    BY <1>2, ReceiveInv
  <1>3. ASSUME NEW w \in Workers, Step(w) PROVE IInv'
    BY <1>3, PersistOrderInv, OpenInvoiceInv, CaptureInv, MarkEventInv, ReadOrderInv,
       ClaimOrderInv, CreditWalletInv, ReadSubscriptionInv, GrantInv, EndingStepsInv,
       CommitInv DEF Step
  <1>4. ASSUME NEW w \in Workers, CaptureRefused(w) \/ MarkEventFails(w) \/ Fail(w) PROVE IInv'
    BY <1>4, EndingStepsInv
  <1>5. ASSUME NEW p \in PaymentIds, (\E o \in Orders : BuyerPays(p, o)) \/ Settle(p) PROVE IInv'
    BY <1>5, ProviderStepsInv
  <1>6. ASSUME NEW b \in Users, NEW c \in Creators, Cancel(b, c) PROVE IInv'
    BY <1>6, CancelInv
  <1>7. CASE Tick
    BY <1>7, TickInv
  <1>8. CASE UNCHANGED vars
    BY <1>8, StutterInv
  <1> QED BY <1>1, <1>2, <1>3, <1>4, <1>5, <1>6, <1>7, <1>8 DEF Next

\* IInv holds in every reachable state.
THEOREM Invariance == Spec => []IInv
  <1>1. IInv /\ [Next]_vars => IInv'
    BY NextInv
  <1> QED BY InitInv, <1>1, PTL DEF Spec

\* Type correctness of Payments.
THEOREM TypeCorrect == Spec => []TypeOK
  <1>1. IInv => TypeOK
    BY DEF IInv
  <1> QED BY Invariance, <1>1, PTL

\* fulfillOrder: no order ever succeeds without a settled payment for it that
\* reports its amount, up to a cent, or reports none; under any interleaving,
\* replay or crash (the run `unreported` shows that the latter is granted).
THEOREM PaidBeforeGranted == Spec => []NeverWithoutPayment
  <1>1. IInv => NeverWithoutPayment
    BY DEF IInv
  <1> QED BY Invariance, <1>1, PTL

\* The Purchase and Tip rows are exactly those of the succeeded orders.
THEOREM AllOrNothing == Spec => []GrantsMatchOrders
  <1>1. IInv => GrantsMatchOrders
    BY DEF IInv
  <1> QED BY Invariance, <1>1, PTL

\* No buyer ever holds two Purchase rows for one post.
THEOREM PostBoughtOnce == Spec => []OnePurchasePerPost
  <1>1. IInv => OnePurchasePerPost
    BY DEF IInv
  <1> QED BY Invariance, <1>1, PTL

-----------------------------------------------------------------------------
(* Steps no customer can see *)

\* The steps of a request that only move it along.
Quiet(w) ==
    \/ \E b \in Users, t \in Targets, o \in Orders, provider \in Providers :
          StartCheckout(w, b, t, o, provider)
    \/ \E n \in Note : Receive(w, n)
    \/ OpenInvoice(w) \/ MarkEvent(w) \/ ReadOrder(w) \/ ClaimOrder(w) \/ CreditWallet(w)
    \/ ReadSubscription(w) \/ Grant(w) \/ GrantConflicts(w)
    \/ CaptureRefused(w) \/ MarkEventFails(w) \/ Fail(w)

LEMMA QuietSteps ==
  ASSUME NEW w \in Workers, Quiet(w)
  PROVE  UNCHANGED <<order, wallet, sub, purchases, tips, now, pay>>
  <1>1. CASE \/ \E b \in Users, t \in Targets, o \in Orders, provider \in Providers :
                  StartCheckout(w, b, t, o, provider)
             \/ \E n \in Note : Receive(w, n)
    BY <1>1, CheckoutBegins DEF BeginCheckout, Receive, dbVars, extVars
  <1>2. CASE OpenInvoice(w) \/ MarkEvent(w) \/ ReadOrder(w) \/ ClaimOrder(w) \/ CreditWallet(w)
    BY <1>2 DEF OpenInvoice, MarkEvent, ReadOrder, ClaimOrder, CreditWallet, dbVars, extVars
  <1>3. CASE ReadSubscription(w) \/ Grant(w) \/ GrantConflicts(w)
    BY <1>3 DEF ReadSubscription, Grant, GrantConflicts, dbVars, extVars
  <1>4. CASE CaptureRefused(w) \/ MarkEventFails(w) \/ Fail(w)
    BY <1>4 DEF CaptureRefused, MarkEventFails, Fail, dbVars, extVars
  <1> QED BY <1>1, <1>2, <1>3, <1>4 DEF Quiet

-----------------------------------------------------------------------------
(* Paid time never shrinks *)

\* Any step but a commit leaves every period end where it is.
LEMMA OnlyCommitsMoveEnds ==
  ASSUME IInv, [Next]_vars, \A w \in Workers : ~Commit(w),
         NEW b \in Users, NEW c \in Creators
  PROVE  sub'[b][c].end = sub[b][c].end
  <1>1. CASE \E u \in Users, d \in Creators : Cancel(u, d)
    BY <1>1, CancelKeepsEnds DEF IInv
  <1>2. CASE ~\E u \in Users, d \in Creators : Cancel(u, d)
    <2>1. CASE \E w \in Workers : Quiet(w)
      BY <2>1, QuietSteps
    <2>2. CASE \E w \in Workers : PersistOrder(w) \/ Capture(w)
      BY <2>2 DEF PersistOrder, Capture, dbVars
    <2>3. CASE \E p \in PaymentIds : Settle(p) \/ \E o \in Orders : BuyerPays(p, o)
      BY <2>3 DEF Settle, BuyerPays, dbVars
    <2>4. CASE Tick \/ UNCHANGED vars
      BY <2>4 DEF Tick, dbVars, vars
    <2> QED BY <1>2, <2>1, <2>2, <2>3, <2>4 DEF Next, Step, Quiet
  <1> QED BY <1>1, <1>2

\* A commit writes an end that still extends the one in the row: the request
\* has held the creator's wallet row since before it read the subscription.
LEMMA CommitExtends ==
  ASSUME IInv, NEW w \in Workers, Commit(w), NEW b \in Users, NEW c \in Creators
  PROVE  LET row == req[w].row
         IN  /\ sub'[b][c].end >= sub[b][c].end
             /\ row.target \in Plans /\ b = row.buyer /\ c = Seller[row.target] =>
                    sub'[b][c].end >= sub[b][c].end + Months[row.target]
  <1> DEFINE row == req[w].row
  <1>1. /\ row.buyer \in Users /\ row.target \in Targets /\ Seller[row.target] \in Creators
        /\ req[w].end \in Nat /\ req[w].pc = "commit" /\ EndOK(w) /\ TypeOK
    BY AtCommit DEF Commit, IInv, RequestOK
  <1>2. sub[b][c] \in [end: Nat, cancel: BOOLEAN] /\ now \in Nat
    BY <1>1 DEF TypeOK
  <1>3. /\ \A u \in Users, d \in Creators : d # Seller[row.target] => sub'[u][d] = sub[u][d]
        /\ row.target \notin Plans => sub' = sub
        /\ row.target \in Plans =>
              sub' = [sub EXCEPT ![row.buyer][Seller[row.target]] =
                                    [end |-> req[w].end, cancel |-> FALSE]]
    BY CommitRows
  <1>4. CASE row.target \notin Plans
    BY <1>2, <1>3, <1>4
  <1>5. CASE row.target \in Plans
    <2>1. Months[row.target] \in Nat
      BY <1>5, MonthsType
    <2>2. CASE c = Seller[row.target] /\ b = row.buyer
      <3>1. sub[b] \in [Creators -> [end: Nat, cancel: BOOLEAN]] /\ sub \in [Users -> [Creators -> [end: Nat, cancel: BOOLEAN]]]
        BY <1>1 DEF TypeOK
      <3>2. sub'[b][c] = [end |-> req[w].end, cancel |-> FALSE]
        <4> HIDE DEF row
        <4> QED BY <1>3, <1>5, <2>2, <3>1
      <3>3. \/ req[w].end = sub[b][c].end + Months[row.target]
            \/ /\ sub[b][c].end <= req[w].end - Months[row.target]
               /\ req[w].end - Months[row.target] <= now
        BY <1>1, <1>5, <2>2 DEF EndOK
      <3>4. sub'[b][c].end >= sub[b][c].end + Months[row.target]
        <4> HIDE DEF row
        <4> QED BY <1>1, <1>2, <2>1, <3>2, <3>3
      <3>5. sub'[b][c].end \in Nat
        BY <1>1, <3>2
      <3> QED BY <1>2, <2>1, <3>4, <3>5
    <2>3. CASE c # Seller[row.target]
      BY <1>2, <1>3, <2>3
    <2>4. CASE b # row.buyer
      <3>1. sub'[b] = sub[b]
        <4> HIDE DEF row
        <4> QED BY <1>1, <1>3, <1>5, <2>4 DEF TypeOK
      <3> QED BY <1>2, <2>4, <3>1
    <2> QED BY <2>2, <2>3, <2>4
  <1> QED BY <1>4, <1>5

\* subscriptions.cancel and fulfillOrder: no step, by any interleaving of
\* renewals and cancellations, ever takes back time that was paid for.
THEOREM PaidTimeKept == Spec => PaidTimeNeverShrinks
  <1>1. ASSUME IInv, [Next]_vars, NEW b \in Users, NEW c \in Creators
        PROVE  sub'[b][c].end >= sub[b][c].end
    <2>1. CASE \E w \in Workers : Commit(w)
      BY <1>1, <2>1, CommitExtends
    <2>2. CASE \A w \in Workers : ~Commit(w)
      <3>1. sub'[b][c].end = sub[b][c].end
        BY <1>1, <2>2, OnlyCommitsMoveEnds
      <3>2. sub[b][c].end \in Nat
        BY <1>1 DEF IInv, TypeOK
      <3> QED BY <3>1, <3>2
    <2> QED BY <2>1, <2>2
  <1>2. IInv /\ [Next]_vars =>
          [\A b \in Users, c \in Creators : sub'[b][c].end >= sub[b][c].end]_vars
    BY <1>1
  <1> QED BY Invariance, <1>2, PTL DEF Spec, PaidTimeNeverShrinks

-----------------------------------------------------------------------------
(* The books *)

LEMMA SucceededRow ==
  ASSUME IInv, NEW o \in Fulfilled
  PROVE  /\ o \in Orders /\ order[o] \in OrderRow /\ order[o] # NoRow
         /\ order[o].status = "SUCCEEDED"
         /\ Credits[o] = CreatorCents(order[o].amount) /\ Credits[o] \in Nat
         /\ PaidMonths[o] = IF order[o].target \in Plans THEN Months[order[o].target] ELSE 0
         /\ PaidMonths[o] \in Nat
  <1>1. o \in Orders /\ order[o] # NoRow /\ order[o].status = "SUCCEEDED"
    BY DEF Fulfilled, HasStatus
  <1>2. order[o] \in OrderRow
    BY <1>1 DEF IInv, TypeOK
  <1>3. order[o].amount \in Nat
    BY <1>2 DEF OrderRow
  <1>4. Credits[o] = CreatorCents(order[o].amount)
    BY DEF Credits
  <1>5. PaidMonths[o] = IF order[o].target \in Plans THEN Months[order[o].target] ELSE 0
    BY DEF PaidMonths
  <1>6. PaidMonths[o] \in Nat
    BY <1>5, MonthsType
  <1> QED BY <1>1, <1>2, <1>3, <1>4, <1>5, <1>6, CreatorCentsNat

\* Only a commit makes an order succeed, changes one that has, or moves money.
LEMMA OnlyCommitsFulfil ==
  ASSUME IInv, [Next]_vars, \A w \in Workers : ~Commit(w)
  PROVE  /\ Fulfilled' = Fulfilled /\ wallet' = wallet
         /\ \A o \in Fulfilled : order'[o] = order[o]
  <1>1. CASE UNCHANGED <<order, wallet>>
    BY <1>1 DEF Fulfilled, HasStatus
  <1>2. CASE \E w \in Workers : PersistOrder(w)
    <2>1. PICK w \in Workers : PersistOrder(w)
      BY <1>2
    <2> DEFINE o == req[w].order
               row == req[w].row
    <2>2. /\ o \in Orders /\ row \in OrderRow /\ row.status = "PENDING" /\ order[o] = NoRow
          /\ order' = [order EXCEPT ![o] = row] /\ wallet' = wallet
      BY <2>1 DEF IInv, RequestOK, CheckoutOK, CheckoutSteps, PersistOrder
    <2> HIDE DEF o, row
    <2>3. /\ order'[o] = row /\ \A x \in Orders : x # o => order'[x] = order[x]
      BY <2>2 DEF IInv, TypeOK
    <2>4. o \notin Fulfilled /\ o \notin Fulfilled'
      BY <2>2, <2>3 DEF Fulfilled, HasStatus
    <2>5. \A x \in Orders : x # o => (x \in Fulfilled' <=> x \in Fulfilled)
      BY <2>3 DEF Fulfilled, HasStatus
    <2>6. Fulfilled \subseteq Orders /\ Fulfilled' \subseteq Orders
      BY DEF Fulfilled
    <2> QED BY <2>2, <2>3, <2>4, <2>5, <2>6
  <1>3. CASE \E w \in Workers : Quiet(w)
    BY <1>1, <1>3, QuietSteps
  <1>4. CASE \E w \in Workers : Capture(w)
    BY <1>1, <1>4 DEF Capture, dbVars
  <1>5. CASE \E p \in PaymentIds : Settle(p) \/ \E o \in Orders : BuyerPays(p, o)
    BY <1>1, <1>5 DEF Settle, BuyerPays, dbVars
  <1>6. CASE Tick \/ UNCHANGED vars \/ \E b \in Users, c \in Creators : Cancel(b, c)
    BY <1>1, <1>6 DEF Tick, Cancel, dbVars, vars
  <1> QED BY <1>2, <1>3, <1>4, <1>5, <1>6 DEF Next, Step, Quiet

\* A commit makes its order succeed and no other.
LEMMA CommitSettles ==
  ASSUME IInv, NEW w \in Workers, Commit(w)
  PROVE  LET o == req[w].order
         IN  /\ o \in Orders /\ o \notin Fulfilled
             /\ Fulfilled' = Fulfilled \cup {o}
             /\ \A x \in Fulfilled : order'[x] = order[x]
  <1> DEFINE o == req[w].order
  <1>1. o \in Orders /\ o \notin Fulfilled
    <2>1. o \in Orders /\ order[o].status = "PENDING"
      BY AtCommit DEF Commit
    <2> QED BY <2>1 DEF Fulfilled, HasStatus
  <1>2. /\ order'[o] # NoRow /\ order'[o].status = "SUCCEEDED"
        /\ \A x \in Orders : x # o => order'[x] = order[x]
    BY CommitRows
  <1> HIDE DEF o
  <1>3. \A x \in Orders : x \in Fulfilled' <=> x = o \/ x \in Fulfilled
    BY <1>1, <1>2 DEF Fulfilled, HasStatus
  <1>4. Fulfilled \subseteq Orders /\ Fulfilled' \subseteq Orders
    BY DEF Fulfilled
  <1>5. Fulfilled' = Fulfilled \cup {o}
    BY <1>1, <1>3, <1>4
  <1>6. \A x \in Fulfilled : order'[x] = order[x]
    BY <1>1, <1>2, <1>4
  <1> QED BY <1>1, <1>5, <1>6 DEF o

\* The sets the books add up over are finite, and their members have succeeded.
LEMMA BookedSets ==
  ASSUME IsFiniteSet(Fulfilled)
  PROVE  /\ \A c : IsFiniteSet(SoldBy(c)) /\ SoldBy(c) \subseteq Fulfilled
         /\ \A b, c : IsFiniteSet(PlanOrders(b, c)) /\ PlanOrders(b, c) \subseteq Fulfilled
  <1>1. \A c : SoldBy(c) \subseteq Fulfilled
    BY DEF SoldBy
  <1>2. \A b, c : PlanOrders(b, c) \subseteq Fulfilled
    BY DEF PlanOrders
  <1> QED BY <1>1, <1>2, FS_Subset

\* Steps that leave what has succeeded alone keep the books.
LEMMA BooksStand ==
  ASSUME IInv, LInv, Fulfilled' = Fulfilled, wallet' = wallet,
         \A o \in Fulfilled : order'[o] = order[o],
         \A b \in Users, c \in Creators : sub'[b][c].end = sub[b][c].end
  PROVE  LInv'
  <1>1. Credits' = Credits /\ PaidMonths' = PaidMonths
    BY DEF Credits, PaidMonths
  <1>2. \A c \in Creators : SoldBy(c)' = SoldBy(c)
    BY DEF SoldBy
  <1>3. \A b \in Users, c \in Creators : PlanOrders(b, c)' = PlanOrders(b, c)
    BY DEF PlanOrders
  <1>4. LedgerBalances'
    BY <1>1, <1>2 DEF LInv, LedgerBalances
  <1>5. PaidTimeHonoured'
    BY <1>1, <1>3 DEF LInv, PaidTimeHonoured
  <1> QED BY <1>4, <1>5 DEF LInv

\* What one more succeeded order adds to the sums.
LEMMA CommitBooks ==
  ASSUME IInv, LInv, NEW w \in Workers, Commit(w)
  PROVE  LET o == req[w].order
             row == req[w].row
         IN  /\ \A c \in Creators :
                   SumFunctionOnSet(Credits, SoldBy(c))' =
                       IF c = Seller[row.target]
                       THEN CreatorCents(row.amount) + SumFunctionOnSet(Credits, SoldBy(c))
                       ELSE SumFunctionOnSet(Credits, SoldBy(c))
             /\ \A b \in Users, c \in Creators :
                   SumFunctionOnSet(PaidMonths, PlanOrders(b, c))' =
                       IF row.target \in Plans /\ b = row.buyer /\ c = Seller[row.target]
                       THEN Months[row.target] + SumFunctionOnSet(PaidMonths, PlanOrders(b, c))
                       ELSE SumFunctionOnSet(PaidMonths, PlanOrders(b, c))
  <1> DEFINE o == req[w].order
             row == req[w].row
             d == Seller[row.target]
  <1>1. /\ o \in Orders /\ o \notin Fulfilled
        /\ Fulfilled' = Fulfilled \cup {o}
        /\ \A x \in Fulfilled : order'[x] = order[x]
    BY CommitSettles
  <1>2. /\ order'[o].buyer = row.buyer /\ order'[o].target = row.target
        /\ order'[o].amount = row.amount /\ CreatorCents(row.amount) \in Nat
    BY CommitRows, AtCommit, CreatorCentsNat DEF Commit
  <1> HIDE DEF o, row
  <1>3. /\ Credits'[o] = CreatorCents(row.amount)
        /\ \A x \in Fulfilled : Credits'[x] = Credits[x] /\ Credits[x] \in Nat
    <2>1. \A x \in Fulfilled' : Credits'[x] = CreatorCents(order'[x].amount)
      BY DEF Credits
    <2> QED BY <1>1, <1>2, <2>1, SucceededRow
  <1>4. /\ PaidMonths'[o] = IF row.target \in Plans THEN Months[row.target] ELSE 0
        /\ PaidMonths'[o] \in Nat
        /\ \A x \in Fulfilled : PaidMonths'[x] = PaidMonths[x] /\ PaidMonths[x] \in Nat
    <2>1. \A x \in Fulfilled' :
             PaidMonths'[x] = IF order'[x].target \in Plans THEN Months[order'[x].target] ELSE 0
      BY DEF PaidMonths
    <2> QED BY <1>1, <1>2, <2>1, SucceededRow, MonthsType
  <1>5. \A c \in Creators : SoldBy(c)' = IF c = d THEN SoldBy(c) \cup {o} ELSE SoldBy(c)
    BY <1>1, <1>2 DEF SoldBy
  <1>6. \A b \in Users, c \in Creators :
            PlanOrders(b, c)' = IF row.target \in Plans /\ b = row.buyer /\ c = d
                                THEN PlanOrders(b, c) \cup {o} ELSE PlanOrders(b, c)
    BY <1>1, <1>2 DEF PlanOrders
  <1>7. IsFiniteSet(Fulfilled)
    BY DEF LInv
  <1> HIDE DEF d
  <1>8. ASSUME NEW c \in Creators
        PROVE  SumFunctionOnSet(Credits', SoldBy(c)') =
                   IF c = d THEN CreatorCents(row.amount) + SumFunctionOnSet(Credits, SoldBy(c))
                   ELSE SumFunctionOnSet(Credits, SoldBy(c))
    <2> DEFINE S == SoldBy(c)
    <2>1. IsFiniteSet(S) /\ S \subseteq Fulfilled
      BY <1>7, BookedSets
    <2> HIDE DEF S
    <2>2. o \notin S /\ \A x \in S : Credits[x] \in Nat /\ Credits'[x] = Credits[x]
      BY <1>1, <1>3, <2>1
    <2>3. SumFunctionOnSet(Credits', S) = SumFunctionOnSet(Credits, S)
      BY <2>1, <2>2, SumOfEqual
    <2>4. SumFunctionOnSet(Credits', S \cup {o}) = Credits'[o] + SumFunctionOnSet(Credits, S)
      BY <1>2, <1>3, <2>1, <2>2, SumWithOneMore
    <2> QED BY <1>3, <1>5, <2>3, <2>4 DEF S
  <1>9. ASSUME NEW b \in Users, NEW c \in Creators
        PROVE  SumFunctionOnSet(PaidMonths', PlanOrders(b, c)') =
                   IF row.target \in Plans /\ b = row.buyer /\ c = d
                   THEN Months[row.target] + SumFunctionOnSet(PaidMonths, PlanOrders(b, c))
                   ELSE SumFunctionOnSet(PaidMonths, PlanOrders(b, c))
    <2> DEFINE S == PlanOrders(b, c)
    <2>1. IsFiniteSet(S) /\ S \subseteq Fulfilled
      BY <1>7, BookedSets
    <2> HIDE DEF S
    <2>2. o \notin S /\ \A x \in S : PaidMonths[x] \in Nat /\ PaidMonths'[x] = PaidMonths[x]
      BY <1>1, <1>4, <2>1
    <2>3. SumFunctionOnSet(PaidMonths', S) = SumFunctionOnSet(PaidMonths, S)
      BY <2>1, <2>2, SumOfEqual
    <2>4. SumFunctionOnSet(PaidMonths', S \cup {o}) = PaidMonths'[o] + SumFunctionOnSet(PaidMonths, S)
      BY <1>4, <2>1, <2>2, SumWithOneMore
    <2> QED BY <1>4, <1>6, <2>3, <2>4 DEF S
  <1> QED BY <1>8, <1>9 DEF o, row, d

LEMMA CommitBalances ==
  ASSUME IInv, LInv, NEW w \in Workers, Commit(w)
  PROVE  LInv'
  <1> DEFINE o == req[w].order
             row == req[w].row
             d == Seller[row.target]
  <1>1. IsFiniteSet(Fulfilled')
    BY CommitSettles, FS_AddElement DEF LInv
  <1>2. ASSUME NEW c \in Creators
        PROVE  wallet'[c] = SumFunctionOnSet(Credits, SoldBy(c))'
    <2>1. /\ wallet' = [wallet EXCEPT ![d] = @ + CreatorCents(row.amount)]
          /\ d \in Creators /\ wallet \in [Creators -> Nat] /\ CreatorCents(row.amount) \in Nat
      BY AtCommit, CreatorCentsNat DEF Commit, IInv, TypeOK
    <2>2. wallet[c] = SumFunctionOnSet(Credits, SoldBy(c))
      BY DEF LInv, LedgerBalances
    <2>3. SumFunctionOnSet(Credits, SoldBy(c))' =
              IF c = d THEN CreatorCents(row.amount) + SumFunctionOnSet(Credits, SoldBy(c))
              ELSE SumFunctionOnSet(Credits, SoldBy(c))
      BY CommitBooks
    <2> HIDE DEF d, row
    <2>4. wallet'[c] = IF c = d THEN wallet[c] + CreatorCents(row.amount) ELSE wallet[c]
      BY <2>1
    <2>5. wallet[c] \in Nat
      BY <2>1
    <2> QED BY <2>1, <2>2, <2>3, <2>4, <2>5
  <1>3. ASSUME NEW b \in Users, NEW c \in Creators
        PROVE  sub'[b][c].end >= SumFunctionOnSet(PaidMonths, PlanOrders(b, c))'
    <2> DEFINE mine == row.target \in Plans /\ b = row.buyer /\ c = d
               sum == SumFunctionOnSet(PaidMonths, PlanOrders(b, c))
    <2>1. SumFunctionOnSet(PaidMonths, PlanOrders(b, c))' =
              IF mine THEN Months[row.target] + sum ELSE sum
      BY CommitBooks
    <2>2. /\ sub'[b][c].end >= sub[b][c].end
          /\ mine => sub'[b][c].end >= sub[b][c].end + Months[row.target]
      BY CommitExtends
    <2>3. sub[b][c].end >= sum
      BY DEF LInv, PaidTimeHonoured
    <2>4. sum \in Nat
      <3>1. IsFiniteSet(PlanOrders(b, c)) /\ PlanOrders(b, c) \subseteq Fulfilled
        BY BookedSets DEF LInv
      <3>2. \A x \in PlanOrders(b, c) : PaidMonths[x] \in Nat
        BY <3>1, SucceededRow
      <3> QED BY <3>1, <3>2, SumIsNat
    <2>5. sub[b][c].end \in Nat
      BY DEF IInv, TypeOK
    <2>6. sub'[b][c].end \in Nat
      BY CommitRows
    <2>7. mine => Months[row.target] \in Nat
      BY MonthsType
    <2> HIDE DEF mine, sum, row
    <2> QED BY <2>1, <2>2, <2>3, <2>4, <2>5, <2>6, <2>7
  <1> QED BY <1>1, <1>2, <1>3 DEF LInv, LedgerBalances, PaidTimeHonoured

LEMMA InitBalances == Init => LInv
  <1> SUFFICES ASSUME Init PROVE LInv
    OBVIOUS
  <1>1. Fulfilled = {}
    BY DEF Init, Fulfilled, HasStatus
  <1>2. IsFiniteSet(Fulfilled)
    BY <1>1, FS_EmptySet
  <1>3. \A c \in Creators : SoldBy(c) = {}
    BY <1>1 DEF SoldBy
  <1>4. \A b \in Users, c \in Creators : PlanOrders(b, c) = {}
    BY <1>1 DEF PlanOrders
  <1>5. LedgerBalances
    <2>1. \A c \in Creators : SumFunctionOnSet(Credits, SoldBy(c)) = 0
      BY <1>3, SumOfNone
    <2>2. \A c \in Creators : wallet[c] = 0
      BY DEF Init
    <2> QED BY <2>1, <2>2 DEF LedgerBalances
  <1>6. PaidTimeHonoured
    <2>1. \A b \in Users, c \in Creators : SumFunctionOnSet(PaidMonths, PlanOrders(b, c)) = 0
      BY <1>4, SumOfNone
    <2>2. \A b \in Users, c \in Creators : sub[b][c].end = 0
      BY DEF Init
    <2> QED BY <2>1, <2>2 DEF PaidTimeHonoured
  <1> QED BY <1>2, <1>5, <1>6 DEF LInv

LEMMA NextBalances == IInv /\ LInv /\ [Next]_vars => LInv'
  <1> SUFFICES ASSUME IInv, LInv, [Next]_vars PROVE LInv'
    OBVIOUS
  <1>1. CASE \E w \in Workers : Commit(w)
    BY <1>1, CommitBalances
  <1>2. CASE \A w \in Workers : ~Commit(w)
    BY <1>2, OnlyCommitsFulfil, OnlyCommitsMoveEnds, BooksStand
  <1> QED BY <1>1, <1>2

LEMMA BooksAlways == Spec => []LInv
  BY InitBalances, NextBalances, Invariance, PTL DEF Spec

\* fulfillOrder: whatever is delivered twice, crashes or runs side by side, and over any
\* number of orders, a wallet holds what its creator's succeeded orders earned, each once.
THEOREM LedgerKept == Spec => []LedgerBalances
  <1>1. LInv => LedgerBalances
    BY DEF LInv
  <1> QED BY <1>1, BooksAlways, PTL

\* fulfillOrder: renewals bought side by side extend each other, and no month that was
\* paid for is lost.
THEOREM MonthsKept == Spec => []PaidTimeHonoured
  <1>1. LInv => PaidTimeHonoured
    BY DEF LInv
  <1> QED BY <1>1, BooksAlways, PTL

=============================================================================
