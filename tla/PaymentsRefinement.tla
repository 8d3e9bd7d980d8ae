------------------------- MODULE PaymentsRefinement -------------------------
(***************************************************************************)
(* Payments implements OrderBook, for every value of the constants.        *)
(***************************************************************************)
EXTENDS PaymentsProofs

Paid == {o \in Orders : PaidFor(o)}

LEMMA BookInit == Init => Book!Init
  BY DEF Init, Book!Init, PaidFor, SettledFor, InFull

LEMMA BookVars ==
  ASSUME UNCHANGED <<order, wallet, sub, purchases, tips, now>>, Paid' = Paid
  PROVE  UNCHANGED Book!vars
  BY DEF Book!vars, Paid

LEMMA SamePayments ==
  ASSUME UNCHANGED <<order, pay>>
  PROVE  Paid' = Paid
  BY DEF Paid, PaidFor, SettledFor, InFull

\* Writing the PENDING row opens the order; nobody has paid it before.
LEMMA PersistOpens ==
  ASSUME IInv, NEW w \in Workers, PersistOrder(w)
  PROVE  Book!Open(req[w].order) /\ req[w].order \in Orders
  <1> DEFINE o == req[w].order
  <1>1. /\ o \in Orders /\ order[o] = NoRow /\ req[w].row \in OrderRow
        /\ req[w].row.status = "PENDING" /\ req[w].row.buyer # Seller[req[w].row.target]
    BY DEF PersistOrder, IInv, RequestOK, CheckoutOK, CheckoutSteps
  <1>2. /\ order' = [order EXCEPT ![o] = req[w].row] /\ TypeOK
        /\ UNCHANGED <<wallet, sub, purchases, tips, now, pay>>
    BY DEF PersistOrder, extVars, IInv
  <1>3. order'[o] = req[w].row /\ \A x \in Orders : x # o => order'[x] = order[x]
    BY <1>1, <1>2 DEF TypeOK
  <1>4. \A p \in PaymentIds : pay[p] # NoPay => pay[p].order # o
    BY <1>1 DEF IInv, PaymentsKnown, InvoicedIsRecorded
  <1> HIDE DEF o
  <1>5. \A x \in Orders : PaidFor(x)' <=> PaidFor(x)
    BY <1>2, <1>3, <1>4 DEF PaidFor, SettledFor, InFull
  <1>6. Paid' = Paid
    BY <1>5 DEF Paid
  <1>7. order' = [order EXCEPT ![o] = order'[o]] /\ order'[o] \in OrderRow
    BY <1>1, <1>2, <1>3
  <1>8. Book!OrderRow = OrderRow
    BY DEF Book!OrderRow, OrderRow, Book!Targets, Targets
  <1>9. Book!Open(o)
    BY <1>1, <1>2, <1>3, <1>6, <1>7, <1>8 DEF Book!Open, Paid
  <1> QED BY <1>1, <1>9 DEF o

\* A payment becoming settled is the money arriving, or nothing new when it
\* was settled before or reports another amount.
LEMMA SettlingPays ==
  ASSUME IInv, NEW p \in PaymentIds, pay[p] # NoPay,
         UNCHANGED <<order, wallet, sub, purchases, tips, now>>,
         pay' = [pay EXCEPT ![p].state = "settled"]
  PROVE  Book!Pay(pay[p].order) \/ UNCHANGED Book!vars
  <1>0. PICK o : o = pay[p].order
    OBVIOUS
  <1>1. pay[p] \in Payment /\ pay \in [PaymentIds -> Payment \cup {NoPay}]
        /\ o \in Orders /\ order[o] # NoRow
    BY <1>0 DEF IInv, TypeOK, PaymentsKnown, InvoicedIsRecorded, Payment
  <1>2. /\ pay'[p] \in Payment /\ pay'[p].order = o
        /\ pay'[p].cents = pay[p].cents /\ pay'[p].state = "settled"
    BY <1>0, <1>1 DEF Payment
  <1>3. pay'[p] # NoPay /\ \A q \in PaymentIds : q # p => pay'[q] = pay[q]
    BY <1>1, <1>2, Absent
  <1>4. \A x \in Orders : PaidFor(x) => PaidFor(x)'
    <2>1. \A q \in PaymentIds : pay[q] # NoPay =>
             /\ pay'[q] # NoPay /\ pay'[q].order = pay[q].order
             /\ pay'[q].cents = pay[q].cents
             /\ pay[q].state = "settled" => pay'[q].state = "settled"
      BY <1>2, <1>3
    <2> QED BY <2>1 DEF PaidFor, SettledFor, InFull
  <1>5. \A x \in Orders : x # o => (PaidFor(x)' => PaidFor(x))
    <2>1. \A q \in PaymentIds : pay'[q].order # o => pay'[q] = pay[q]
      BY <1>2, <1>3
    <2> QED BY <2>1 DEF PaidFor, SettledFor, InFull
  <1>6. CASE PaidFor(o)'
    <2>1. Paid' = Paid \cup {o}
      BY <1>1, <1>4, <1>5, <1>6 DEF Paid
    <2> QED BY <1>0, <1>1, <2>1 DEF Book!Pay, Paid
  <1>7. CASE ~PaidFor(o)'
    <2>1. Paid' = Paid
      BY <1>4, <1>5, <1>7 DEF Paid
    <2> QED BY <2>1, BookVars
  <1> QED BY <1>6, <1>7

LEMMA BuyerPaysNothingYet ==
  ASSUME IInv, NEW p \in PaymentIds, NEW o \in Orders, BuyerPays(p, o)
  PROVE  UNCHANGED Book!vars
  <1>1. PICK cents \in Reported(order[o].amount) :
           pay' = [pay EXCEPT ![p] = [state |-> "paid", order |-> o, cents |-> cents]]
    BY DEF BuyerPays
  <1>2. /\ pay[p] = NoPay /\ UNCHANGED <<order, wallet, sub, purchases, tips, now>>
    BY DEF BuyerPays, dbVars
  <1>3. /\ pay'[p].state = "paid" /\ \A q \in PaymentIds : q # p => pay'[q] = pay[q]
    BY <1>1 DEF IInv, TypeOK
  <1>4. \A x \in Orders : PaidFor(x)' <=> PaidFor(x)
    BY <1>2, <1>3 DEF PaidFor, SettledFor, InFull
  <1>5. Paid' = Paid
    BY <1>4 DEF Paid
  <1> QED BY <1>2, <1>5, BookVars

\* The commit is the one step that moves money and access.
LEMMA CommitFulfils ==
  ASSUME IInv, NEW w \in Workers, Commit(w)
  PROVE  Book!Fulfil(req[w].order) /\ req[w].order \in Orders
  <1> DEFINE o == req[w].order
             row == req[w].row
             c == Seller[row.target]
             new == [end |-> req[w].end, cancel |-> FALSE]
  <1>1. /\ o \in Orders /\ order[o] = row /\ row # NoRow /\ row.status = "PENDING"
        /\ PaidFor(o) /\ row.buyer \in Users /\ c \in Creators /\ row.amount \in Nat
        /\ req[w].end \in Nat /\ TypeOK /\ EndOK(w) /\ req[w].pc = "commit"
    BY AtCommit DEF Commit, IInv, RequestOK
  <1>2. /\ UNCHANGED <<pay, now>>
        /\ order' = [order EXCEPT ![o].status = "SUCCEEDED"]
        /\ wallet' = [wallet EXCEPT ![c] = @ + CreatorCents(row.amount)]
        /\ purchases' = IF row.target \in Posts \cup Media THEN purchases \cup {o} ELSE purchases
        /\ tips' = IF row.target \in Creators THEN tips \cup {o} ELSE tips
        /\ row.target \notin Plans => sub' = sub
        /\ row.target \in Plans => sub' = [sub EXCEPT ![row.buyer][c] = new]
    BY DEF Commit, extVars
  <1>3. /\ order'[o].amount = row.amount
        /\ \A x \in Orders : x # o => order'[x] = order[x]
    BY CommitRows
  <1>4. Book!CreatorCents(row.amount) = CreatorCents(row.amount)
    BY DEF Book!CreatorCents, CreatorCents, Book!FeeCents, FeeCents,
           Book!PlatformFeePct, PlatformFeePct
  <1>5. row.target \in Plans => new \in Book!Extended(row)
    <2> DEFINE old == sub[row.buyer][c]
    <2>1. SUFFICES ASSUME row.target \in Plans PROVE new \in Book!Extended(row)
      OBVIOUS
    <2>2. old.end \in Nat /\ now \in Nat /\ Months[row.target] \in Nat
      <3>1. Months[row.target] \in Nat
        BY <2>1, MonthsType
      <3>2. old \in [end: Nat, cancel: BOOLEAN]
        <4> HIDE DEF c, row
        <4> QED BY <1>1 DEF TypeOK
      <3> QED BY <1>1, <3>1, <3>2 DEF TypeOK
    <2>3. \/ req[w].end = old.end + Months[row.target]
          \/ /\ old.end <= req[w].end - Months[row.target]
             /\ req[w].end - Months[row.target] <= now
      BY <1>1, <2>1 DEF EndOK
    <2> DEFINE base == req[w].end - Months[row.target]
    <2>4. base \in {old.end} \cup old.end .. now /\ req[w].end = base + Months[row.target]
      <3> HIDE DEF old, row
      <3> QED BY <1>1, <2>2, <2>3
    <2>5. new = [end |-> base + Months[row.target], cancel |-> FALSE]
      BY <2>4
    <2> HIDE DEF base, new
    <2> QED BY <2>4, <2>5 DEF Book!Extended
  <1> HIDE DEF o, row, c, new
  <1>6. \A x \in Orders : PaidFor(x)' <=> PaidFor(x)
    BY <1>1, <1>2, <1>3 DEF PaidFor, SettledFor, InFull
  <1>7. Paid' = Paid /\ o \in Paid
    BY <1>1, <1>6 DEF Paid
  <1>8. Book!Fulfil(o)
    BY <1>1, <1>2, <1>4, <1>5, <1>7 DEF Book!Fulfil, Paid, c
  <1> QED BY <1>1, <1>8 DEF o

LEMMA BookStep == IInv /\ [Next]_vars => [Book!Next]_(Book!vars)
  <1> SUFFICES ASSUME IInv, [Next]_vars PROVE Book!Next \/ UNCHANGED Book!vars
    OBVIOUS
  <1>1. CASE \E w \in Workers : Quiet(w)
    BY <1>1, QuietSteps, SamePayments, BookVars
  <1>2. CASE \E w \in Workers : PersistOrder(w)
    BY <1>2, PersistOpens DEF Book!Next
  <1>3. CASE \E w \in Workers : Capture(w)
    <2>1. PICK w \in Workers : Capture(w)
      BY <1>3
    <2>2. /\ req[w].note.payment \in PaymentIds /\ pay[req[w].note.payment] # NoPay
          /\ pay[req[w].note.payment].order \in Orders
      BY <2>1 DEF Capture, IInv, TypeOK, RequestOK, HookOK, HookSteps, Note, Payment
    <2>3. /\ UNCHANGED <<order, wallet, sub, purchases, tips, now>>
          /\ pay' = [pay EXCEPT ![req[w].note.payment].state = "settled"]
      BY <2>1 DEF Capture, dbVars
    <2> QED BY <2>2, <2>3, SettlingPays DEF Book!Next
  <1>4. CASE \E p \in PaymentIds : Settle(p)
    <2>1. PICK p \in PaymentIds : Settle(p)
      BY <1>4
    <2>2. /\ pay[p] # NoPay /\ pay[p].order \in Orders
          /\ UNCHANGED <<order, wallet, sub, purchases, tips, now>>
          /\ pay' = [pay EXCEPT ![p].state = "settled"]
      BY <2>1 DEF Settle, dbVars, IInv, TypeOK, Payment
    <2> QED BY <2>2, SettlingPays DEF Book!Next
  <1>5. CASE \E p \in PaymentIds, o \in Orders : BuyerPays(p, o)
    BY <1>5, BuyerPaysNothingYet
  <1>6. CASE \E w \in Workers : Commit(w)
    BY <1>6, CommitFulfils DEF Book!Next
  <1>7. CASE \E b \in Users, c \in Creators : Cancel(b, c)
    <2>1. PICK b \in Users, c \in Creators : Cancel(b, c)
      BY <1>7
    <2>2. Paid' = Paid
      BY <2>1, SamePayments DEF Cancel, extVars
    <2> QED BY <2>1, <2>2 DEF Cancel, Book!Cancel, Book!Next, Paid
  <1>8. CASE Tick
    <2>1. Paid' = Paid
      BY <1>8, SamePayments DEF Tick, dbVars, extVars
    <2> QED BY <1>8, <2>1 DEF Tick, dbVars, Book!Tick, Book!Next, Paid
  <1>9. CASE UNCHANGED vars
    BY <1>9, SamePayments, BookVars DEF vars
  <1> QED BY <1>1, <1>2, <1>3, <1>4, <1>5, <1>6, <1>7, <1>8, <1>9 DEF Next, Step, Quiet

\* Payments implements OrderBook: whatever requests, notifications and faults
\* interleave, a customer only ever sees an order opened, paid and fulfilled
\* once, whole, for the price less the fee and the time that was bought.
THEOREM Refinement == Spec => ImplementsOrderBook
  <1>1. Spec => []IInv
    BY Invariance
  <1>2. IInv /\ [Next]_vars => [Book!Next]_(Book!vars)
    BY BookStep
  <1> QED BY <1>1, <1>2, BookInit, PTL DEF Spec, ImplementsOrderBook, Book!Spec

=============================================================================
