---------------------------- MODULE PaymentsInv ----------------------------
(***************************************************************************)
(* The inductive invariant of Payments: what holds between the requests in *)
(* progress and the database at every step boundary.  The proofs are in    *)
(* PaymentsProofs; IInv may be added to the INVARIANTS of any run of        *)
(* MCPayments.                                                             *)
(***************************************************************************)
EXTENDS Payments

\* Every payment is for an order the provider was told about.
PaymentsKnown == \A p \in PaymentIds : pay[p] # NoPay => pay[p].order \in invoiced

\* A checkout holds the row it creates; its reference is not in use before.
CheckoutOK(w) ==
    req[w].pc \in CheckoutSteps =>
        /\ req[w].order \in Orders
        /\ req[w].row \in OrderRow
        /\ req[w].row.status = "PENDING"
        /\ req[w].row.buyer # Seller[req[w].row.target]
        /\ (req[w].pc = "persist") <=> (order[req[w].order] = NoRow)

ReferencesFresh ==
    \A v, w \in Workers : req[v].pc = "persist" /\ req[w].pc = "persist" /\ v # w
                             => req[v].order # req[w].order

\* A webhook request works on the order of a payment the provider made known,
\* and past the capture only on a settled one.
HookOK(w) ==
    req[w].pc \in HookSteps =>
        /\ req[w].note \in Note
        /\ pay[req[w].note.payment] # NoPay
        /\ req[w].order = pay[req[w].note.payment].order
        /\ req[w].pc # "capture" => pay[req[w].note.payment].state = "settled"

\* The row read before the transaction: as long as it is PENDING, it has not
\* changed, and it was not fulfilled for another amount.
PendingOK(w) ==
    req[w].pc \in {"claim"} \cup TxSteps =>
        /\ req[w].row \in OrderRow
        /\ req[w].row.status = "PENDING"
        /\ Accepts(pay[req[w].note.payment].cents, req[w].row.amount)
        /\ order[req[w].order] # NoRow
        /\ HasStatus(req[w].order, "PENDING") => order[req[w].order] = req[w].row

\* Once claimed, nobody changes it: the row is still the one that was read.
ClaimedOK(w) ==
    /\ req[w].pc \in TxSteps => order[req[w].order] = req[w].row
    /\ req[w].pc = "extend" => req[w].row.target \in Plans

\* Row locks: one open transaction per order, one past the credit per wallet.
OrderRowExclusive ==
    \A v, w \in Workers : req[v].pc \in TxSteps /\ req[w].pc \in TxSteps /\ v # w
                             => req[v].order # req[w].order
WalletRowExclusive ==
    \A v, w \in Workers :
        /\ req[v].pc \in TxSteps \ {"credit"}
        /\ req[w].pc \in TxSteps \ {"credit"}
        /\ v # w
        => Seller[req[v].row.target] # Seller[req[w].row.target]

\* The period end a transaction is about to write still extends the one in
\* the database, however long ago it was computed.
EndOK(w) ==
    LET row == req[w].row
        end == sub[row.buyer][Seller[row.target]].end
    IN  req[w].pc \in {"grant", "commit"} /\ row.target \in Plans =>
            \/ req[w].end = end + Months[row.target]
            \/ /\ end <= req[w].end - Months[row.target]
               /\ req[w].end - Months[row.target] <= now

\* The post a transaction is about to unlock is still locked.
StillLocked(w) ==
    req[w].pc = "commit" /\ req[w].row.target \in Posts =>
        ~Unlocked(req[w].row.buyer, req[w].row.target)

RequestOK(w) == /\ CheckoutOK(w) /\ HookOK(w) /\ PendingOK(w)
                /\ ClaimedOK(w) /\ EndOK(w) /\ StillLocked(w)

IInv ==
    /\ TypeOK
    /\ InvoicedIsRecorded
    /\ PaymentsKnown
    /\ \A w \in Workers : RequestOK(w)
    /\ ReferencesFresh
    /\ OrderRowExclusive
    /\ WalletRowExclusive
    /\ NeverWithoutPayment
    /\ GrantsMatchOrders
    /\ OnePurchasePerPost

\* The books: finitely many orders have succeeded so far, and they add up.
LInv == IsFiniteSet(Fulfilled) /\ LedgerBalances /\ PaidTimeHonoured

=============================================================================
