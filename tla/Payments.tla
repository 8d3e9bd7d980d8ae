------------------------------ MODULE Payments ------------------------------
(***************************************************************************)
(* Checkout, provider webhooks and fulfilment of                           *)
(* payments.service.ts, with the checkout entry points of                  *)
(* subscriptions.service.ts and tips.service.ts.                           *)
(*                                                                         *)
(* Workers are HTTP requests in progress.  Every await at which the code   *)
(* lets another request run is a step boundary.  The interactive database  *)
(* transaction of fulfillOrder is a sequence of steps too: its writes take *)
(* effect together, at Commit, and until then the rows it wrote are locked *)
(* (PostgreSQL, READ COMMITTED): OrderLocked, WalletLocked, SubLocked.     *)
(*                                                                         *)
(* The providers are external: they are modelled by what the code relies   *)
(* on.  A provider may send any notification that has become true, again   *)
(* and again, in any order, also after it was acknowledged.                *)
(***************************************************************************)
EXTENDS Pricing, FiniteSets, FiniteSetsExt

CONSTANTS
    Users, Creators, Plans, Posts, Media, Orders,
    PaymentIds,     \* payments as the providers identify them
    Workers,        \* concurrent requests
    Providers,      \* a subset of {"NOWPAYMENTS", "PAYPAL"}
    Seller,         \* [Targets -> Creators]
    Price,          \* [Plans \cup Posts \cup Media -> list price in cents]
    Discount,       \* [Plans -> percent]
    Months,         \* [Plans -> 1, 3 or 12]
    TipAmounts,     \* amounts a tip may have
    Drift,          \* how far a reported amount may be from the invoiced one
    NoteKinds,      \* bound: the notification types a provider sends
    MaxTime,        \* bound: months that may pass
    MaxFaults,      \* bound: crashes, errors and refusals
    NoRow, NoPay, NoNote, NoOrder

Targets == Plans \cup Posts \cup Media \cup Creators

ASSUME CreatorsAreUsers == Creators \subseteq Users
ASSUME TargetsDisjoint ==
    /\ Plans \cap Posts = {} /\ Plans \cap Media = {} /\ Posts \cap Media = {}
    /\ Creators \cap (Plans \cup Posts \cup Media) = {}
ASSUME ProvidersKnown == Providers \subseteq {"NOWPAYMENTS", "PAYPAL"}
ASSUME SellerType == Seller \in [Targets -> Creators]
ASSUME PriceType ==
    /\ Price \in [Plans \cup Posts \cup Media -> Nat \ {0}]
    /\ Discount \in [Plans -> 0..90]
    /\ TipAmounts \subseteq Nat \ {0}
    /\ Drift \subseteq Int
ASSUME MonthsType == Months \in [Plans -> {1, 3, 12}]
ASSUME BoundsType == MaxTime \in Nat /\ MaxFaults \in Nat

VARIABLES
    \* The database.
    order,      \* Transaction rows by providerRef
    wallet,     \* Wallet.pendingCents by creator
    sub,        \* Subscription rows by subscriber and creator; end = 0: no row
    purchases,  \* orders with a Purchase row
    tips,       \* orders with a Tip row
    events,     \* WebhookEvent rows, by the payment their eventId names
    \* The clock, in months.
    now,
    \* The providers.
    invoiced,   \* orders the provider was told about
    pay,        \* payments
    done,       \* notifications answered with 200
    \* The requests in progress.
    req,
    faults      \* faults so far

dbVars  == <<order, wallet, sub, purchases, tips, events>>
extVars == <<invoiced, pay>>
vars    == <<order, wallet, sub, purchases, tips, events, now,
             invoiced, pay, done, req, faults>>

OrderRow == [status: {"PENDING", "SUCCEEDED"}, buyer: Users,
             target: Targets, amount: Nat, provider: Providers]
Payment  == [state: {"paid", "settled"}, order: Orders, cents: Nat]
Note     == [payment: PaymentIds,
             type: {"waiting", "confirmed", "finished", "approved", "captured"}]

ASSUME Absent == /\ NoRow \notin OrderRow /\ NoPay \notin Payment
                 /\ NoNote \notin Note /\ NoOrder \notin Orders

CheckoutSteps == {"persist", "invoice"}
TxSteps       == {"credit", "extend", "grant", "commit"}
HookSteps     == {"capture", "mark", "read", "claim"} \cup TxSteps
Request == [pc: {"idle"} \cup CheckoutSteps \cup HookSteps,
            order: Orders \cup {NoOrder},
            row: OrderRow \cup {NoRow},
            note: Note \cup {NoNote},
            end: Nat]
At(label, o, row, note, end) ==
    [pc |-> label, order |-> o, row |-> row, note |-> note, end |-> end]
Idle == At("idle", NoOrder, NoRow, NoNote, 0)

TypeOK ==
    /\ order \in [Orders -> OrderRow \cup {NoRow}]
    /\ wallet \in [Creators -> Nat]
    /\ sub \in [Users -> [Creators -> [end: Nat, cancel: BOOLEAN]]]
    /\ purchases \subseteq Orders
    /\ tips \subseteq Orders
    /\ events \subseteq PaymentIds
    /\ now \in Nat
    /\ invoiced \subseteq Orders
    /\ pay \in [PaymentIds -> Payment \cup {NoPay}]
    /\ done \subseteq Note
    /\ req \in [Workers -> Request]
    /\ faults \in Nat

Init ==
    /\ order = [o \in Orders |-> NoRow]
    /\ wallet = [c \in Creators |-> 0]
    /\ sub = [b \in Users |-> [c \in Creators |-> [end |-> 0, cancel |-> FALSE]]]
    /\ purchases = {} /\ tips = {} /\ events = {}
    /\ now = 1
    /\ invoiced = {}
    /\ pay = [p \in PaymentIds |-> NoPay]
    /\ done = {}
    /\ req = [w \in Workers |-> Idle]
    /\ faults = 0

-----------------------------------------------------------------------------
(* Helpers *)

Goto(w, label) == req' = [req EXCEPT ![w].pc = label]

\* The handler returns normally: the controller answers 200.
Acknowledge(w) ==
    /\ req' = [req EXCEPT ![w] = Idle]
    /\ done' = done \cup {req[w].note}

\* Whether the order has a row with this status.
HasStatus(o, s) == order[o] # NoRow /\ order[o].status = s

\* A Purchase row for this buyer and item.
Unlocked(b, t) ==
    \E o \in purchases : order[o].buyer = b /\ order[o].target = t

\* The rows updateMany may claim.
\* Mutant: the status is left out of its where clause.
ClaimableAnyStatus(o) == order[o] # NoRow
Claimable(o) == HasStatus(o, "PENDING")

\* The later of the end of what was paid for and now.
\* Mutant: a renewal always starts now.
PeriodFromNow(end) == now
PeriodBase(end) == IF end > now THEN end ELSE now

\* Row locks another request's open transaction holds.
\* Mutants: the wallet row is read with a shared lock at the start of the
\* transaction, to be updated later; it is never locked.
WalletSharedFirst(w, c) ==
    \E v \in Workers \ {w} : req[v].pc \in TxSteps /\ Seller[req[v].row.target] = c
WalletNeverLocked(w, c) == FALSE
OrderLocked(w, o) ==
    \E v \in Workers \ {w} : req[v].pc \in TxSteps /\ req[v].order = o
WalletLocked(w, c) ==
    \E v \in Workers \ {w} : /\ req[v].pc \in TxSteps \ {"credit"}
                             /\ Seller[req[v].row.target] = c
SubLocked(b, c) ==
    \E v \in Workers : /\ req[v].pc = "commit"
                       /\ req[v].row.target \in Plans
                       /\ req[v].row.buyer = b
                       /\ Seller[req[v].row.target] = c

-----------------------------------------------------------------------------
(* Checkout *)

\* createCheckout up to its first write: the row it is about to create, at one
\* of the prices the caller computed.  What the caller read may have changed
\* when the row is created.
BeginCheckout(w, b, t, o, provider, prices) ==
    /\ req[w].pc = "idle"
    /\ order[o] = NoRow                        \* generateOpaqueToken is fresh
    /\ \A v \in Workers : req[v].order # o
    /\ b # Seller[t]
    /\ \E cents \in prices :
          req' = [req EXCEPT ![w] =
                    At("persist", o,
                       [status |-> "PENDING", buyer |-> b, target |-> t,
                        amount |-> cents, provider |-> provider], NoNote, 0)]
    /\ UNCHANGED <<dbVars, extVars, now, done, faults>>

\* startCheckout: not while a subscription to this creator runs.
StartSubscription(w, b, plan, o, provider) ==
    /\ sub[b][Seller[plan]].end <= now
    /\ BeginCheckout(w, b, plan, o, provider, DiscountedCents(Price[plan], Discount[plan]))

\* createPurchaseCheckout: not what the buyer has unlocked already.
StartPurchase(w, b, item, o, provider) ==
    /\ ~Unlocked(b, item)
    /\ BeginCheckout(w, b, item, o, provider, {Price[item]})

\* startTipCheckout: any amount, any number of times.
StartTip(w, b, c, o, provider) == BeginCheckout(w, b, c, o, provider, TipAmounts)

StartCheckout(w, b, t, o, provider) ==
    \/ t \in Plans /\ StartSubscription(w, b, t, o, provider)
    \/ t \in Posts \cup Media /\ StartPurchase(w, b, t, o, provider)
    \/ t \in Creators /\ StartTip(w, b, t, o, provider)

\* createCheckout: the PENDING row is written before the provider is called.
PersistOrder(w) ==
    /\ req[w].pc = "persist"
    /\ order' = [order EXCEPT ![req[w].order] = req[w].row]
    /\ Goto(w, "invoice")
    /\ UNCHANGED <<wallet, sub, purchases, tips, events, extVars, now, done, faults>>

\* createNowPaymentsInvoice, createPaypalOrder: the buyer gets a payment URL.
OpenInvoice(w) ==
    /\ req[w].pc = "invoice"
    /\ invoiced' = invoiced \cup {req[w].order}
    /\ req' = [req EXCEPT ![w] = Idle]
    /\ UNCHANGED <<dbVars, pay, now, done, faults>>

-----------------------------------------------------------------------------
(* Providers (external) *)

\* Amounts a notification may report for an invoice: none, or about the price.
Reported(cents) == {0} \cup ({cents + d : d \in Drift} \cap Nat)

\* The buyer pays an invoice.  A NOWPayments invoice may be paid in several
\* payments; a PayPal order is one payment, which the server has to capture.
BuyerPays(p, o) ==
    /\ pay[p] = NoPay
    /\ o \in invoiced
    /\ order[o].provider = "PAYPAL" =>
          \A q \in PaymentIds : pay[q] # NoPay => pay[q].order # o
    /\ \E cents \in Reported(order[o].amount) :
          pay' = [pay EXCEPT ![p] = [state |-> "paid", order |-> o, cents |-> cents]]
    /\ UNCHANGED <<dbVars, invoiced, now, done, req, faults>>

\* A crypto payment gets its confirmations.
Settle(p) ==
    /\ pay[p] # NoPay
    /\ pay[p].state = "paid"
    /\ order[pay[p].order].provider = "NOWPAYMENTS"
    /\ pay' = [pay EXCEPT ![p].state = "settled"]
    /\ UNCHANGED <<dbVars, invoiced, now, done, req, faults>>

\* The notifications a payment gives rise to, so far.
NoteTypes(provider, state) ==
    CASE provider = "NOWPAYMENTS" /\ state = "paid"    -> {"waiting"}
      [] provider = "NOWPAYMENTS" /\ state = "settled" -> {"waiting", "confirmed", "finished"}
      [] provider = "PAYPAL"      /\ state = "paid"    -> {"approved"}
      [] provider = "PAYPAL"      /\ state = "settled" -> {"approved", "captured"}

Sent(n) ==
    /\ n.type \in NoteKinds
    /\ pay[n.payment] # NoPay
    /\ n.type \in NoteTypes(order[pay[n.payment].order].provider, pay[n.payment].state)

-----------------------------------------------------------------------------
(* Webhooks *)

\* NOWPayments states that are acknowledged and ignored.
\* Mutant: every state fulfils.
NothingIntermediate(type) == FALSE
Intermediate(type) == type \notin {"finished", "confirmed", "approved", "captured"}

\* handleNowPaymentsEvent, handlePaypalEvent: what the notification is about
\* decides the route.
Receive(w, n) ==
    /\ req[w].pc = "idle"
    /\ Sent(n)
    /\ IF Intermediate(n.type)
          THEN done' = done \cup {n} /\ req' = req
          ELSE /\ req' = [req EXCEPT ![w] =
                     At(IF n.type = "approved" THEN "capture" ELSE "mark",
                        pay[n.payment].order, NoRow, n, 0)]
               /\ done' = done
    /\ UNCHANGED <<dbVars, extVars, now, faults>>

\* capturePaypalOrder: the money moves; a payment already captured (422) is
\* left alone.  The fulfilment waits for the "captured" notification.
Capture(w) ==
    /\ req[w].pc = "capture"
    /\ pay' = [pay EXCEPT ![req[w].note.payment].state = "settled"]
    /\ Acknowledge(w)
    /\ UNCHANGED <<dbVars, invoiced, now, faults>>

\* The provider refuses the capture: a warning is logged, the answer is 200.
CaptureRefused(w) ==
    /\ req[w].pc = "capture"
    /\ faults < MaxFaults
    /\ faults' = faults + 1
    /\ Acknowledge(w)
    /\ UNCHANGED <<dbVars, extVars, now>>

\* markEventOnce, a statement of its own: the row's uniqueness decides.
MarkEvent(w) ==
    /\ req[w].pc = "mark"
    /\ events' = events \cup {req[w].note.payment}
    /\ IF req[w].note.payment \in events
          THEN Acknowledge(w)
          ELSE Goto(w, "read") /\ done' = done
    /\ UNCHANGED <<order, wallet, sub, purchases, tips, extVars, now, faults>>

\* The insert fails for another reason: the catch takes it for a duplicate.
MarkEventFails(w) ==
    /\ req[w].pc = "mark"
    /\ faults < MaxFaults
    /\ faults' = faults + 1
    /\ events' \in {events, events \cup {req[w].note.payment}}
    /\ Acknowledge(w)
    /\ UNCHANGED <<order, wallet, sub, purchases, tips, extVars, now>>

-----------------------------------------------------------------------------
(* fulfillOrder *)

\* The reads and checks before the transaction.
ReadOrder(w) ==
    LET o == req[w].order
        cents == pay[req[w].note.payment].cents
    IN  /\ req[w].pc = "read"
        /\ IF HasStatus(o, "PENDING") /\ Accepts(cents, order[o].amount)
              THEN /\ req' = [req EXCEPT ![w] = At("claim", o, order[o], req[w].note, 0)]
                   /\ done' = done
              ELSE Acknowledge(w)
        /\ UNCHANGED <<dbVars, extVars, now, faults>>

\* Mutant of ClaimOrder: the update runs outside the transaction.
ClaimOrderAutocommits(w) ==
    /\ req[w].pc = "claim"
    /\ ~OrderLocked(w, req[w].order)
    /\ IF Claimable(req[w].order)
          THEN /\ Goto(w, "credit") /\ done' = done
               /\ order' = [order EXCEPT ![req[w].order].status = "SUCCEEDED"]
          ELSE Acknowledge(w) /\ order' = order
    /\ UNCHANGED <<wallet, sub, purchases, tips, events, extVars, now, faults>>

\* The compare-and-set.  It waits for the row; whoever finds it already
\* SUCCEEDED has lost and returns.
ClaimOrder(w) ==
    /\ req[w].pc = "claim"
    /\ ~OrderLocked(w, req[w].order)
    /\ IF Claimable(req[w].order)
          THEN Goto(w, "credit") /\ done' = done
          ELSE Acknowledge(w)
    /\ UNCHANGED <<dbVars, extVars, now, faults>>

\* wallet.upsert: from here to the commit the creator's wallet row is held,
\* and with it every other fulfilment for this creator.
CreditWallet(w) ==
    /\ req[w].pc = "credit"
    /\ ~WalletLocked(w, Seller[req[w].row.target])
    /\ Goto(w, IF req[w].row.target \in Plans THEN "extend" ELSE "grant")
    /\ UNCHANGED <<dbVars, extVars, now, done, faults>>

\* The existing subscription is read and the new period end computed from the
\* later of its end and now.
ReadSubscription(w) ==
    LET row == req[w].row
        base == PeriodBase(sub[row.buyer][Seller[row.target]].end)
    IN  /\ req[w].pc = "extend"
        /\ req' = [req EXCEPT ![w] = At("grant", req[w].order, row, req[w].note,
                                        base + Months[row.target])]
        /\ UNCHANGED <<dbVars, extVars, now, done, faults>>

\* Mutant of Grant: no unique index on (buyerId, postId).
GrantWithoutIndex(w) ==
    /\ req[w].pc = "grant"
    /\ Goto(w, "commit")
    /\ UNCHANGED <<dbVars, extVars, now, done, faults>>

\* subscription.upsert, purchase.create or tip.create, not yet committed.
Grant(w) ==
    LET row == req[w].row
    IN  /\ req[w].pc = "grant"
        /\ ~(row.target \in Posts /\ Unlocked(row.buyer, row.target))
        /\ Goto(w, "commit")
        /\ UNCHANGED <<dbVars, extVars, now, done, faults>>

\* Purchase is unique on (buyerId, postId): the insert throws, everything
\* rolls back and the webhook is answered with an error.
GrantConflicts(w) ==
    LET row == req[w].row
    IN  /\ req[w].pc = "grant"
        /\ row.target \in Posts /\ Unlocked(row.buyer, row.target)
        /\ req' = [req EXCEPT ![w] = Idle]
        /\ UNCHANGED <<dbVars, extVars, now, done, faults>>

\* The transaction's writes take effect together.
Commit(w) ==
    LET o   == req[w].order
        row == req[w].row
        c   == Seller[row.target]
    IN  /\ req[w].pc = "commit"
        /\ order' = [order EXCEPT ![o].status = "SUCCEEDED"]
        /\ wallet' = [wallet EXCEPT ![c] = @ + CreatorCents(row.amount)]
        /\ sub' = IF row.target \in Plans
                  THEN [sub EXCEPT ![row.buyer][c] = [end |-> req[w].end, cancel |-> FALSE]]
                  ELSE sub
        /\ purchases' = IF row.target \in Posts \cup Media THEN purchases \cup {o} ELSE purchases
        /\ tips' = IF row.target \in Creators THEN tips \cup {o} ELSE tips
        /\ Acknowledge(w)
        /\ UNCHANGED <<events, extVars, now, faults>>

-----------------------------------------------------------------------------
(* Everything else that touches this state *)

\* The request dies: the process crashes, the transaction times out, the
\* database or the provider does not answer.  Nothing uncommitted survives.
Fail(w) ==
    /\ req[w].pc # "idle"
    /\ faults < MaxFaults
    /\ faults' = faults + 1
    /\ req' = [req EXCEPT ![w] = Idle]
    /\ UNCHANGED <<dbVars, extVars, now, done>>

\* Mutant of Cancel: the subscription ends at once.
CancelAtOnce(b, c) ==
    /\ sub[b][c].end > 0
    /\ ~SubLocked(b, c)
    /\ sub' = [sub EXCEPT ![b][c] = [end |-> now, cancel |-> TRUE]]
    /\ UNCHANGED <<order, wallet, purchases, tips, events, extVars, now, done, req, faults>>

\* subscriptions.cancel, one statement on the caller's own row.
Cancel(b, c) ==
    /\ sub[b][c].end > 0
    /\ ~SubLocked(b, c)
    /\ sub' = [sub EXCEPT ![b][c].cancel = TRUE]
    /\ UNCHANGED <<order, wallet, purchases, tips, events, extVars, now, done, req, faults>>

Tick ==
    /\ now < MaxTime
    /\ now' = now + 1
    /\ UNCHANGED <<dbVars, extVars, done, req, faults>>

-----------------------------------------------------------------------------
\* What a request does next when nothing goes wrong.
Step(w) ==
    \/ PersistOrder(w) \/ OpenInvoice(w)
    \/ Capture(w) \/ MarkEvent(w)
    \/ ReadOrder(w) \/ ClaimOrder(w) \/ CreditWallet(w)
    \/ ReadSubscription(w) \/ Grant(w) \/ GrantConflicts(w) \/ Commit(w)

Next ==
    \/ \E w \in Workers :
          \/ \E b \in Users, t \in Targets, o \in Orders, provider \in Providers :
                StartCheckout(w, b, t, o, provider)
          \/ \E n \in Note : Receive(w, n)
          \/ Step(w)
          \/ CaptureRefused(w) \/ MarkEventFails(w) \/ Fail(w)
    \/ \E p \in PaymentIds :
          \/ \E o \in Orders : BuyerPays(p, o)
          \/ Settle(p)
    \/ \E b \in Users, c \in Creators : Cancel(b, c)
    \/ Tick

Spec == Init /\ [][Next]_vars

\* A provider repeats the notifications of a settled payment until each was
\* answered with 200.
Deliver(p) ==
    \E n \in Note \ done :
        /\ n.payment = p
        /\ n.type \in {"confirmed", "finished", "captured"}
        /\ \E w \in Workers : Receive(w, n)

\* Requests run on, and while a settled payment has a notification that is not
\* acknowledged, one is delivered whenever a request can take it again and
\* again.  Nobody has to buy, pay, capture or cancel.
FairSpec ==
    /\ Spec
    /\ \A w \in Workers : WF_vars(Step(w))
    /\ \A p \in PaymentIds : SF_vars(Deliver(p))

-----------------------------------------------------------------------------
(* Properties *)

\* A provider settled this order, and reports an amount of this set.
SettledFor(o, amounts) ==
    \E p \in PaymentIds : /\ pay[p] # NoPay
                          /\ pay[p].order = o
                          /\ pay[p].state = "settled"
                          /\ pay[p].cents \in amounts

\* It reports what the server had invoiced, up to a cent; or, which fulfillOrder
\* lets pass as well, no amount at all.
InFull(o)     == order[o].amount - 1 .. order[o].amount + 1
PaidInFull(o) == SettledFor(o, InFull(o))
PaidFor(o)    == SettledFor(o, {0} \cup InFull(o))

Fulfilled == {o \in Orders : HasStatus(o, "SUCCEEDED")}

\* createCheckout persists "the intent BEFORE redirecting": whatever can be
\* paid has the row that the webhook will reconcile against.
InvoicedIsRecorded == \A o \in invoiced : order[o] # NoRow

\* fulfillOrder: an order succeeds only against a settled payment for it, never
\* on an intermediate notification, and a payment that reports an amount other
\* than the order's, up to a cent, grants nothing.  One that reports none does.
NeverWithoutPayment == \A o \in Fulfilled : PaidFor(o)

\* "We look up our record and verify the amount before granting access": no
\* order succeeds whose amount no settled payment reported.
AmountVerified == \A o \in Fulfilled : PaidInFull(o)

\* The transaction of fulfillOrder: the rows that give access exist exactly
\* for the orders that succeeded, whatever crashed or was delivered twice.
GrantsMatchOrders ==
    /\ purchases = {o \in Fulfilled : order[o].target \in Posts \cup Media}
    /\ tips = {o \in Fulfilled : order[o].target \in Creators}

\* What each succeeded order earns its creator, and the months one for a plan pays for.
SoldBy(c) == {o \in Fulfilled : Seller[order[o].target] = c}
Credits == [o \in Fulfilled |-> CreatorCents(order[o].amount)]
PlanOrders(b, c) == {o \in Fulfilled : /\ order[o].target \in Plans
                                       /\ order[o].buyer = b
                                       /\ Seller[order[o].target] = c}
PaidMonths == [o \in Fulfilled |-> IF order[o].target \in Plans THEN Months[order[o].target] ELSE 0]

\* "An order is fulfilled exactly once": every wallet holds the price less the
\* fee of each of its succeeded orders, each counted once.
LedgerBalances ==
    \A c \in Creators : wallet[c] = SumFunctionOnSet(Credits, SoldBy(c))

\* Two paid plan orders of one buyer extend each other: the period ends no
\* earlier than the sum of the months that were bought.
PaidTimeHonoured ==
    \A b \in Users, c \in Creators :
        sub[b][c].end >= SumFunctionOnSet(PaidMonths, PlanOrders(b, c))

\* purchase.create: a buyer is never charged into two rows for one post.
OnePurchasePerPost ==
    \A o, q \in purchases :
        /\ order[o].target \in Posts
        /\ order[o].target = order[q].target
        /\ order[o].buyer = order[q].buyer
        => o = q

\* subscriptions.cancel: "access remains until what was paid for expires";
\* and no fulfilment overwrites a later period end with an earlier one.
PaidTimeNeverShrinks ==
    [][\A b \in Users, c \in Creators : sub'[b][c].end >= sub[b][c].end]_vars

\* The code implements the order book: every step of a request either changes
\* nothing a customer can see or is one atomic step of OrderBook.
Book == INSTANCE OrderBook WITH paid <- {o \in Orders : PaidFor(o)}
ImplementsOrderBook == Book!Spec

\* "Reconcile a settled payment against our PENDING order and grant access":
\* what was paid is eventually granted.
SettlementDelivered ==
    \A o \in Orders : PaidFor(o) ~> HasStatus(o, "SUCCEEDED")

\* No request waits for ever, in particular not on the row locks the open
\* transactions of fulfillOrder hold.
RequestsTerminate ==
    \A w \in Workers : req[w].pc # "idle" ~> req[w].pc = "idle"

=============================================================================
