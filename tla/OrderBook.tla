----------------------------- MODULE OrderBook -----------------------------
(***************************************************************************)
(* What the payment subsystem promises, with no requests, webhooks, events *)
(* or transactions in sight: an order is opened once, its payment settles  *)
(* at a provider, and at most once afterwards it is fulfilled, in a single *)
(* step that marks it SUCCEEDED, credits the creator with the price less   *)
(* the platform fee and hands the buyer exactly what was ordered.          *)
(*                                                                         *)
(* Payments.tla is the specification of the code; it implements this one.  *)
(***************************************************************************)
EXTENDS Pricing, FiniteSets

CONSTANTS
    Users,          \* accounts that may buy
    Creators,       \* the accounts among them that sell; also the target of a tip
    Plans,          \* subscription plans
    Posts, Media,   \* pay-per-view items
    Orders,         \* order references (Transaction.providerRef)
    Providers,      \* payment providers
    Seller,         \* [target -> creator]
    Months,         \* [plan -> months one purchase of it lasts]
    NoRow           \* the absent Transaction row

Targets == Plans \cup Posts \cup Media \cup Creators

VARIABLES
    order,      \* [order -> its Transaction row, or NoRow]
    paid,       \* orders some provider has settled for the invoiced amount, or for none
    wallet,     \* [creator -> Wallet.pendingCents]
    sub,        \* [buyer -> [creator -> Subscription row]]; end = 0 if none
    purchases,  \* orders that own a Purchase row
    tips,       \* orders that own a Tip row
    now         \* the current month

vars == <<order, paid, wallet, sub, purchases, tips, now>>

OrderRow == [status: {"PENDING", "SUCCEEDED"}, buyer: Users,
             target: Targets, amount: Nat, provider: Providers]

Init ==
    /\ order = [o \in Orders |-> NoRow]
    /\ paid = {}
    /\ wallet = [c \in Creators |-> 0]
    /\ sub = [b \in Users |-> [c \in Creators |-> [end |-> 0, cancel |-> FALSE]]]
    /\ purchases = {}
    /\ tips = {}
    /\ now = 1

\* A buyer commits to a price; nothing is owed or granted yet.
Open(o) ==
    /\ order[o] = NoRow
    /\ order'[o] \in OrderRow
    /\ order'[o].status = "PENDING"
    /\ order'[o].buyer # Seller[order'[o].target]
    /\ order' = [order EXCEPT ![o] = order'[o]]
    /\ UNCHANGED <<paid, wallet, sub, purchases, tips, now>>

\* The money arrives at the provider.
Pay(o) ==
    /\ order[o] # NoRow
    /\ paid' = paid \cup {o}
    /\ UNCHANGED <<order, wallet, sub, purchases, tips, now>>

\* The subscription a plan purchase leaves behind: it runs Months[plan]
\* further, from the end of what was already paid for, or from a moment
\* between that end and now when it had lapsed.
Extended(row) ==
    LET old == sub[row.buyer][Seller[row.target]]
    IN  {[end |-> base + Months[row.target], cancel |-> FALSE] :
            base \in {old.end} \cup old.end .. now}

\* The one step that moves money and access, all of it or none of it.
Fulfil(o) ==
    LET row == order[o]
        c   == Seller[row.target]
    IN  /\ row # NoRow
        /\ row.status = "PENDING"
        /\ o \in paid
        /\ order' = [order EXCEPT ![o].status = "SUCCEEDED"]
        /\ wallet' = [wallet EXCEPT ![c] = @ + CreatorCents(row.amount)]
        /\ IF row.target \in Plans
              THEN \E s \in Extended(row) : sub' = [sub EXCEPT ![row.buyer][c] = s]
              ELSE sub' = sub
        /\ IF row.target \in Posts \cup Media
              THEN purchases' = purchases \cup {o}
              ELSE purchases' = purchases
        /\ IF row.target \in Creators
              THEN tips' = tips \cup {o}
              ELSE tips' = tips
        /\ UNCHANGED <<paid, now>>

\* Cancelling stops nothing that was paid for.
Cancel(b, c) ==
    /\ sub[b][c].end > 0
    /\ sub' = [sub EXCEPT ![b][c].cancel = TRUE]
    /\ UNCHANGED <<order, paid, wallet, purchases, tips, now>>

Tick ==
    /\ now' = now + 1
    /\ UNCHANGED <<order, paid, wallet, sub, purchases, tips>>

Next ==
    \/ \E o \in Orders : Open(o) \/ Pay(o) \/ Fulfil(o)
    \/ \E b \in Users, c \in Creators : Cancel(b, c)
    \/ Tick

Spec == Init /\ [][Next]_vars

=============================================================================
