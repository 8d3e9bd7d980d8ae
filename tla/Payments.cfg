\* A post two checkouts are open for, two plans of one creator, and tips, bought
\* by one buyer through both providers: wrong amounts, intermediate and repeated
\* notifications, refused captures, and a crash anywhere.
SPECIFICATION Spec
CONSTANTS
    alice = alice  bob = bob  carol = carol
    monthly = monthly  quarterly = quarterly  post = post  clip = clip
    Users <- OneBuyer
    Creators = {carol}
    Plans = {monthly, quarterly}
    Posts = {post}
    Media = {}
    Orders = {o1, o2}
    PaymentIds = {p1, p2}
    Workers = {w1, w2}
    Providers = {"NOWPAYMENTS", "PAYPAL"}
    Seller <- MCSeller
    Price <- MCPrice
    Discount <- MCDiscount
    Months <- MCMonths
    TipAmounts = {7}
    Drift = {0, 2}
    NoteKinds = {"waiting", "finished", "approved", "captured"}
    MaxTime = 2
    MaxFaults = 1
    NoRow = NoRow  NoPay = NoPay  NoNote = NoNote  NoOrder = NoOrder
SYMMETRY Symmetry
VIEW Unanswered
INVARIANTS TypeOK NeverWithoutPayment OnePurchasePerPost GrantsMatchOrders LedgerBalances PaidTimeHonoured
PROPERTIES PaidTimeNeverShrinks ImplementsOrderBook
