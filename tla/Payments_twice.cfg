\* One buyer opens two checkouts for one post and pays both; no fault, no
\* concurrency.
SPECIFICATION FairSpec
CONSTANTS
    alice = alice  bob = bob  carol = carol
    monthly = monthly  quarterly = quarterly  post = post  clip = clip
    Users <- OneBuyer
    Creators = {carol}
    Plans = {}
    Posts = {post}
    Media = {}
    Orders = {o1, o2}
    PaymentIds = {p1, p2}
    Workers = {w1}
    Providers = {"NOWPAYMENTS"}
    Seller <- MCSeller
    Price <- MCPrice
    Discount <- MCDiscount
    Months <- MCMonths
    TipAmounts = {}
    Drift = {0}
    NoteKinds = {"finished"}
    MaxTime = 1
    MaxFaults = 0
    NoRow = NoRow  NoPay = NoPay  NoNote = NoNote  NoOrder = NoOrder
PROPERTIES SettlementDelivered
