\* One order, one payment that is reported without an amount; no fault, no
\* concurrency.
SPECIFICATION Spec
CONSTANTS
    alice = alice  bob = bob  carol = carol
    monthly = monthly  quarterly = quarterly  post = post  clip = clip
    Users <- OneBuyer
    Creators = {carol}
    Plans = {}
    Posts = {post}
    Media = {}
    Orders = {o1}
    PaymentIds = {p1}
    Workers = {w1}
    Providers = {"NOWPAYMENTS"}
    Seller <- MCSeller
    Price <- MCPrice
    Discount <- MCDiscount
    Months <- MCMonths
    TipAmounts = {}
    Drift = {0}
    NoteKinds = {"finished"}
    MaxTime = 1
    MaxFaults = 0
    NoRow = NoRow  NoPay = NoPay  NoNote = NoNote  NoOrder = NoOrder
INVARIANTS AmountVerified
