\* No faults: everything paid is delivered and no request hangs.
SPECIFICATION FairSpec
CONSTANTS
    alice = alice  bob = bob  carol = carol
    monthly = monthly  quarterly = quarterly  post = post  clip = clip
    Users <- OneBuyer
    Creators = {carol}
    Plans = {monthly}
    Posts = {}
    Media = {}
    Orders = {o1, o2}
    PaymentIds = {p1, p2}
    Workers = {w1, w2}
    Providers = {"PAYPAL"}
    Seller <- MCSeller
    Price <- MCPrice
    Discount <- MCDiscount
    Months <- MCMonths
    TipAmounts = {}
    Drift = {0}
    NoteKinds = {"approved", "captured"}
    MaxTime = 1
    MaxFaults = 0
    NoRow = NoRow  NoPay = NoPay  NoNote = NoNote  NoOrder = NoOrder
PROPERTIES SettlementDelivered RequestsTerminate
