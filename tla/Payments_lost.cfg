\* One fault between the WebhookEvent row and the fulfilment.
SPECIFICATION FairSpec
CONSTANTS
    alice = alice  bob = bob  carol = carol
    monthly = monthly  quarterly = quarterly  post = post  clip = clip
    Users <- OneBuyer
    Creators = {carol}
    Plans = {}
    Posts = {}
    Media = {clip}
    Orders = {o1}
    PaymentIds = {p1}
    Workers = {w1}
    Providers = {"NOWPAYMENTS"}
    Seller <- MCSeller
    Price <- MCPrice
    Discount <- MCDiscount
    Months <- MCMonths
    TipAmounts = {}
    Drift = {0}
    NoteKinds = {"confirmed", "finished"}
    MaxTime = 1
    MaxFaults = 1
    NoRow = NoRow  NoPay = NoPay  NoNote = NoNote  NoOrder = NoOrder
CHECK_DEADLOCK FALSE
PROPERTIES SettlementDelivered
