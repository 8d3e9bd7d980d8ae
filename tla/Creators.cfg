\* Three accounts, two requests at a time.
SPECIFICATION Spec
CONSTANTS
    root = root  adam = adam  uma = uma  s1 = s1  s2 = s2
    Users = {root, adam, uma}
    Names = {root, adam, uma}
    Links = {l1, l2}
    Sessions = {s1, s2}
    Workers = {w1, w2}
    Intervals = {"MONTHLY"}
    Mixes <- MCMixes
    Cast <- MCCast
    SignedIn <- MCSignedIn
    Asks <- MCAsks
    Life = 1
    MaxTime = 2
    MaxTokens = 4
    Prices = {333, 500}
    Discounts = {10, 50}
    NoUser = NoUser  NotYet = NotYet  Deleted = Deleted  NoRole = NoRole
    NoItem = NoItem  Same = Same  NoPlan = NoPlan
SYMMETRY Symmetry
INVARIANTS TypeOK NamesUnique NoTokensUntilVerified FeeIsFair DiscountIsNearest
PROPERTIES ChangedFromAbove RolesLapse PlansByOwner
CHECK_DEADLOCK FALSE
