\* One account on two devices, with a third refresh token, a mistyped password,
\* one reset link, and one request or answer lost.
SPECIFICATION Spec
CONSTANTS
    Users = {alice}
    Passwords = {secret}
    Typos = {typo}
    Sessions = {s1, s2}
    Tokens = {t1, t2, t3}
    Links = {l1}
    Statuses = {"ACTIVE", "BANNED"}
    Workers = {w1, w2}
    MaxFailedLogins = 2
    MaxResets = 1
    MaxFaults = 1
    NoSession = NoSession  NoToken = NoToken  NoLink = NoLink
    NoUser = NoUser  NoPassword = NoPassword
SYMMETRY Symmetry
INVARIANTS TypeOK LockoutsExplained
PROPERTIES RevokedForGood
