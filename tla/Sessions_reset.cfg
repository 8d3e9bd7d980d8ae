\* A password is replaced while a login with it is in progress.
SPECIFICATION Spec
CONSTANTS
    Users = {alice}
    Passwords = {secret, newer}
    Typos = {}
    Sessions = {s1}
    Tokens = {t1}
    Links = {l1}
    Statuses = {"ACTIVE", "BANNED"}
    Workers = {w1, w2}
    MaxFailedLogins = 2
    MaxResets = 1
    MaxFaults = 0
    NoSession = NoSession  NoToken = NoToken  NoLink = NoLink
    NoUser = NoUser  NoPassword = NoPassword
CHECK_DEADLOCK FALSE
INVARIANTS OnlyThePresentPassword
