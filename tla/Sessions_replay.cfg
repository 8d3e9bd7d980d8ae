\* One device, one request at a time, nothing lost: the first of three tokens
\* is presented again after the second was used.
SPECIFICATION FairSpec
CONSTANTS
    Users = {alice}
    Passwords = {secret}
    Typos = {}
    Sessions = {s1}
    Tokens = {t1, t2, t3}
    Links = {}
    Statuses = {"ACTIVE", "BANNED"}
    Workers = {w1}
    MaxFailedLogins = 2
    MaxResets = 0
    MaxFaults = 0
    NoSession = NoSession  NoToken = NoToken  NoLink = NoLink
    NoUser = NoUser  NoPassword = NoPassword
CHECK_DEADLOCK FALSE
PROPERTIES ReplayRevokes
