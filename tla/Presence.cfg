\* Three devices of one user; two faults of Redis or of the process.  All sockets may be
\* gone for good: then nothing is left to do.
SPECIFICATION FairSpec
CONSTANTS
    ann = ann
    Users = {ann}
    Sockets = {1, 2, 3}
    UserOf <- MCUserOf
    MaxFaults = 2
CHECK_DEADLOCK FALSE
INVARIANTS TypeOK PresenceMatchesSockets LastAnnouncementRight
PROPERTIES DepartureAnnounced GhostsLapse
