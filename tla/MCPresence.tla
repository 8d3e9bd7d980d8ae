----------------------------- MODULE MCPresence -----------------------------
EXTENDS PresenceInv
CONSTANT ann
MCUserOf == [s \in Sockets |-> ann]
=============================================================================
