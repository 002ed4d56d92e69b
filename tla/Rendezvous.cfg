CONSTANTS
    ann = ann
    bob = bob
    Client = {ann, bob}
    MaxConns = 3
    Patience = {TRUE, FALSE}
    None = None
SPECIFICATION FairSpec
INVARIANTS
    SessionsAgree
PROPERTIES
    LeaversAreMissed
CONSTRAINT AnnIsFirst
CHECK_DEADLOCK FALSE
