\* A client that may say, leave or vanish at any time, the file of the host key on
\* a card that may fail, and reboots.
SPECIFICATION FairSpec
CONSTANTS
    k1 = k1
    k2 = k2
    k3 = k3
    Keys <- MCKeys
    MaxInbox = 2
    MaxChannels = 2
    CardFails = TRUE
INVARIANTS BuffersHaveOneOwner ClosedAfterReply SavedKeyIsOnCard
PROPERTIES KeyIsKept UnauthenticatedEnds ListensAgain
