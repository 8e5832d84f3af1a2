\* Who has the card and the radio: every screen, every failure of the card, more
\* networks than wifi.cfg has room for.
SPECIFICATION Spec
CONSTANTS
    n1 = n1
    n2 = n2
    Ssids <- MCTwoSsids
    Open <- MCOpen
    MaxSaved = 1
    MaxPasses = 2
    ConnectAttempts = 1
    ScanPasses = 2
    Opens <- MCItems
    HasCard = TRUE
    Faults <- MCUsbFaults
INVARIANTS
    TypeOK
    OneOwner
    RadioHasOneOwner
