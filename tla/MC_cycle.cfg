\* Scans, automatic connections and waits end: two networks, two passes.
SPECIFICATION FairSpec
CONSTANTS
    n1 = n1
    n2 = n2
    Ssids <- MCTwoSsids
    Open <- MCOpen
    MaxSaved = 2
    MaxPasses = 2
    ConnectAttempts = 1
    ScanPasses = 2
    Opens <- MCWifiItems
    HasCard = TRUE
    Faults <- MCNone
PROPERTIES
    ManualIsAnswered
    KeyboardComesBack
    AutoCycleEnds
