\* The access point goes away while the user scans.
SPECIFICATION FairSpec
CONSTANTS
    n1 = n1
    n2 = n2
    Ssids <- MCOneSsid
    Open <- MCNone
    MaxSaved = 1
    MaxPasses = 1
    ConnectAttempts = 1
    ScanPasses = 1
    Opens <- MCWifiItems
    HasCard = TRUE
    Faults <- MCNone
PROPERTY LinkLossStartsCycle
