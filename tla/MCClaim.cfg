SPECIFICATION FairSpec
CONSTANTS
    MaxIds = 4
    MaxFaults = 3
    Objects = 2
    Changed = {}
    Setups <- MCSetups
    NoFile = NoFile
    Empty = Empty
INVARIANTS TrailIsComplete ClaimedIsOwned OneDevice
PROPERTIES KeepsRegistration ShownIsClaimed SyncedInTheEnd
CHECK_DEADLOCK FALSE
