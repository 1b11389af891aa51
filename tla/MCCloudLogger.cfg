SPECIFICATION FairSpec
CONSTANTS
    N = 1
    Names = {"own", "app"}
    Own = {"own"}
    Skipped = {"app"}
    Buf = 3
    MaxSize <- MCMaxSize
    MaxLine = 3
    MaxLen <- MCMaxLen
    MaxGen = 1
    MaxFaults = 2
INVARIANTS OneSender SavedMeansSent
PROPERTIES RangeLeavesNothing AllLinesSent
