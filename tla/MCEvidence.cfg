SPECIFICATION PartSpec
CONSTANTS
    MaxScan = 3
    PageSize = 2
    MaxColdWrites = 3
    MaxColdFaults = 1
    Rows = 2
    MaxAofWrites = 3
    MaxAofFaults = 1
    CloneRuns = {c1, c2}
    NoRun = NoRun
    NoPlan = NoPlan
    MaxFaults = 2
    MaxWrites = 2
SYMMETRY RunSymmetry
INVARIANTS
    ReceiptIsTrue
    VerifiedIsReplay
    PrimaryIsRehearsed
    EveryBoxIsKnown
    SaidIsFinal
PROPERTIES
    PassIsOneHistory
CHECK_DEADLOCK FALSE
