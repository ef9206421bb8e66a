SPECIFICATION PartSpec
CONSTANTS
    Procs = {p, q}
    NoProc = none
    Owners = {prior, a, b}
    Prior = prior
    StatusAge = 1
    MaxBoots = 2
    MaxTick = 3
    MaxTrouble = 2
    c1 = c1
    d1 = d1
    Compose = {c1}
    Direct = {d1}
    NoInvocation = NoInvocation
    MaxFaults = 3
SYMMETRY Symmetry
INVARIANTS
    BootIsEarned
    LeaseCoversLeftovers
    PassIsCancellation
CHECK_DEADLOCK FALSE
