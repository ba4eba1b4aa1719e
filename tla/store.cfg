SPECIFICATION Spec
CONSTANTS
    p1 = p1
    p2 = p2
    big = big
    None = None
    Blank = Blank
    Torn = Torn
    Packages <- GoodPackages
    WellFormed <- GoodPackages
    Size <- GoodSize
    MaxSize = 2
    GenLimit = 4
    MaxCommits = 3
    LoadFaults = TRUE
    ReadFaults = FALSE
INVARIANTS TypeOK PageOfSnapshot
PROPERTY AtomicReplacement
