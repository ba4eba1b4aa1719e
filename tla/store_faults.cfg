SPECIFICATION FairSpec
CONSTANTS
    p1 = p1
    p2 = p2
    big = big
    None = None
    Blank = Blank
    Torn = Torn
    Packages <- BigPackages
    WellFormed <- BigPackages
    Size <- BigSize
    MaxSize = 2
    GenLimit = 3
    MaxCommits = 2
    LoadFaults = TRUE
    ReadFaults = TRUE
INVARIANTS ActiveIntact PageOfSnapshot
PROPERTY CallsReturn
