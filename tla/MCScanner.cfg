\* All scanners of three states over two characters; every character is a
\* block of its own, so that every position is a block boundary.
CONSTANTS
    Key = {k1, k2}
    Pat = {1, 2}
    State <- States3
    Start = 1
    Fresh = Fresh
    Null = Null
    None = None
    Err = Err
    Graphs <- AllGraphs
    Labels = {{1}, {2}}
    Dead = {None}
    MaxLen = 3
    MaxBlock = 1
SPECIFICATION FairSpec
INVARIANTS
    StopsOnlyWithoutMatch
    ErrorActionReady
PROPERTIES
    MaximalMunch
    TextIsKept
CHECK_DEADLOCK FALSE
