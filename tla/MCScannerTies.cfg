\* All scanners of four states over one character, with patterns that match the
\* same text and transitions to the error state, in blocks of up to three.
CONSTANTS
    Key = {k1}
    Pat = {1, 2}
    State <- States4
    Start = 1
    Fresh = Fresh
    Null = Null
    None = None
    Err = Err
    Graphs <- AllGraphs
    Labels = {{1}, {2}, {1, 2}}
    Dead = {None, Null}
    MaxLen = 6
    MaxBlock = 3
SPECIFICATION FairSpec
INVARIANTS
    TypeOK
    TsMarksToken
    ErrorActionReady
PROPERTIES
    MaximalMunch
    Terminates
CHECK_DEADLOCK FALSE
