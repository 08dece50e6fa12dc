\* Two names of priorities in chains of up to four transitions.
CONSTANTS
    Name = {1, 2}
    Prior = {1, 2}
    MaxOrd = 3
    Table = {1, 2, 3, 4}
    Buf = {1, 2, 3, 4, 5}
    Raw = Raw
SPECIFICATION Spec
INVARIANT PriorsAsEmbedded
CHECK_DEADLOCK FALSE
