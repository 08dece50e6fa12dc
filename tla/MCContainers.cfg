\* The families of PlansVal.  A plan that is bounded may end.
CONSTANTS
    Key = {1, 2, 3, 4, 5, 6, 7, 8, 9, 10, 11, 12}
    Table = {1, 2, 3}
    Buf = {1, 2, 3, 4}
    Raw = Raw
    Unbounded = Unbounded
    Plans <- PlansVal
SPECIFICATION Spec
INVARIANTS
    Balanced
    WalksInOrder
    LookupsRight
    RefsCounted
PROPERTY AbstractSpec
CHECK_DEADLOCK FALSE
