SPECIFICATION FairSpec
CONSTANTS
  Plain <- PlainVal
  PlainA <- PlainAVal
  PlainB <- PlainBVal
  StartA = 1
  StartB = 3
  New = 0
  Key = {k1, k2}
  Act = {"a", "b", "l", "m"}
  Prior = {0, 1, 2}
  NoTrans = NoTrans
  Ops = {"star", "union", "concat", "subtract", "intersect"}
  Inputs <- InputsVal
INVARIANTS TypeOK SubsetConstruction NoDangling NoStaleBits LeavingOnFinals NoDeadEnds
PROPERTY Termination
