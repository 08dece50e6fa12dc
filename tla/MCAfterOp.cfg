SPECIFICATION MCSpec
CONSTANTS
  Accept = Accept
  NonAccept = NonAccept
  ScanStart = ScanStart
  Null = Null
  NoTrans = NoTrans
  State = {0, 1, 2, 3}
  Key = {1}
  StateData = {Accept, NonAccept, ScanStart}
  NoConds = NoConds
  Conds = Conds
  CondList = {NoConds, Conds}
  Act = {1, 2}
  PlainActs = {1}
  Starts = {2}
  ScanStates = {0, 1, 2}
  EntryId = {1}
  Machines <- Graphs
INVARIANTS MinimalWhenRoundsEnd MarkedDiffer WalkSound OpNoDangling
PROPERTIES OpTermination OpAbstractSpec
