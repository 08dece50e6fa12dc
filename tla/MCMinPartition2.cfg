SPECIFICATION FairSpec
CONSTANTS
  Accept = Accept
  NonAccept = NonAccept
  ScanStart = ScanStart
  Null = Null
  NoTrans = NoTrans
  State = {0, 1, 2, 3}
  Key = {1}
  StateData = {Accept, NonAccept, ScanStart}
  NoConds = NoConds
  CondList = {NoConds}
  Act = {1}
  PlainActs = {1}
  Starts = {0, 2}
  ScanStates = {0, 1, 2}
  EntryId = {1}
  Machines <- AllMachines
INVARIANTS TypeOK PartsFit InitRespected InactiveStable MinimalWhenInactive NoDangling
PROPERTIES Termination AbstractSpec
