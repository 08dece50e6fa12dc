SPECIFICATION FairSpec
CONSTANTS
  Accept = Accept
  NonAccept = NonAccept
  ScanStart = ScanStart
  Null = Null
  NoTrans = NoTrans
  State = {0, 1}
  Key = {1}
  StateData = {Accept, NonAccept, ScanStart}
  NoConds = NoConds
  CondList = {NoConds}
  Act = {1}
  PlainActs = {1}
  Starts = {0}
  ScanStates = {0, 1}
  EntryId = {1}
  Machines <- PlainMachines
INVARIANTS NoFault
