SPECIFICATION Spec
CONSTANTS
  MaxKey = 2
  Spaces <- SpacesVal
  Err = 1
  Machines <- MachinesVal
  Conds = {1, 2}
  Classes = {"TabCodeGen", "RubyTabCodeGen", "FlatCodeGen", "GotoCodeGen"}
INVARIANTS MeaningKept KeysSorted ReadsOwnKeys
PROPERTY AbstractSpec
