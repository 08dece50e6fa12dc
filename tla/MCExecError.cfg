SPECIFICATION BeginSpec
CONSTANTS
  State = {1, 2}
  Start = 1
  Err = 0
  Key = {"a", "b"}
  Fuel = 12
  Chosen = {"cdipgoto"}
INVARIANT ErrorStateKept
CHECK_DEADLOCK FALSE
