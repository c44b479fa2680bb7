SPECIFICATION Spec
CONSTANTS
  MaxText = 4
  MaxLine = 1
  Commands <- MCCommands
  Args <- MCArgs
  LevelArgs <- MCLevels
  Widths = {1, 2}
  Capacity = 2
  Lines <- MCLines
  MaxFile = 4
INVARIANTS BufferCoherent ColumnFollowsTarget HistoryRecallsNewest
CHECK_DEADLOCK FALSE
