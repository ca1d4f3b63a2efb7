SPECIFICATION Spec
CONSTANTS
  MaxCommands = 2
  Reads = {0, 1}
  Writes = {0, 2}
  PipeCapacity = 1
  MaxLines = 1
PROPERTY WaitEnds
CHECK_DEADLOCK FALSE
