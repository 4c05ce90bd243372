CONSTANTS
  Commands <- MCCommands
  ZERO <- MCZERO
  TASK_COMMAND_LEN = 20
  COMPUTE_COMMAND_LEN = 16
  AGENT_COMMAND_LEN = 12
SPECIFICATION Spec
INVARIANT ResolvesTheSame
CHECK_DEADLOCK FALSE
