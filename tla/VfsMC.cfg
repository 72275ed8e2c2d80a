SPECIFICATION Spec
CONSTANTS
  Letters = {"A", "B", "C"}
  Paths <- MCPaths
  Hash <- MCHash
  MAX_OPEN_FILES = 2
  MaxMounts = 4
  NotOpen = NotOpen
CHECK_DEADLOCK FALSE
INVARIANTS
  ListShape
  FilesAccounted
PROPERTY AbstractSpec
