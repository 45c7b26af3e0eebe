\* A step before the loop, two zones of two calls each, a step after; two
\* lines at most per command through a pipe that holds one.
SPECIFICATION Spec
CONSTANTS
  Before = 1
  Zones = 2
  After = 1
  MaxLines = 2
  PipeSize = 1
INVARIANTS
  LogFaithful
  ReaderForWriters
PROPERTIES
  BuildEnds
CHECK_DEADLOCK FALSE
