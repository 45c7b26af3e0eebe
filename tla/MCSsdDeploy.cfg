\* Two signals: one may be taken by the script, the other inside the cleanup
\* the first one started.
CONSTANT
  MaxSignals = 2

SPECIFICATION DeploySpec
INVARIANTS
  FilesOnPartition
  NothingLeft
\* The script ends.
CHECK_DEADLOCK FALSE
