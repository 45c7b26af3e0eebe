\* A file of two cells and up to two sections at offsets 0 to 3: inside the
\* file, over its end, empty, and overlapping one another where they go.
SPECIFICATION Spec
CONSTANTS
  Top = 12
  File = 0
  Size = 2
  LoadAddr = 6
  EntryOffset = 1
  MaxSections = 2
  MaxOffset = 3
INVARIANTS
  LoadedOnSuccess
  RejectedAtFirstWrong
  OnlyFileIsCopied
CHECK_DEADLOCK FALSE
