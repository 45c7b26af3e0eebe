\* All calls on eight cells with a three-bit int: lengths up to 19 pass the
\* largest int, the sign bit and the whole width, twice.
SPECIFICATION CallSpec
CONSTANTS
  IntMax = 3
  Last = 7
  MaxSize = 19
INVARIANTS
  CopyFaithful
  NothingOutside
CHECK_DEADLOCK FALSE
