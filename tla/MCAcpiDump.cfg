\* An int of four bits, a UINTN of seven, lines of four bytes.  The lengths
\* of the XSDT: shorter than its header, the header alone, two entries, and
\* two entries and a half.  Those of the DSDT: less than a line, one, more,
\* and past the largest int.
SPECIFICATION Spec
CONSTANTS
  IntMax = 7
  Word = 128
  Header = 36
  EntrySize = 8
  Mod = 4
  MaxEntries = 2
  XsdtLengths = {28, 36, 52, 56}
  DsdtLengths = {0, 3, 4, 7, 9}
INVARIANTS
  ReadsInside
  FadtIsFirst
  DumpedInLines
CHECK_DEADLOCK FALSE
