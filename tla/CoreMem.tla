------------------------------- MODULE CoreMem -------------------------------
(***************************************************************************)
(* One step of the memory loops of main/core.c, memcpy2 and memset2, and   *)
(* the conversion of their length: callers pass a 64-bit difference of     *)
(* addresses and the parameter n is an int.                                *)
(***************************************************************************)
EXTENDS Integers

CONSTANT IntMax   \* largest int: 2^31 - 1 in the build

ASSUME IntAssumption == IntMax \in Nat \ {0}

\* A length as the callee sees it: the low bits, read as a signed int.
IntArg(n) ==
  LET low == n % (2 * (IntMax + 1))
  IN  IF low <= IntMax THEN low ELSE low - 2 * (IntMax + 1)

\* Mutants of the test below: one iteration short, one too many.
InLoopShort(i, n) == i < IntArg(n) - 1
InLoopLong(i, n)  == i <= IntArg(n)

\* The test of both loops.
InLoop(i, n) == i < IntArg(n)

\* Iteration i of memcpy2(dest, src, n) and of memset2(dest, val, n).
CopyCell(mem, dest, src, i) == [mem EXCEPT ![dest + i] = mem[src + i]]
FillCell(mem, dest, val, i) == [mem EXCEPT ![dest + i] = val]

\* The addresses a call with length n is meant to write.
Cells(start, n) == start .. (start + n - 1)
=============================================================================
