------------------------------- MODULE MemCall -------------------------------
(***************************************************************************)
(* One call of memcpy2 or memset2 (main/core.c) from start to return, on   *)
(* its own: any source, destination and 64-bit length a caller may form,   *)
(* overlapping ranges and lengths past the largest int included.  EfiMain  *)
(* makes such calls with ranges its layout keeps apart; what the two       *)
(* functions promise without that is stated and proved here.               *)
(***************************************************************************)
EXTENDS CoreMem

CONSTANTS
  Last,     \* highest address
  MaxSize   \* bound: largest length tried

ASSUME MemCallAssumption == Last \in Nat /\ MaxSize \in Nat

Addr  == 0..Last
Label == Addr \cup {-1}   \* contents: the address a value came from; -1 is val

VARIABLES
  op,     \* the function called
  dest,
  src,
  size,   \* the caller's length, before its conversion to int
  i,
  mem,
  done    \* the call has returned

callVars == <<op, dest, src, size, i, mem, done>>

CallTypeOK ==
  /\ op \in {"memcpy2", "memset2"}
  /\ dest \in Addr
  /\ src \in Addr
  /\ size \in 0..MaxSize
  /\ i \in 0..IntMax
  /\ mem \in [Addr -> Label]
  /\ done \in BOOLEAN

\* Every cell holds its own address, so a value tells where it came from.
Before == [a \in Addr |-> a]

\* The part of a call that runs stays inside memory.
Fits(start, n) == start + IntArg(n) - 1 \in Addr \/ IntArg(n) <= 0

CallInit ==
  /\ op \in {"memcpy2", "memset2"}
  /\ dest \in Addr
  /\ src \in Addr
  /\ size \in 0..MaxSize
  /\ Fits(dest, size) /\ Fits(src, size)
  /\ i = 0
  /\ mem = Before
  /\ done = FALSE

Iterate ==
  /\ ~done
  /\ InLoop(i, size)
  /\ mem' = IF op = "memcpy2" THEN CopyCell(mem, dest, src, i)
                              ELSE FillCell(mem, dest, -1, i)
  /\ i' = i + 1
  /\ UNCHANGED <<op, dest, src, size, done>>

Return ==
  /\ ~done
  /\ ~InLoop(i, size)
  /\ done' = TRUE
  /\ UNCHANGED <<op, dest, src, size, i, mem>>

CallNext == Iterate \/ Return

CallSpec == CallInit /\ [][CallNext]_callVars

-----------------------------------------------------------------------------
\* A forward copy reads a cell it has already overwritten exactly when the
\* destination starts inside the source, past its first cell.
Smears == dest \in Cells(src, size) /\ dest # src

(* A returned memcpy2 has moved the whole source as it was before the call *)
(* if the length is an int and the destination does not start inside the   *)
(* source (core.c:13 copies upwards); a destination below the source may   *)
(* overlap it.                                                             *)
CopyFaithful ==
  done /\ op = "memcpy2" /\ size <= IntMax /\ ~Smears =>
    \A k \in 0..(size - 1) : mem[dest + k] = Before[src + k]

(* A returned memset2 has filled the whole range if the length is an int.  *)
FillFaithful ==
  done /\ op = "memset2" /\ size <= IntMax =>
    \A a \in Cells(dest, size) : mem[a] = -1

(* Whatever the length, no call writes outside the range its caller named, *)
(* a length whose conversion wraps included.                               *)
NothingOutside ==
  \A a \in Addr \ Cells(dest, size) : mem[a] = Before[a]
=============================================================================
