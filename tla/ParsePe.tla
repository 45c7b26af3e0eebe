------------------------------- MODULE ParsePe -------------------------------
(***************************************************************************)
(* parse_pe (main/parse.c): check the two headers of a PE32+ file already  *)
(* in memory, copy its sections to their places above a load address, and  *)
(* return the entry point, or 0 if anything is wrong.  A section is copied *)
(* as soon as its own bounds are found right, before the next one is       *)
(* looked at; where it goes is not checked at all.                         *)
(***************************************************************************)
EXTENDS Integers, Sequences

CONSTANTS
  Top,            \* highest address
  File,           \* efi_file_start_addr and efi_size
  Size,
  LoadAddr,       \* efi_load_addr
  EntryOffset,    \* AddressOfEntryPoint
  MaxSections,    \* bound: NumberOfSections
  MaxOffset       \* bound: offsets and sizes a section header may state

Addr == 0..Top
FileCells == File..(File + Size - 1)

\* PointerToRawData, SizeOfRawData and VirtualAddress of a section header.
Section == [ptr : 0..MaxOffset, size : 0..MaxOffset, va : 0..MaxOffset]

\* Where a section lies in the file, and the cells it goes to.
Target(s) == (LoadAddr + s.va)..(LoadAddr + s.va + s.size - 1)

\* The longest section at the largest offset stays in memory, and the load
\* area clear of the file, as parse_pe's caller has to arrange.
ASSUME PeAssumption ==
  /\ {Top, File, Size, EntryOffset, MaxSections, MaxOffset} \subseteq Nat
  /\ LoadAddr \in Nat \ {0}
  /\ File + 2 * MaxOffset - 1 <= Top
  /\ LoadAddr + 2 * MaxOffset - 1 <= Top
  /\ FileCells \cap LoadAddr..(LoadAddr + 2 * MaxOffset - 1) = {}

VARIABLES
  dos_ok,     \* the file carries the two signatures
  nt_ok,
  sections,   \* its section headers
  pc,
  i,          \* index of the section being loaded, counted from 0
  mem,        \* memory; a cell holds the address its content came from
  result      \* value returned

file == <<dos_ok, nt_ok, sections>>
vars == <<file, pc, i, mem, result>>

Before == [a \in Addr |-> a]

PeTypeOK ==
  /\ dos_ok \in BOOLEAN /\ nt_ok \in BOOLEAN
  /\ sections \in Seq(Section) /\ Len(sections) <= MaxSections
  /\ pc \in {"dos", "nt", "load", "done"}
  /\ i \in 0..Len(sections)
  /\ mem \in [Addr -> Addr]
  /\ result \in {0, EntryOffset + LoadAddr}

Init ==
  /\ dos_ok \in BOOLEAN /\ nt_ok \in BOOLEAN
  /\ sections \in UNION { [1..n -> Section] : n \in 0..MaxSections }
  /\ pc = "dos" /\ i = 0
  /\ mem = Before
  /\ result = 0

-----------------------------------------------------------------------------
Return(value) ==
  /\ pc' = "done" /\ result' = value
  /\ UNCHANGED <<file, i, mem>>

ValidateDosHeader ==
  /\ pc = "dos"
  /\ IF dos_ok THEN pc' = "nt" /\ UNCHANGED <<file, i, mem, result>> ELSE Return(0)

ValidateNtHeader ==
  /\ pc = "nt"
  /\ IF nt_ok THEN pc' = "load" /\ UNCHANGED <<file, i, mem, result>> ELSE Return(0)

\* Mutant: the start of the section is checked, not its end.
InRangeStart(s) == File + s.ptr <= File + Size

\* section_end > efi_file_start_addr + efi_size is an error.
InRange(s) == File + s.ptr + s.size <= File + Size

\* CopyMem(to, from, n) of the firmware's library: overlap does no harm.
CopyMem(to, from, n) ==
  [a \in Addr |-> IF a \in to..(to + n - 1) THEN mem[from + (a - to)] ELSE mem[a]]

CopySection(s) == CopyMem(LoadAddr + s.va, File + s.ptr, s.size)

\* Mutant: the section is copied first and its bounds are checked after.
LoadSectionUnchecked ==
  /\ pc = "load"
  /\ IF i < Len(sections)
     THEN LET s == sections[i + 1]
          IN  /\ mem' = CopySection(s)
              /\ i' = IF InRange(s) THEN i + 1 ELSE i
              /\ pc' = IF InRange(s) THEN "load" ELSE "done"
              /\ UNCHANGED <<file, result>>
     ELSE Return(EntryOffset + LoadAddr)

\* One iteration of the loop over the sections (load_section inlined), up to
\* a count, and the return of the entry point after the last.
LoadSectionBy(count) ==
  /\ pc = "load"
  /\ \/ /\ i < count /\ InRange(sections[i + 1])
        /\ mem' = CopySection(sections[i + 1])
        /\ i' = i + 1
        /\ UNCHANGED <<file, pc, result>>
     \/ i < count /\ ~InRange(sections[i + 1]) /\ Return(0)
     \/ i >= count /\ Return(EntryOffset + LoadAddr)

\* Mutant: the last section is left out.
LoadSectionShort == LoadSectionBy(Len(sections) - 1)

LoadSection == LoadSectionBy(Len(sections))

Next == ValidateDosHeader \/ ValidateNtHeader \/ LoadSection

Spec == Init /\ [][Next]_vars

-----------------------------------------------------------------------------
\* The last of the first n sections that goes over address a, 0 for none.
LastOver(a, n) ==
  LET over == {k \in 1..n : a \in Target(sections[k])}
  IN  IF over = {} THEN 0 ELSE CHOOSE k \in over : \A l \in over : l <= k

\* Memory with the first n sections in place.
Loaded(n) ==
  [a \in Addr |->
     LET k == LastOver(a, n)
     IN  IF k = 0 THEN a
         ELSE File + sections[k].ptr + (a - LoadAddr - sections[k].va)]

(* If an entry point is returned every section is in place, byte by byte,  *)
(* the later of two overlapping ones on top, and nothing else has changed  *)
(* (parse.c:161-172).                                                      *)
LoadedOnSuccess == pc = "done" /\ result # 0 => mem = Loaded(Len(sections))

(* A rejected file has been loaded up to its first wrong section and no    *)
(* further: the sections before it stay in memory, nothing after it is     *)
(* copied, and a file with a wrong header leaves memory alone.             *)
RejectedAtFirstWrong ==
  pc = "done" /\ result = 0 =>
    /\ mem = Loaded(i)
    /\ \A k \in 1..i : InRange(sections[k])
    /\ IF dos_ok /\ nt_ok THEN i < Len(sections) /\ ~InRange(sections[i + 1])
       ELSE i = 0

(* At no moment is anything copied from outside the file: not even before  *)
(* the file is found wrong.                                                *)
OnlyFileIsCopied == \A a \in Addr : mem[a] # a => mem[a] \in FileCells
=============================================================================
