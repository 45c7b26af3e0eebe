------------------------------- MODULE AcpiDump -------------------------------
(***************************************************************************)
(* acpi_dump (main/acpi.c): find the ACPI table among the configuration    *)
(* tables of the firmware, follow RSDP, XSDT and FADT to the DSDT, and     *)
(* dump its bytes in lines of Mod.  The tables are what the firmware left  *)
(* in memory: their lengths and addresses are read and not checked.        *)
(***************************************************************************)
EXTENDS CoreMem, Sequences

CONSTANTS
  Word,          \* values of a UINTN: 2^64 in the build
  Header,        \* sizeof(ACPI_TABLE_HEADER)
  EntrySize,     \* bytes of an entry of the XSDT
  Mod,           \* bytes on a line of the dump
  MaxEntries,    \* bound: entries of the configuration table
  XsdtLengths,   \* values tried for the Length of the XSDT and of the DSDT
  DsdtLengths

ASSUME AcpiAssumption ==
  /\ Word \in Nat /\ Header \in 1..(Word - 1)
  /\ {EntrySize, Mod} \subseteq Nat \ {0}
  /\ MaxEntries \in Nat
  /\ XsdtLengths \subseteq 0..(Word - 1)
  /\ DsdtLengths \subseteq 0..(2 * IntMax + 1)

Null    == -1
Guid    == {"acpi20", "acpi10", "dtb", "other"}
Status  == {"none", "success", "not_found"}
RsdpKind == {"unsigned", "rsdt", "no_xsdt", "xsdt"}

VARIABLES
  config,   \* the configuration table: the vendor GUID of each entry
  rsdp,     \* what the ACPI table points to
  length,   \* xsdt->Header.Length
  facp,     \* the entries of the XSDT that carry the signature FACP
  dsdt,     \* dsdt->Header.Length, or Null for a null fadt->Dsdt
  pc,
  i,        \* loop variable, counted from 0 as in the code
  table,    \* entry found by find_acpi_table, or Null
  dtb,      \* entry reported as the device tree, or Null
  fadt,     \* entry found by find_fadt_in_xsdt, or Null
  lines,    \* bytes on each line dumped so far, the open one last
  status    \* EFI_STATUS returned

tables == <<config, rsdp, length, facp, dsdt>>
vars   == <<tables, pc, i, table, dtb, fadt, lines, status>>

\* The loop bound of find_fadt_in_xsdt, computed in UINTN.
Count(len) == ((len - Header) % Word) \div EntrySize
\* The entries that lie inside a table of that length.
Inside(len) == {k \in 0..(Word - 1) : Header + (k + 1) * EntrySize <= len}

AcpiTypeOK ==
  /\ config \in Seq(Guid) /\ Len(config) <= MaxEntries
  /\ rsdp \in RsdpKind
  /\ length \in XsdtLengths
  /\ facp \subseteq Inside(length)
  /\ dsdt \in DsdtLengths \cup {Null}
  /\ pc \in {"locate", "find_acpi", "find_rsdp", "check_dtb", "find_fadt",
             "parse_aml", "dump", "halted", "done"}
  /\ i \in Nat
  /\ table \in {Null} \cup 0..(MaxEntries - 1)
  /\ dtb \in {Null} \cup 0..(MaxEntries - 1)
  /\ fadt \in {Null} \cup 0..(Word - 1)
  /\ lines \in Seq(0..Mod)
  /\ status \in Status

Init ==
  /\ config \in UNION { [1..n -> Guid] : n \in 0..MaxEntries }
  /\ rsdp \in RsdpKind
  /\ length \in XsdtLengths
  /\ facp \in SUBSET Inside(length)
  /\ dsdt \in DsdtLengths \cup {Null}
  /\ pc = "locate" /\ i = 0
  /\ table = Null /\ dtb = Null /\ fadt = Null
  /\ lines = <<>>
  /\ status = "none"

-----------------------------------------------------------------------------
Return(s) ==
  /\ pc' = "done" /\ status' = s
  /\ UNCHANGED <<tables, i, table, dtb, fadt, lines>>

\* The firmware has a device path protocol, or the loader halts.
LocateProtocol ==
  /\ pc = "locate"
  /\ pc' \in {"find_acpi", "halted"}
  /\ UNCHANGED <<tables, i, table, dtb, fadt, lines, status>>

\* One iteration of find_acpi_table: the first entry with either GUID.
FindAcpiTable ==
  /\ pc = "find_acpi"
  /\ \/ /\ i < Len(config) /\ config[i + 1] \in {"acpi20", "acpi10"}
        /\ table' = i
        /\ pc' = "find_rsdp" /\ i' = 0
        /\ UNCHANGED <<tables, dtb, fadt, lines, status>>
     \/ /\ i < Len(config) /\ config[i + 1] \notin {"acpi20", "acpi10"}
        /\ i' = i + 1
        /\ UNCHANGED <<tables, pc, table, dtb, fadt, lines, status>>
     \/ i >= Len(config) /\ Return("not_found")

FindRsdpTables ==
  /\ pc = "find_rsdp"
  /\ IF rsdp = "unsigned"
     THEN Return("not_found")
     ELSE pc' = "check_dtb" /\ UNCHANGED <<tables, i, table, dtb, fadt, lines, status>>

\* CompareGuid returns 0 for equal GUIDs: the entry reported is the first
\* that does not carry the GUID of the device tree.
CheckDtb ==
  /\ pc = "check_dtb"
  /\ \/ /\ i < Len(config) /\ config[i + 1] # "dtb"
        /\ dtb' = i
        /\ pc' = "find_fadt" /\ i' = 0
     \/ /\ i < Len(config) /\ config[i + 1] = "dtb"
        /\ i' = i + 1
        /\ UNCHANGED <<pc, dtb>>
     \/ /\ i >= Len(config)
        /\ pc' = "find_fadt" /\ i' = 0
        /\ UNCHANGED dtb
  /\ UNCHANGED <<tables, table, fadt, lines, status>>

\* One iteration of find_fadt_in_xsdt.  An entry past the end of the table is
\* whatever memory holds there.
FindFadtUpTo(count) ==
  /\ pc = "find_fadt"
  /\ \/ /\ rsdp = "xsdt" /\ i < count
        /\ i \in facp \/ i \notin Inside(length)
        /\ fadt' = i
        /\ pc' = "parse_aml" /\ i' = 0
     \/ /\ rsdp = "xsdt" /\ i < count
        /\ i \notin facp
        /\ i' = i + 1
        /\ UNCHANGED <<pc, fadt>>
     \/ /\ rsdp # "xsdt" \/ i >= count
        /\ pc' = "parse_aml" /\ i' = 0
        /\ UNCHANGED fadt
  /\ UNCHANGED <<tables, table, dtb, lines, status>>

\* Mutants of the bound: the header is counted in; one entry short.
FindFadtWithHeader == FindFadtUpTo(length \div EntrySize)
FindFadtShort      == FindFadtUpTo(Count(length) - 1)

FindFadtInXsdt == FindFadtUpTo(Count(length))

\* The DSDT is followed and its Length handed to parse_aml as an int.
ParseAml ==
  /\ pc = "parse_aml"
  /\ IF fadt = Null \/ dsdt = Null \/ IntArg(dsdt) <= 0
     THEN Return("success")
     ELSE /\ pc' = "dump" /\ lines' = <<0>>
          /\ UNCHANGED <<tables, i, table, dtb, fadt, status>>

\* One iteration of the dump: a byte, and a new line after every Mod bytes.
DumpByteWhen(full) ==
  /\ pc = "dump" /\ InLoop(i, dsdt)
  /\ LET last  == Len(lines)
         added == [lines EXCEPT ![last] = @ + 1]
     IN  lines' = IF full THEN Append(added, 0) ELSE added
  /\ i' = i + 1
  /\ UNCHANGED <<tables, pc, table, dtb, fadt, status>>

\* Mutant: the bytes are counted from 0 where they are to be counted from 1.
DumpByteEarly == DumpByteWhen(i % Mod = 0)

DumpByte == DumpByteWhen((i + 1) % Mod = 0)

\* A new line at the end if the last one is not full.
EndDump ==
  /\ pc = "dump" /\ ~InLoop(i, dsdt)
  /\ lines' = IF IntArg(dsdt) % Mod # 0 THEN Append(lines, 0) ELSE lines
  /\ pc' = "done" /\ status' = "success"
  /\ UNCHANGED <<tables, i, table, dtb, fadt>>

Next ==
  \/ LocateProtocol \/ FindAcpiTable \/ FindRsdpTables \/ CheckDtb
  \/ FindFadtInXsdt \/ ParseAml \/ DumpByte \/ EndDump

Spec == Init /\ [][Next]_vars

-----------------------------------------------------------------------------
Done == pc = "done" /\ status = "success"

\* k is the first of S, or Null when S is empty.
IsFirst(k, S) ==
  IF S = {} THEN k = Null ELSE k \in S /\ \A s \in S : k <= s

(* No entry is read past the end of an XSDT whose Length covers its header *)
(* (acpi.c:124), a Length that is not the header plus whole entries        *)
(* included: neither one passed over nor the one taken for the FADT.       *)
ReadsInside ==
  length >= Header =>
    /\ pc = "find_fadt" /\ i > 0 => i - 1 \in Inside(length)
    /\ fadt # Null => fadt \in Inside(length)

(* The FADT followed is the first FACP entry of such an XSDT, the last     *)
(* entry included, and none only if there is none (acpi.c:133-137).        *)
FadtIsFirst ==
  pc \in {"parse_aml", "dump", "done"} /\ status # "not_found"
    /\ rsdp = "xsdt" /\ length >= Header
  => IsFirst(fadt, facp)

(* A dump has full lines, a last one with the rest, and an open one with   *)
(* nothing; together they hold every byte of the DSDT.  It is missing only *)
(* if there is no DSDT, or one whose Length is 0 or not an int             *)
(* (acpi.c:10-28).                                                         *)
DumpedInLines ==
  Done =>
    IF fadt # Null /\ dsdt \in 1..IntMax
    THEN LET last == Len(lines) - 1
         IN  /\ lines[last + 1] = 0
             /\ \A k \in 1..(last - 1) : lines[k] = Mod
             /\ lines[last] > 0
             /\ (last - 1) * Mod + lines[last] = dsdt
    ELSE lines = <<>>
=============================================================================
