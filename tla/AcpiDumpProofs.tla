---------------------------- MODULE AcpiDumpProofs ----------------------------
(***************************************************************************)
(* Proofs about acpi_dump for every configuration table, every length the  *)
(* firmware may state, every int width and every width of a line.  The     *)
(* invariant says what the loop over the XSDT knows of the entries before  *)
(* i, and how the lines dumped add up to i bytes.                          *)
(***************************************************************************)
EXTENDS AcpiDump, SequenceTheorems, TLAPS

Early == {"locate", "find_acpi", "find_rsdp", "check_dtb"}

\* What has not been reached yet is as it was.
Untouched ==
  /\ pc \in Early \cup {"find_fadt"} => fadt = Null
  /\ pc \in Early \cup {"find_fadt", "parse_aml"} => lines = <<>>
  /\ pc = "parse_aml" => i = 0
  /\ pc # "done" => status = "none"
  /\ pc = "done" => status # "none"

\* The entries before i have been read, and none of them was the FADT.
Scanned ==
  /\ pc = "find_fadt" /\ rsdp # "xsdt" => i = 0
  /\ pc = "find_fadt" /\ length >= Header =>
       /\ \A k \in facp : i <= k
       /\ i > 0 => i - 1 \in Inside(length)

\* Lines that hold n bytes: all but the last are full, and it never is.
Hold(s, n) ==
  LET last == Len(s)
  IN  /\ last > 0
      /\ \A k \in 1..(last - 1) : s[k] = Mod
      /\ s[last] < Mod
      /\ (last - 1) * Mod + s[last] = n

Dumping ==
  pc = "dump" =>
    /\ fadt # Null /\ dsdt \in 1..IntMax
    /\ i <= dsdt
    /\ Hold(lines, i)

IInv ==
  /\ AcpiTypeOK /\ Untouched /\ Scanned /\ Dumping
  /\ ReadsInside /\ FadtIsFirst /\ DumpedInLines

-----------------------------------------------------------------------------
(* Arithmetic.                                                             *)

LEMMA Division ==
  ASSUME NEW a \in Nat, NEW b \in Nat \ {0}
  PROVE  a \div b \in Nat /\ b * (a \div b) <= a /\ a < b * (a \div b) + b
OBVIOUS

LEMMA Times ==
  ASSUME NEW i1 \in Nat, NEW i2 \in Nat, NEW b \in Nat, i1 <= i2
  PROVE  i1 * b \in Nat /\ i1 * b <= i2 * b /\ (i1 + 1) * b = i1 * b + b /\ i1 * b = b * i1
OBVIOUS

LEMMA Remainder ==
  ASSUME NEW q \in Nat, NEW b \in Nat \ {0}, NEW r \in 0..(b - 1), NEW a \in Int, a = q * b + r
  PROVE  a % b = r
OBVIOUS

LEMMA Multiple ==
  ASSUME NEW q \in Nat, NEW b \in Nat \ {0}, NEW a \in Int, a = q * b
  PROVE  a % b = 0
OBVIOUS

LEMMA Successor ==
  ASSUME NEW k \in Nat, NEW b \in Nat
  PROVE  k * b \in Nat /\ (k + 1) * b = k * b + b
OBVIOUS

(* The entries a bound of a \div b covers are those that fit into a.       *)
LEMMA Covered ==
  ASSUME NEW a \in Nat, NEW b \in Nat \ {0}, NEW k \in Nat
  PROVE  k < a \div b <=> (k + 1) * b <= a
<1> DEFINE q == a \div b
<1>1. q \in Nat /\ b * q <= a /\ a < b * q + b
  BY Division
<1> HIDE DEF q
<1>2. q * b = b * q /\ (q + 1) * b = q * b + b
  BY <1>1, Times
<1>3. k < q => (k + 1) * b <= q * b
  BY <1>1, Times
<1>4. ~(k < q) => (q + 1) * b <= (k + 1) * b
  BY <1>1, Times
<1>5. (k + 1) * b \in Nat /\ q * b \in Nat
  BY <1>1, Times
<1>6. k < q <=> (k + 1) * b <= a
  BY <1>1, <1>2, <1>3, <1>4, <1>5
<1>7. QED
  BY <1>6 DEF q

-----------------------------------------------------------------------------
(* The bound of the loop over the XSDT: the entries that fit into its      *)
(* length, if that covers the header at all.                               *)
LEMMA CountIsInside ==
  ASSUME AcpiTypeOK, NEW k \in Nat
  PROVE  /\ k < Count(length) => k < Word
         /\ length >= Header => (k < Count(length) <=> k \in Inside(length))
<1>1. /\ length \in 0..(Word - 1) /\ Word \in Nat \ {0} /\ Header \in Nat
      /\ EntrySize \in Nat \ {0}
  BY AcpiAssumption DEF AcpiTypeOK
<1> DEFINE a == (length - Header) % Word
<1>2. a \in 0..(Word - 1)
  BY <1>1
<1>3. Count(length) = a \div EntrySize
  BY DEF Count
<1>4. length >= Header => a = length - Header
  BY <1>1
<1> HIDE DEF a
<1>5. k < Count(length) <=> (k + 1) * EntrySize <= a
  BY <1>1, <1>2, <1>3, Covered
<1>6. (k + 1) * EntrySize \in Nat /\ k + 1 <= (k + 1) * EntrySize
  <2>1. (k + 1) * 1 <= (k + 1) * EntrySize
    <3>1. 1 * (k + 1) <= EntrySize * (k + 1)
      BY <1>1, Times
    <3>2. QED
      BY <3>1, <1>1, Times
  <2>2. QED
    BY <1>1, <2>1, Times
<1>7. k < Count(length) => k < Word
  BY <1>1, <1>2, <1>5, <1>6
<1>8. ASSUME length >= Header PROVE k < Count(length) <=> k \in Inside(length)
  <2>1. k \in Inside(length) <=> k < Word /\ Header + (k + 1) * EntrySize <= length
    BY <1>1 DEF Inside
  <2>2. QED
    BY <1>1, <1>4, <1>5, <1>6, <1>7, <1>8, <2>1
<1>9. QED
  BY <1>7, <1>8

(* The Length of the DSDT as an int.                                       *)
LEMMA DsdtAsInt ==
  ASSUME AcpiTypeOK
  PROVE  /\ IntArg(dsdt) \in Int
         /\ dsdt = Null \/ IntArg(dsdt) <= 0 <=> dsdt \notin 1..IntMax
         /\ dsdt \in 1..IntMax => IntArg(dsdt) = dsdt
<1>1. IntMax \in Nat \ {0}
  BY IntAssumption
<1>2. dsdt = -1 \/ dsdt \in 0..(2 * IntMax + 1)
  BY AcpiAssumption DEF AcpiTypeOK, Null
<1>3. dsdt \in 0..(2 * IntMax + 1) => dsdt % (2 * (IntMax + 1)) = dsdt
  BY <1>1
<1>4. dsdt % (2 * (IntMax + 1)) \in Int
  BY <1>1, <1>2
<1>5. QED
  BY <1>1, <1>2, <1>3, <1>4 DEF IntArg, Null

(* A byte more.                                                            *)
LEMMA OneMore ==
  ASSUME NEW s \in Seq(0..Mod), NEW n \in Nat, Hold(s, n)
  PROVE  LET last  == Len(s)
             added == [s EXCEPT ![last] = @ + 1]
             t     == IF (n + 1) % Mod = 0 THEN Append(added, 0) ELSE added
         IN  t \in Seq(0..Mod) /\ Hold(t, n + 1)
<1> DEFINE last == Len(s)
           r == s[last]
           added == [s EXCEPT ![last] = @ + 1]
<1>1. Mod \in Nat \ {0}
  BY AcpiAssumption
<1>2. last \in Nat \ {0} /\ r \in 0..(Mod - 1) /\ n = (last - 1) * Mod + r
  BY <1>1, LenProperties, ElementOfSeq DEF Hold
<1>3. \A k \in 1..(last - 1) : s[k] = Mod
  BY DEF Hold
<1>4. added \in Seq(0..Mod) /\ Len(added) = last
      /\ added[last] = r + 1 /\ \A k \in 1..(last - 1) : added[k] = Mod
  <2>1. r + 1 \in 0..Mod
    BY <1>1, <1>2
  <2>2. added \in Seq(0..Mod) /\ Len(added) = last
        /\ \A k \in 1..Len(s) : added[k] = IF k = last THEN r + 1 ELSE s[k]
    <3>1. added = [s EXCEPT ![last] = r + 1]
      OBVIOUS
    <3>2. last \in 1..Len(s)
      BY <1>2
    <3>3. QED
      BY <2>1, <3>1, <3>2, ExceptSeq
  <2>3. last \in 1..Len(s) /\ \A k \in 1..(last - 1) : k \in 1..Len(s) /\ k # last
    BY <1>2
  <2>4. Len(s) = last
    OBVIOUS
  <2> HIDE DEF last, r, added
  <2>5. QED
    BY <1>2, <1>3, <2>2, <2>3, <2>4
<1> HIDE DEF last, r, added
<1>5. (last - 1) * Mod \in Nat /\ last * Mod = (last - 1) * Mod + Mod
  BY <1>1, <1>2, Times
<1>6. n + 1 = (last - 1) * Mod + (r + 1)
  BY <1>1, <1>2, <1>5
<1>7. CASE r + 1 = Mod
  <2>1. n + 1 = last * Mod /\ last - 1 \in Nat
    BY <1>2, <1>5, <1>6, <1>7
  <2>2. (n + 1) % Mod = 0
    <3>1. n + 1 \in Int
      OBVIOUS
    <3>2. QED
      BY <1>1, <1>2, <2>1, <3>1, Multiple
  <2> DEFINE t == Append(added, 0)
  <2>3. /\ t \in Seq(0..Mod) /\ Len(t) = last + 1 /\ t[last + 1] = 0
        /\ \A k \in 1..last : t[k] = added[k]
    BY <1>1, <1>4, AppendProperties
  <2> HIDE DEF t
  <2>4. \A k \in 1..last : t[k] = Mod
    BY <1>2, <1>4, <1>7, <2>3
  <2>5. Hold(t, n + 1)
    BY <1>1, <1>2, <2>1, <2>3, <2>4 DEF Hold
  <2>6. QED
    BY <2>2, <2>3, <2>5 DEF t, added, last
<1>8. CASE r + 1 # Mod
  <2>1. r + 1 \in 0..(Mod - 1) /\ last - 1 \in Nat
    BY <1>1, <1>2, <1>8
  <2>2. (n + 1) % Mod = r + 1 /\ r + 1 # 0
    <3>1. n + 1 \in Int /\ r + 1 # 0
      BY <2>1, <1>2
    <3>2. QED
      BY <1>1, <1>6, <2>1, <3>1, Remainder
  <2>3. Hold(added, n + 1)
    BY <1>1, <1>2, <1>4, <1>6, <2>1 DEF Hold
  <2>4. QED
    BY <1>4, <2>2, <2>3 DEF added, last
<1>9. QED
  BY <1>7, <1>8

\* What DumpedInLines says of the lines of a dump of n bytes.
Closed(s, n) ==
  LET last == Len(s) - 1
  IN  /\ s[last + 1] = 0
      /\ \A k \in 1..(last - 1) : s[k] = Mod
      /\ s[last] > 0
      /\ (last - 1) * Mod + s[last] = n

(* The end of the dump.                                                    *)
LEMMA DumpCloses ==
  ASSUME NEW s \in Seq(0..Mod), NEW n \in Nat \ {0}, Hold(s, n)
  PROVE  LET t == IF n % Mod # 0 THEN Append(s, 0) ELSE s
         IN  t \in Seq(0..Mod) /\ Closed(t, n)
<1> DEFINE last == Len(s)
           r == s[last]
<1>1. Mod \in Nat \ {0}
  BY AcpiAssumption
<1>2. last \in Nat \ {0} /\ r \in 0..(Mod - 1) /\ n = (last - 1) * Mod + r
  BY <1>1, LenProperties, ElementOfSeq DEF Hold
<1>3. \A k \in 1..(last - 1) : s[k] = Mod
  BY DEF Hold
<1>4. n % Mod = r
  <2> DEFINE q == last - 1
  <2>1. q \in Nat /\ n = q * Mod + r /\ n \in Int
    BY <1>2
  <2>2. r \in 0..(Mod - 1)
    BY <1>2
  <2> HIDE DEF q, r
  <2>3. QED
    BY <1>1, <2>1, <2>2, Remainder
<1>5. CASE r # 0
  <2> DEFINE t == Append(s, 0)
  <2>1. /\ t \in Seq(0..Mod) /\ Len(t) = last + 1 /\ t[last + 1] = 0
        /\ \A k \in 1..last : t[k] = s[k]
    BY <1>1, AppendProperties
  <2> HIDE DEF t
  <2>2. t[last] = r /\ \A k \in 1..(last - 1) : t[k] = Mod
    BY <1>2, <1>3, <2>1
  <2> HIDE DEF last, r
  <2>3. Closed(t, n)
    BY <1>1, <1>2, <1>5, <2>1, <2>2 DEF Closed
  <2>4. QED
    BY <1>4, <1>5, <2>1, <2>3 DEF t
<1>6. CASE r = 0
  <2>1. last > 1
    BY <1>1, <1>2, <1>6
  <2>2. s[last - 1] = Mod
    BY <1>2, <1>3, <2>1
  <2> HIDE DEF last, r
  <2>3. (last - 1) * Mod = (last - 2) * Mod + Mod /\ (last - 2) * Mod \in Nat
    <3> DEFINE k == last - 2
    <3>1. k \in Nat /\ k + 1 = last - 1
      BY <1>2, <2>1
    <3> HIDE DEF k
    <3>2. (k + 1) * Mod = k * Mod + Mod /\ k * Mod \in Nat
      BY <1>1, <3>1, Successor
    <3>3. QED
      BY <3>1, <3>2 DEF k
  <2>4. Closed(s, n)
    <3>1. n = (last - 2) * Mod + Mod
      BY <1>1, <1>2, <1>6, <2>3
    <3>2. \A k \in 1..(last - 2) : s[k] = Mod
      BY <1>2, <1>3
    <3>3. Len(s) = last /\ s[last] = 0
      BY <1>6 DEF last, r
    <3>4. (last - 1) - 1 = last - 2 /\ (last - 1) + 1 = last
      BY <1>2
    <3>5. QED
      BY <1>1, <1>2, <2>2, <3>1, <3>2, <3>3, <3>4 DEF Closed
  <2>5. QED
    BY <1>4, <1>6, <2>4
<1>7. QED
  BY <1>5, <1>6

-----------------------------------------------------------------------------
LEMMA InitIInv == Init => IInv
<1> SUFFICES ASSUME Init PROVE IInv
  OBVIOUS
<1>1. config \in Seq(Guid) /\ Len(config) <= MaxEntries
  <2>1. PICK n \in 0..MaxEntries : config \in [1..n -> Guid]
    BY DEF Init
  <2>2. n \in Nat /\ Len(config) = n
    BY <2>1, AcpiAssumption
  <2>3. QED
    BY <2>1, <2>2
<1>2. AcpiTypeOK
  BY <1>1 DEF Init, AcpiTypeOK, Status
<1>3. QED
  BY <1>2 DEF Init, IInv, Untouched, Scanned, Dumping, ReadsInside, FadtIsFirst, DumpedInLines,
              Done, Early

(* Returning without a dump.                                               *)
LEMMA EarlyReturn ==
  ASSUME IInv, NEW r \in {"success", "not_found"}, Return(r), lines = <<>>,
         r = "not_found" \/ fadt = Null \/ dsdt \notin 1..IntMax,
         r = "success" => pc = "parse_aml"
  PROVE  IInv'
<1>1. /\ UNCHANGED <<config, rsdp, length, facp, dsdt, i, table, dtb, fadt, lines>>
      /\ pc' = "done" /\ status' = r
  BY DEF Return, tables
<1>2. AcpiTypeOK'
  BY <1>1 DEF IInv, AcpiTypeOK, Status, Inside
<1>3. Untouched' /\ Scanned' /\ Dumping' /\ DumpedInLines'
  BY <1>1 DEF IInv, Untouched, Scanned, Dumping, DumpedInLines, Done, Early
<1>4. ReadsInside' /\ FadtIsFirst'
  BY <1>1 DEF IInv, Untouched, ReadsInside, FadtIsFirst, Inside, IsFirst
<1>5. QED
  BY <1>2, <1>3, <1>4 DEF IInv

(* Before the XSDT is reached.                                             *)
LEMMA EarlyStep ==
  ASSUME IInv, LocateProtocol \/ FindAcpiTable \/ FindRsdpTables \/ CheckDtb
  PROVE  IInv'
<1>0. AcpiTypeOK /\ Untouched /\ Len(config) \in Nat /\ i \in Nat
  BY LenProperties DEF IInv, AcpiTypeOK
<1> DEFINE Calm  == UNCHANGED <<tables, fadt, lines, status>> /\ pc \in Early
           Moves == pc' \in Early \cup {"halted"} \/ (pc' = "find_fadt" /\ i' = 0)
           Typed == i' \in Nat /\ {table', dtb'} \subseteq {Null} \cup 0..(MaxEntries - 1)
<1>1. ASSUME Calm, Moves, Typed
      PROVE  IInv'
  <2>1. UNCHANGED <<config, rsdp, length, facp, dsdt, fadt, lines, status>>
    BY <1>1 DEF tables
  <2>2. AcpiTypeOK'
    BY <1>0, <1>1, <2>1 DEF AcpiTypeOK, Inside, Early
  <2>3. Untouched' /\ Dumping' /\ DumpedInLines'
    BY <1>0, <1>1, <2>1 DEF Untouched, Dumping, DumpedInLines, Done, Early
  <2>4. Scanned' /\ ReadsInside' /\ FadtIsFirst'
    <3>1. \A k \in facp : k \in Nat
      BY <1>0 DEF AcpiTypeOK, Inside
    <3>2. fadt' = Null /\ (pc' = "find_fadt" => i' = 0)
          /\ pc' \notin {"parse_aml", "dump", "done"}
      BY <1>0, <1>1, <2>1 DEF Untouched, Early
    <3>3. QED
      BY <2>1, <3>1, <3>2 DEF Scanned, ReadsInside, FadtIsFirst
  <2>5. QED
    BY <2>2, <2>3, <2>4 DEF IInv
<1>2. {table, dtb} \subseteq {Null} \cup 0..(MaxEntries - 1)
      /\ (i < Len(config) => i \in {Null} \cup 0..(MaxEntries - 1))
      /\ {i, i + 1, 0} \subseteq Nat
  BY <1>0, AcpiAssumption DEF AcpiTypeOK
<1>3. CASE LocateProtocol
  <2>1. Calm /\ Moves /\ UNCHANGED <<i, table, dtb>>
    BY <1>3 DEF LocateProtocol, Early, tables
  <2>2. Typed
    BY <1>2, <2>1
  <2> HIDE DEF Calm, Moves, Typed
  <2>3. QED
    BY <1>1, <2>1, <2>2
<1>4. CASE FindAcpiTable
  <2>1. CASE i >= Len(config) /\ Return("not_found")
    BY <1>0, <1>4, <2>1, EarlyReturn DEF FindAcpiTable, Untouched, Early
  <2>2. CASE ~(i >= Len(config) /\ Return("not_found"))
    <3>1. /\ Calm /\ Moves /\ UNCHANGED dtb
          /\ \/ i < Len(config) /\ table' = i /\ i' = 0
             \/ i' = i + 1 /\ UNCHANGED table
      BY <1>4, <2>2 DEF FindAcpiTable, Return, Early, tables
    <3>2. Typed
      BY <1>2, <3>1
    <3> HIDE DEF Calm, Moves, Typed
    <3>3. QED
      BY <1>1, <3>1, <3>2
  <2>3. QED
    BY <2>1, <2>2
<1>5. CASE FindRsdpTables
  <2>1. CASE rsdp = "unsigned"
    BY <1>0, <1>5, <2>1, EarlyReturn DEF FindRsdpTables, Untouched, Early
  <2>2. CASE rsdp # "unsigned"
    <3>1. Calm /\ Moves /\ UNCHANGED <<i, table, dtb>>
      BY <1>5, <2>2 DEF FindRsdpTables, Early, tables
    <3>2. Typed
      BY <1>2, <3>1
    <3> HIDE DEF Calm, Moves, Typed
    <3>3. QED
      BY <1>1, <3>1, <3>2
  <2>3. QED
    BY <2>1, <2>2
<1>6. CASE CheckDtb
  <2>1. /\ Calm /\ Moves /\ UNCHANGED table
        /\ \/ i' = 0 /\ ((i < Len(config) /\ dtb' = i) \/ UNCHANGED dtb)
           \/ i' = i + 1 /\ UNCHANGED dtb
    BY <1>6 DEF CheckDtb, Early, tables
  <2>2. Typed
    BY <1>2, <2>1
  <2> HIDE DEF Calm, Moves, Typed
  <2>3. QED
    BY <1>1, <2>1, <2>2
<1>7. QED
  BY <1>3, <1>4, <1>5, <1>6

(* An entry of the XSDT is read.                                           *)
LEMMA XsdtStep ==
  ASSUME IInv, FindFadtInXsdt
  PROVE  IInv'
<1>0. /\ AcpiTypeOK /\ Untouched /\ Scanned /\ ReadsInside /\ pc = "find_fadt" /\ i \in Nat
      /\ fadt = Null /\ lines = <<>> /\ status = "none" /\ 0 \in Nat
      /\ \A k \in facp : k \in Nat
  BY DEF IInv, AcpiTypeOK, Untouched, Inside, FindFadtInXsdt, FindFadtUpTo
<1>1. /\ UNCHANGED <<config, rsdp, length, facp, dsdt, table, dtb, lines, status>>
      /\ pc' \in {"find_fadt", "parse_aml"}
  BY <1>0 DEF FindFadtInXsdt, FindFadtUpTo, tables
<1>2. /\ i < Count(length) => i < Word
      /\ length >= Header => (i < Count(length) <=> i \in Inside(length))
  BY <1>0, CountIsInside
<1>3. ASSUME NEW k \in facp, length >= Header PROVE k < Count(length)
  BY <1>0, <1>3, CountIsInside DEF AcpiTypeOK
<1>4. Untouched' /\ Dumping' /\ DumpedInLines'
  BY <1>0, <1>1 DEF FindFadtInXsdt, FindFadtUpTo, Untouched, Dumping, DumpedInLines, Done, Early
<1>5. CASE i < Count(length) /\ fadt' = i /\ pc' = "parse_aml" /\ i' = 0 /\ rsdp = "xsdt"
           /\ (i \in facp \/ i \notin Inside(length))
  <2>1. i \in 0..(Word - 1)
    BY <1>0, <1>2, <1>5, AcpiAssumption
  <2>2. AcpiTypeOK'
    BY <1>0, <1>1, <1>5, <2>1 DEF AcpiTypeOK, Inside
  <2>3. Scanned' /\ ReadsInside'
    BY <1>0, <1>1, <1>2, <1>5 DEF Scanned, ReadsInside, Inside
  <2>4. FadtIsFirst'
    BY <1>0, <1>1, <1>2, <1>5 DEF Scanned, FadtIsFirst, IsFirst
  <2>5. QED
    BY <1>4, <2>2, <2>3, <2>4 DEF IInv
<1>6. CASE i < Count(length) /\ i' = i + 1 /\ UNCHANGED <<pc, fadt>> /\ rsdp = "xsdt"
           /\ i \notin facp
  <2>1. AcpiTypeOK'
    BY <1>0, <1>1, <1>6 DEF AcpiTypeOK, Inside
  <2>2. i' - 1 = i /\ i' \in Nat
    BY <1>0, <1>6
  <2>3. Scanned' /\ ReadsInside'
    BY <1>0, <1>1, <1>2, <1>6, <2>2 DEF Scanned, ReadsInside, Inside
  <2>4. FadtIsFirst'
    BY <1>0, <1>1, <1>6 DEF FadtIsFirst
  <2>5. QED
    BY <1>4, <2>1, <2>3, <2>4 DEF IInv
<1>7. CASE (rsdp # "xsdt" \/ i >= Count(length)) /\ UNCHANGED fadt /\ pc' = "parse_aml" /\ i' = 0
  <2>1. AcpiTypeOK'
    BY <1>0, <1>1, <1>7 DEF AcpiTypeOK, Inside
  <2>2. Scanned' /\ ReadsInside'
    BY <1>0, <1>1, <1>7 DEF Scanned, ReadsInside
  <2>3. FadtIsFirst'
    <3>1. ASSUME rsdp = "xsdt", length >= Header PROVE facp = {}
      <4>1. ASSUME NEW k \in facp PROVE FALSE
        <5>1. k < Count(length) /\ i <= k /\ Count(length) \in Int
          <6>1. Count(length) \in Int
            <7>1. /\ (length - Header) % Word \in Nat /\ EntrySize \in Nat \ {0}
              BY <1>0, AcpiAssumption DEF AcpiTypeOK
            <7>2. QED
              BY <7>1, Division DEF Count
          <6>2. QED
            BY <1>0, <1>3, <3>1, <4>1, <6>1 DEF Scanned
        <5>2. QED
          BY <1>0, <1>7, <3>1, <4>1, <5>1
      <4>2. QED
        BY <4>1
    <3>2. QED
      BY <1>0, <1>1, <1>7, <3>1 DEF FadtIsFirst, IsFirst
  <2>4. QED
    BY <1>4, <2>1, <2>2, <2>3 DEF IInv
<1>8. QED
  BY <1>0, <1>5, <1>6, <1>7 DEF FindFadtInXsdt, FindFadtUpTo

(* From the DSDT to the end of the dump.                                   *)
LEMMA DumpStep ==
  ASSUME IInv, ParseAml \/ DumpByte \/ EndDump
  PROVE  IInv'
<1>0. AcpiTypeOK /\ Untouched /\ Dumping /\ i \in Nat /\ Mod \in Nat \ {0}
  BY AcpiAssumption DEF IInv, AcpiTypeOK
<1>1. pc \in {"parse_aml", "dump"} /\ status = "none"
  BY <1>0 DEF ParseAml, DumpByte, DumpByteWhen, EndDump, Untouched
<1>2. ASSUME UNCHANGED <<config, rsdp, length, facp, dsdt, table, dtb, fadt>>,
             pc' \in {"dump", "done"}, status' \in {"none", "success"}
      PROVE  Scanned' /\ ReadsInside' /\ FadtIsFirst'
  BY <1>1, <1>2 DEF IInv, Scanned, ReadsInside, FadtIsFirst, Inside, IsFirst
<1>3. CASE ParseAml
  <2>1. CASE fadt = Null \/ dsdt \notin 1..IntMax
    <3>1. Return("success") /\ pc = "parse_aml"
      BY <1>0, <1>3, <2>1, DsdtAsInt DEF ParseAml
    <3>2. QED
      BY <1>0, <2>1, <3>1, EarlyReturn DEF Untouched
  <2>2. CASE fadt # Null /\ dsdt \in 1..IntMax
    <3>1. /\ UNCHANGED <<config, rsdp, length, facp, dsdt, i, table, dtb, fadt, status>>
          /\ pc' = "dump" /\ lines' = <<0>>
      BY <1>0, <1>3, <2>2, DsdtAsInt DEF ParseAml, tables
    <3>2. i = 0
      BY <1>0, <1>3 DEF ParseAml, Untouched
    <3>3. lines' \in Seq(0..Mod) /\ Hold(lines', 0)
      BY <1>0, <3>1 DEF Hold
    <3>4. AcpiTypeOK'
      BY <1>0, <3>1, <3>3 DEF AcpiTypeOK, Inside
    <3>5. Untouched' /\ Dumping' /\ DumpedInLines'
      BY <1>1, <2>2, <3>1, <3>2, <3>3, IntAssumption
         DEF Untouched, Dumping, DumpedInLines, Done, Early, Hold
    <3>6. QED
      BY <1>1, <1>2, <3>1, <3>4, <3>5 DEF IInv
  <2>3. QED
    BY <2>1, <2>2
<1>4. CASE DumpByte
  <2>1. /\ UNCHANGED <<config, rsdp, length, facp, dsdt, table, dtb, fadt, status>>
        /\ pc = "dump" /\ pc' = "dump" /\ i' = i + 1 /\ InLoop(i, dsdt)
    BY <1>4 DEF DumpByte, DumpByteWhen, tables
  <2>2. /\ fadt # Null /\ dsdt \in 1..IntMax /\ Hold(lines, i) /\ lines \in Seq(0..Mod)
    BY <1>0, <2>1 DEF Dumping, AcpiTypeOK
  <2>3. i + 1 <= dsdt
    BY <1>0, <2>1, <2>2, DsdtAsInt, IntAssumption DEF InLoop
  <2>4. lines' \in Seq(0..Mod) /\ Hold(lines', i + 1)
    BY <1>0, <1>4, <2>2, OneMore DEF DumpByte, DumpByteWhen
  <2>5. AcpiTypeOK'
    BY <1>0, <2>1, <2>4 DEF AcpiTypeOK, Inside
  <2>6. Untouched' /\ Dumping' /\ DumpedInLines'
    BY <1>0, <1>1, <2>1, <2>2, <2>3, <2>4
       DEF Untouched, Dumping, DumpedInLines, Done, Early, Hold
  <2>7. QED
    BY <1>1, <1>2, <2>1, <2>5, <2>6 DEF IInv
<1>5. CASE EndDump
  <2>1. /\ UNCHANGED <<config, rsdp, length, facp, dsdt, i, table, dtb, fadt>>
        /\ pc = "dump" /\ pc' = "done" /\ status' = "success" /\ ~InLoop(i, dsdt)
    BY <1>5 DEF EndDump, tables
  <2>2. /\ fadt # Null /\ dsdt \in 1..IntMax /\ Hold(lines, i) /\ lines \in Seq(0..Mod)
        /\ i <= dsdt
    BY <1>0, <2>1 DEF Dumping, AcpiTypeOK
  <2>3. i = dsdt /\ IntArg(dsdt) = dsdt /\ dsdt \in Nat \ {0}
    BY <1>0, <2>1, <2>2, DsdtAsInt, IntAssumption DEF InLoop
  <2>4. lines' \in Seq(0..Mod) /\ Closed(lines', dsdt)
    BY <1>5, <2>2, <2>3, DumpCloses DEF EndDump
  <2>5. AcpiTypeOK'
    BY <1>0, <2>1, <2>4 DEF AcpiTypeOK, Inside, Status
  <2>6. DumpedInLines'
    BY <2>1, <2>2, <2>4 DEF DumpedInLines, Closed
  <2>7. Untouched' /\ Dumping'
    BY <2>1 DEF Untouched, Dumping, Early
  <2>8. QED
    BY <1>1, <1>2, <2>1, <2>5, <2>6, <2>7 DEF IInv
<1>6. QED
  BY <1>3, <1>4, <1>5

LEMMA NextIInv == IInv /\ [Next]_vars => IInv'
<1> SUFFICES ASSUME IInv, [Next]_vars PROVE IInv'
  OBVIOUS
<1>1. CASE LocateProtocol \/ FindAcpiTable \/ FindRsdpTables \/ CheckDtb
  BY <1>1, EarlyStep
<1>2. CASE FindFadtInXsdt
  BY <1>2, XsdtStep
<1>3. CASE ParseAml \/ DumpByte \/ EndDump
  BY <1>3, DumpStep
<1>4. CASE UNCHANGED vars
  BY <1>4 DEF vars, tables, IInv, AcpiTypeOK, Untouched, Scanned, Dumping, Hold, ReadsInside,
              FadtIsFirst, DumpedInLines, Done, Inside, IsFirst
<1>5. QED
  BY <1>1, <1>2, <1>3, <1>4 DEF Next

LEMMA IInvAlways == Spec => []IInv
  BY InitIInv, NextIInv, PTL DEF Spec

-----------------------------------------------------------------------------
(* Every variable of the dump stays within its type, whatever the tables   *)
(* hold.                                                                   *)
THEOREM AcpiTypeCorrect == Spec => []AcpiTypeOK
<1>1. IInv => AcpiTypeOK
  BY DEF IInv
<1>2. QED
  BY <1>1, IInvAlways, PTL

(* The loop of find_fadt_in_xsdt (acpi.c:124) stays inside an XSDT whose   *)
(* Length covers its header, whatever else it is.                          *)
THEOREM ReadsStayInside == Spec => []ReadsInside
<1>1. IInv => ReadsInside
  BY DEF IInv
<1>2. QED
  BY <1>1, IInvAlways, PTL

(* It finds the first FACP entry there is (acpi.c:133-137).                *)
THEOREM FirstFadt == Spec => []FadtIsFirst
<1>1. IInv => FadtIsFirst
  BY DEF IInv
<1>2. QED
  BY <1>1, IInvAlways, PTL

(* The dump of parse_aml holds every byte of a DSDT of any length an int   *)
(* holds, in lines of any width (acpi.c:10-28).                            *)
THEOREM DumpIsWhole == Spec => []DumpedInLines
<1>1. IInv => DumpedInLines
  BY DEF IInv
<1>2. QED
  BY <1>1, IInvAlways, PTL
=============================================================================
