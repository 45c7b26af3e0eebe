---------------------------- MODULE ParsePeProofs ----------------------------
(***************************************************************************)
(* Proofs about parse_pe for every file, every number of sections and      *)
(* every load address clear of the file.  The inductive invariant says     *)
(* that memory is at every moment what the sections before i make of it:   *)
(* the loop leaves nothing half done between two sections.                 *)
(***************************************************************************)
EXTENDS ParsePe, TLAPS

Placed == mem = Loaded(i)

Checked == \A k \in 1..i : InRange(sections[k])

\* Where the checks have got to.
Control ==
  /\ pc \in {"dos", "nt"} => i = 0
  /\ pc \in {"nt", "load"} => dos_ok
  /\ pc = "load" => nt_ok
  /\ pc # "done" => result = 0
  /\ pc = "done" =>
       IF result # 0 THEN i = Len(sections)
       ELSE IF dos_ok /\ nt_ok THEN i < Len(sections) /\ ~InRange(sections[i + 1])
       ELSE i = 0

IInv == PeTypeOK /\ Placed /\ Checked /\ Control /\ OnlyFileIsCopied

-----------------------------------------------------------------------------
(* What the assumption says of each constant.                              *)
LEMMA Constants ==
  /\ Top \in Nat /\ File \in Nat /\ Size \in Nat /\ EntryOffset \in Nat
  /\ MaxSections \in Nat /\ MaxOffset \in Nat /\ LoadAddr \in Nat /\ LoadAddr # 0
  /\ File + 2 * MaxOffset - 1 <= Top
  /\ LoadAddr + 2 * MaxOffset - 1 <= Top
BY PeAssumption

(* What a section header may state.                                        *)
LEMMA SectionFields ==
  ASSUME PeTypeOK, NEW k \in 1..Len(sections)
  PROVE  /\ sections[k] \in Section
         /\ sections[k].ptr \in 0..MaxOffset
         /\ sections[k].size \in 0..MaxOffset
         /\ sections[k].va \in 0..MaxOffset
<1>1. sections[k] \in Section
  BY DEF PeTypeOK
<1>2. QED
  BY <1>1 DEF Section

(* A byte of a section that lies inside a range lies inside it.            *)
LEMMA ByteInside ==
  ASSUME NEW f \in Nat, NEW p \in Nat, NEW n \in Nat, NEW size \in Nat,
         NEW d \in 0..(n - 1), f + p + n <= f + size
  PROVE  f + p + d \in f..(f + size - 1)
OBVIOUS

LEMMA ByteInMemory ==
  ASSUME NEW p \in 0..MaxOffset, NEW n \in 0..MaxOffset, NEW d \in 0..(n - 1)
  PROVE  File + p + d \in Addr
BY Constants DEF Addr

(* Of n + 1 sections the last is on top where it goes; elsewhere it is as  *)
(* if there were n.                                                        *)
LEMMA LastOverNext ==
  ASSUME NEW n \in Nat, NEW a \in Addr
  PROVE  LastOver(a, n + 1)
           = IF a \in Target(sections[n + 1]) THEN n + 1 ELSE LastOver(a, n)
<1> DEFINE Over(m) == {k \in 1..m : a \in Target(sections[k])}
<1>1. CASE a \in Target(sections[n + 1])
  <2>1. n + 1 \in Over(n + 1) /\ \A l \in Over(n + 1) : l <= n + 1
    BY <1>1
  <2>2. \A k \in Over(n + 1) : (\A l \in Over(n + 1) : l <= k) => k = n + 1
    BY <2>1
  <2>3. (CHOOSE k \in Over(n + 1) : \A l \in Over(n + 1) : l <= k) = n + 1
    BY <2>1, <2>2
  <2>4. LastOver(a, n + 1) = n + 1
    BY <2>1, <2>3 DEF LastOver
  <2>5. QED
    BY <1>1, <2>4
<1>2. CASE a \notin Target(sections[n + 1])
  <2>1. Over(n + 1) = Over(n)
    BY <1>2
  <2>2. LastOver(a, n + 1) = LastOver(a, n)
    <3> DEFINE Last(S) == IF S = {} THEN 0 ELSE CHOOSE k \in S : \A l \in S : l <= k
    <3>1. LastOver(a, n + 1) = Last(Over(n + 1)) /\ LastOver(a, n) = Last(Over(n))
      BY DEF LastOver
    <3> HIDE DEF Last, Over
    <3>2. QED
      BY <3>1, <2>1
  <2>3. QED
    BY <1>2, <2>2
<1>3. QED
  BY <1>1, <1>2

(* No section goes over the file, and without sections memory is as it     *)
(* was.                                                                    *)
LEMMA NothingLoaded == Loaded(0) = Before
<1>1. \A a \in Addr : LastOver(a, 0) = 0
  BY DEF LastOver
<1>2. QED
  BY <1>1 DEF Loaded, Before

LEMMA FileNotOver ==
  ASSUME PeTypeOK, NEW a \in FileCells, a \in Addr
  PROVE  LastOver(a, i) = 0
<1>1. i \in 0..Len(sections)
  BY DEF PeTypeOK
<1>2. ASSUME NEW k \in 1..i PROVE a \notin Target(sections[k])
  <2>1. k \in 1..Len(sections)
    BY <1>1, <1>2
  <2>2. sections[k].size \in 0..MaxOffset /\ sections[k].va \in 0..MaxOffset
    BY <2>1, SectionFields
  <2>3. Target(sections[k]) \subseteq LoadAddr..(LoadAddr + 2 * MaxOffset - 1)
    BY <2>2, Constants DEF Target
  <2>4. QED
    BY <2>3, PeAssumption
<1>3. {k \in 1..i : a \in Target(sections[k])} = {}
  BY <1>2
<1>4. QED
  BY <1>3 DEF LastOver

(* Copying a section that lies inside the file adds it to memory.          *)
LEMMA SectionAdded ==
  ASSUME IInv, i < Len(sections), InRange(sections[i + 1])
  PROVE  /\ CopySection(sections[i + 1]) = Loaded(i + 1)
         /\ CopySection(sections[i + 1]) \in [Addr -> Addr]
        /\ \A a \in Addr : CopySection(sections[i + 1])[a] \in FileCells \cup {mem[a]}
<1> DEFINE s == sections[i + 1]
           to == LoadAddr + s.va
           from == File + s.ptr
<1>0. i \in Nat /\ i + 1 \in 1..Len(sections) /\ mem \in [Addr -> Addr] /\ mem = Loaded(i)
  BY DEF IInv, PeTypeOK, Placed
<1>1. s.ptr \in 0..MaxOffset /\ s.size \in 0..MaxOffset /\ s.va \in 0..MaxOffset
  BY <1>0, SectionFields DEF IInv
<1>2. to \in Nat /\ from \in Nat /\ s.size \in Nat /\ File \in Nat /\ Size \in Nat
  BY <1>1, Constants
<1>3. Target(s) = to..(to + s.size - 1)
  BY <1>1, Constants DEF Target
<1>4. ASSUME NEW a \in Target(s)
      PROVE  /\ from + (a - to) \in FileCells \cap Addr
             /\ mem[from + (a - to)] = from + (a - to)
  <2>1. a \in Int /\ a - to \in 0..(s.size - 1)
    BY <1>2, <1>3, <1>4
  <2>2. from + s.size <= File + Size
    BY <1>1, <1>2, Constants DEF InRange
  <2>3. from + (a - to) \in FileCells
    <3> DEFINE d == a - to
    <3>1. File + s.ptr + d \in File..(File + Size - 1)
      <4>1. d \in 0..(s.size - 1) /\ s.ptr \in Nat /\ s.size \in Nat
        BY <2>1, <1>1, Constants
      <4> HIDE DEF d
      <4>2. QED
        BY <4>1, <2>2, Constants, ByteInside
    <3>2. QED
      BY <3>1 DEF FileCells
  <2>4. from + (a - to) \in Addr
    <3> DEFINE d == a - to
    <3>1. d \in 0..(s.size - 1) /\ s.ptr \in 0..MaxOffset /\ s.size \in 0..MaxOffset
      BY <2>1, <1>1
    <3> HIDE DEF d
    <3>2. File + s.ptr + d \in Addr
      BY <3>1, ByteInMemory
    <3>3. QED
      BY <3>2 DEF d
  <2>5. LastOver(from + (a - to), i) = 0
    BY <2>3, <2>4, FileNotOver DEF IInv
  <2>6. mem[from + (a - to)] = from + (a - to)
    BY <2>4, <2>5, <1>0 DEF Loaded
  <2>7. QED
    BY <2>3, <2>4, <2>6
<1>5. ASSUME NEW a \in Addr
      PROVE  /\ CopySection(s)[a] = Loaded(i + 1)[a]
             /\ CopySection(s)[a] \in Addr
             /\ CopySection(s)[a] \in FileCells \cup {mem[a]}
  <2>1. LastOver(a, i + 1) = IF a \in Target(s) THEN i + 1 ELSE LastOver(a, i)
    BY <1>0, LastOverNext
  <2>2. CASE a \in Target(s)
    <3>1. CopySection(s)[a] = from + (a - to)
      BY <2>2, <1>3, <1>4 DEF CopySection, CopyMem
    <3>2. Loaded(i + 1)[a] = File + s.ptr + (a - LoadAddr - s.va)
      BY <2>1, <2>2, <1>0 DEF Loaded
    <3>3. a \in Int
      BY Constants DEF Addr
    <3>4. File + s.ptr + (a - LoadAddr - s.va) = from + (a - to)
      <4>1. s.ptr \in Int /\ s.va \in Int /\ File \in Int /\ LoadAddr \in Int
        BY <1>1, Constants
      <4> HIDE DEF s
      <4>2. QED
        BY <3>3, <4>1
    <3>5. QED
      BY <3>1, <3>2, <3>4, <2>2, <1>4
  <2>3. CASE a \notin Target(s)
    <3>1. CopySection(s)[a] = mem[a]
      BY <2>3, <1>3 DEF CopySection, CopyMem
    <3>2. Loaded(i + 1)[a] = Loaded(i)[a]
      BY <2>1, <2>3 DEF Loaded
    <3>3. QED
      BY <3>1, <3>2, <1>0
  <2>4. QED
    BY <2>2, <2>3
<1>6. CopySection(s) = [a \in Addr |-> CopySection(s)[a]]
  BY DEF CopySection, CopyMem
<1>7. Loaded(i + 1) = [a \in Addr |-> Loaded(i + 1)[a]]
  BY DEF Loaded
<1>8. QED
  BY <1>5, <1>6, <1>7

-----------------------------------------------------------------------------
LEMMA InitIInv == Init => IInv
<1> SUFFICES ASSUME Init PROVE IInv
  OBVIOUS
<1>1. sections \in Seq(Section) /\ Len(sections) <= MaxSections
  <2>1. PICK n \in 0..MaxSections : sections \in [1..n -> Section]
    BY DEF Init
  <2>2. n \in Nat /\ Len(sections) = n
    BY <2>1, Constants
  <2>3. QED
    BY <2>1, <2>2
<1>2. PeTypeOK
  BY <1>1 DEF Init, PeTypeOK, Before
<1>3. Placed
  BY NothingLoaded DEF Init, Placed
<1>4. QED
  BY <1>2, <1>3 DEF Init, IInv, Checked, Control, OnlyFileIsCopied, Before

LEMMA NextIInv == IInv /\ [Next]_vars => IInv'
<1> SUFFICES ASSUME IInv, [Next]_vars PROVE IInv'
  OBVIOUS
<1>0. /\ PeTypeOK /\ Placed /\ Checked /\ Control
      /\ i \in 0..Len(sections) /\ Len(sections) \in Nat
      /\ EntryOffset + LoadAddr # 0
  BY Constants DEF IInv, PeTypeOK
<1>1. CASE ValidateDosHeader
  <2>1. UNCHANGED <<file, i, mem>>
    BY <1>1 DEF ValidateDosHeader, Return
  <2>2. Placed' /\ Checked'
    BY <1>0, <2>1 DEF Placed, Checked, Loaded, LastOver, Target, InRange, file
  <2>3. PeTypeOK' /\ Control'
    BY <1>0, <1>1, <2>1 DEF ValidateDosHeader, Return, PeTypeOK, Control, InRange, file
  <2>4. OnlyFileIsCopied'
    BY <2>1 DEF IInv, OnlyFileIsCopied
  <2>5. QED
    BY <2>2, <2>3, <2>4 DEF IInv
<1>2. CASE ValidateNtHeader
  <2>1. UNCHANGED <<file, i, mem>>
    BY <1>2 DEF ValidateNtHeader, Return
  <2>2. Placed' /\ Checked'
    BY <1>0, <2>1 DEF Placed, Checked, Loaded, LastOver, Target, InRange, file
  <2>3. PeTypeOK' /\ Control'
    BY <1>0, <1>2, <2>1 DEF ValidateNtHeader, Return, PeTypeOK, Control, InRange, file
  <2>4. OnlyFileIsCopied'
    BY <2>1 DEF IInv, OnlyFileIsCopied
  <2>5. QED
    BY <2>2, <2>3, <2>4 DEF IInv
<1>3. CASE LoadSection /\ i < Len(sections) /\ InRange(sections[i + 1])
  <2>1. /\ mem' = CopySection(sections[i + 1]) /\ i' = i + 1
        /\ UNCHANGED <<file, pc, result>> /\ pc = "load"
    BY <1>0, <1>3 DEF LoadSection, LoadSectionBy
  <2>2. mem' = Loaded(i + 1) /\ mem' \in [Addr -> Addr]
    BY <1>3, <2>1, SectionAdded
  <2>3. Placed'
    BY <2>1, <2>2 DEF Placed, Loaded, LastOver, Target, file
  <2>4. Checked'
    BY <1>0, <1>3, <2>1 DEF Checked, InRange, file
  <2>5. PeTypeOK' /\ Control'
    BY <1>0, <1>3, <2>1, <2>2 DEF PeTypeOK, Control, file
  <2>6. OnlyFileIsCopied'
    BY <1>3, <2>1, SectionAdded DEF IInv, OnlyFileIsCopied
  <2>7. QED
    BY <2>3, <2>4, <2>5, <2>6 DEF IInv
<1>4. CASE LoadSection /\ ~(i < Len(sections) /\ InRange(sections[i + 1]))
  <2>1. /\ UNCHANGED <<file, i, mem>> /\ pc = "load" /\ pc' = "done"
        /\ \/ i < Len(sections) /\ ~InRange(sections[i + 1]) /\ result' = 0
           \/ i >= Len(sections) /\ result' = EntryOffset + LoadAddr
    BY <1>0, <1>4 DEF LoadSection, LoadSectionBy, Return
  <2>2. Placed' /\ Checked'
    BY <1>0, <2>1 DEF Placed, Checked, Loaded, LastOver, Target, InRange, file
  <2>3. PeTypeOK' /\ Control'
    BY <1>0, <2>1 DEF PeTypeOK, Control, InRange, file
  <2>4. OnlyFileIsCopied'
    BY <2>1 DEF IInv, OnlyFileIsCopied
  <2>5. QED
    BY <2>2, <2>3, <2>4 DEF IInv
<1>5. CASE UNCHANGED vars
  <2>1. UNCHANGED <<dos_ok, nt_ok, sections, pc, i, mem, result>>
    BY <1>5 DEF vars, file
  <2>2. PeTypeOK' /\ Control'
    BY <1>0, <2>1 DEF PeTypeOK, Control, InRange
  <2>3. Placed' /\ Checked'
    BY <1>0, <2>1 DEF Placed, Checked, Loaded, LastOver, Target, InRange
  <2>4. OnlyFileIsCopied'
    BY <2>1 DEF IInv, OnlyFileIsCopied
  <2>5. QED
    BY <2>2, <2>3, <2>4 DEF IInv
<1>6. QED
  BY <1>1, <1>2, <1>3, <1>4, <1>5 DEF Next

LEMMA IInvAlways == Spec => []IInv
BY InitIInv, NextIInv, PTL DEF Spec

-----------------------------------------------------------------------------
(* Every variable of parse_pe keeps its type: no section is counted twice  *)
(* and what is returned is 0 or the entry point.                           *)
THEOREM PeTypeCorrect == Spec => []PeTypeOK
<1>1. IInv => PeTypeOK
  BY DEF IInv
<1>2. QED
  BY IInvAlways, <1>1, PTL

(* An entry point is returned only with every section of the file in its   *)
(* place and nothing else changed (parse.c:161-172).                       *)
THEOREM SuccessMeansLoaded == Spec => []LoadedOnSuccess
<1>1. IInv => LoadedOnSuccess
  BY DEF IInv, Placed, Control, LoadedOnSuccess
<1>2. QED
  BY IInvAlways, <1>1, PTL

(* A file that is rejected has been loaded up to its first wrong section   *)
(* and no further (parse.c:161-167).                                       *)
THEOREM RejectionIsPrompt == Spec => []RejectedAtFirstWrong
<1>1. IInv => RejectedAtFirstWrong
  BY DEF IInv, Placed, Checked, Control, RejectedAtFirstWrong
<1>2. QED
  BY IInvAlways, <1>1, PTL

(* At no moment does memory hold anything copied from outside the file,    *)
(* whatever offsets and sizes its headers state (parse.c:101-108).         *)
THEOREM FileAloneIsCopied == Spec => []OnlyFileIsCopied
<1>1. IInv => OnlyFileIsCopied
  BY DEF IInv
<1>2. QED
  BY IInvAlways, <1>1, PTL
=============================================================================
