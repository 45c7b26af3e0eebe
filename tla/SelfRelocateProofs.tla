-------------------------- MODULE SelfRelocateProofs --------------------------
(***************************************************************************)
(* Proofs about _start and _relocate, for relocation tables of any length  *)
(* and .dynamic sections of any tags.                                      *)
(***************************************************************************)
EXTENDS SelfRelocate, SequenceTheorems, FiniteSetTheorems, TLAPS

Word == {<<0, FALSE>>, <<0, TRUE>>, <<1, TRUE>>}

RelocateTypeOK ==
  /\ machine \in Machines
  /\ dyn \in Seq(Tags) /\ left \in Seq(Tags)
  /\ table \in Seq(Types)
  /\ linked \in [DOMAIN table -> {<<0, FALSE>>, <<0, TRUE>>}]
  /\ mem \in [DOMAIN table -> Word]
  /\ pc \in {"start", "scan", "check", "apply", "branch", "epilogue", "spin", "entered", "returned"}
  /\ at \in Nat \ {0} /\ relsz \in Nat
  /\ status \in {"success", "load error"}

\* LoongArch adds to what the linker has left.
Linkage == machine = "loongarch64" => \A i \in DOMAIN table : linked[i] = <<0, TRUE>>

\* What has been relocated lies before the entry _relocate has come to.
Half == \A i \in DOMAIN table :
          mem[i] = IF i < at /\ table[i] = "relative" THEN Right ELSE linked[i]

\* Entries done and to be done make up the table once its size is known.
Sized ==
  /\ at + relsz \in {1, Len(table) + 1}
  /\ pc = "start" => left = dyn
  /\ "RELASZ" \in Tagged => \/ at + relsz = Len(table) + 1
                            \/ pc \in {"start", "scan"} /\ "RELASZ" \in ToSet(left)
  /\ pc \in {"start", "scan", "check"} => status = "success" /\ at = 1

\* What the table is taken for.
Table == {"RELA", "RELAENT"} \cap Tagged
Judged ==
  /\ pc = "apply" => Table = {"RELA", "RELAENT"} /\ status = "success"
  /\ pc \in {"branch", "entered"} /\ status = "success" =>
       Table = {} \/ (Table = {"RELA", "RELAENT"} /\ relsz = 0)
  /\ pc = "entered" => status = "success"
  /\ pc = "epilogue" => status = "load error"

IInv == RelocateTypeOK /\ Linkage /\ Half /\ Sized /\ Judged
-----------------------------------------------------------------------------
LEMMA Bounded ==
  ASSUME NEW S, NEW n \in Nat, NEW s \in BoundedSeq(S, n)
  PROVE  s \in Seq(S)
BY DEF BoundedSeq, SeqOf

LEMMA InitIInv == Init => IInv
<1> SUFFICES ASSUME Init PROVE IInv
  OBVIOUS
<1>1. dyn \in Seq(Tags) /\ table \in Seq(Types)
  BY Bounded, RelocateAssumption DEF Init
<1>2. linked \in [DOMAIN table -> {<<0, FALSE>>, <<0, TRUE>>}] /\ Linkage
  BY DEF Init, Linkage
<1>3. RelocateTypeOK
  <2>1. mem \in [DOMAIN table -> Word]
    BY <1>2 DEF Init, Word
  <2>2. machine \in Machines /\ left \in Seq(Tags) /\ status \in {"success", "load error"}
    BY <1>1 DEF Init
  <2>3. /\ at \in Nat \ {0} /\ relsz \in Nat
        /\ pc \in {"start", "scan", "check", "apply", "branch", "epilogue", "spin", "entered", "returned"}
    BY DEF Init
  <2>4. QED
    BY <1>1, <1>2, <2>1, <2>2, <2>3, Zenon DEF RelocateTypeOK
<1>4. Half
  <2>1. \A i \in DOMAIN table : ~(i < 1)
    BY <1>1
  <2>2. mem = linked /\ at = 1
    BY DEF Init
  <2>3. QED
    BY <2>1, <2>2 DEF Half
<1>5. Len(table) \in Nat
  BY <1>1
<1>6. Sized
  BY <1>1, <1>5 DEF Init, Sized, Tagged
<1>7. Judged
  BY DEF Init, Judged
<1>8. QED
  BY <1>2, <1>3, <1>4, <1>6, <1>7 DEF IInv

LEMMA NoneInEmpty == \A x : x \notin ToSet(<<>>)
<1>1. <<>> \in Seq({}) /\ Len(<<>>) = 0
  BY EmptySeq, Zenon
<1>2. DOMAIN <<>> = 1..0
  BY <1>1, LenProperties
<1>3. \A i \in 1..0 : FALSE
  OBVIOUS
<1>4. QED
  BY <1>2, <1>3, Zenon DEF ToSet

\* The tag just scanned is the one sought, or that is still to come.
LEMMA ScanKeeps == ASSUME IInv, Scan PROVE IInv'
<1> USE DEF Scan, image
<1>1. left \in Seq(Tags) /\ left # <<>> /\ left' = Tail(left) /\ Len(table) \in Nat /\ at = 1
  BY DEF IInv, RelocateTypeOK, Sized
<1>2. RelocateTypeOK'
  BY <1>1, HeadTailProperties DEF IInv, RelocateTypeOK
<1>3. "RELASZ" \in ToSet(left) => Head(left) = "RELASZ" \/ "RELASZ" \in ToSet(left')
  <2>1. SUFFICES ASSUME NEW i \in DOMAIN left, left[i] = "RELASZ", i # 1
                 PROVE  "RELASZ" \in ToSet(left')
    BY <1>1 DEF ToSet
  <2>2. i - 1 \in DOMAIN left' /\ left'[i - 1] = left[i]
    BY <1>1, <2>1
  <2>3. QED
    BY <2>1, <2>2 DEF ToSet
<1>4. Sized'
  <2>1. at' + relsz' \in {1, Len(table)' + 1}
    BY <1>1 DEF IInv, Sized
  <2>2. "RELASZ" \in Tagged => at' + relsz' = Len(table)' + 1 \/ "RELASZ" \in ToSet(left')
    BY <1>1, <1>3 DEF IInv, Sized
  <2>3. pc = "scan" /\ pc' = "scan" /\ status' = "success" /\ at' = 1 /\ Tagged' = Tagged
    BY DEF IInv, Sized, Tagged
  <2>4. QED
    BY <2>1, <2>2, <2>3 DEF Sized
<1>5. (Linkage /\ Half /\ Judged)'
  BY DEF IInv, Linkage, Half, Judged
<1>6. QED
  BY <1>2, <1>4, <1>5 DEF IInv

LEMMA NoMore == ASSUME relsz \in Nat, ~More PROVE relsz = 0
BY DEF More

\* The verdict on .dynamic, and the branch that follows from it.
LEMMA VerdictKeeps ==
  ASSUME IInv, Start \/ Scanned \/ Check \/ Applied \/ Branch \/ Epilogue \/ Panic
  PROVE  IInv'
<1> USE DEF Start, Scanned, Check, Applied, Branch, Epilogue, Panic, image
<1>1. RelocateTypeOK'
  BY DEF IInv, RelocateTypeOK
<1>2. (Linkage /\ Half)'
  BY DEF IInv, Linkage, Half
<1>3. Sized'
  <2>1. UNCHANGED <<dyn, table, left, at, relsz, Tagged>>
    BY DEF Tagged
  <2>2. "RELASZ" \notin ToSet(<<>>)
    BY NoneInEmpty
  <2>3. QED
    BY <2>1, <2>2 DEF IInv, Sized
<1>4. Judged'
  <2>1. UNCHANGED Table
    BY DEF Table, Tagged
  <2>2. CASE Check
    <3>1. Table = {"RELA", "RELAENT"} \cap Tagged /\ status = "success"
      BY <2>2 DEF IInv, Sized, Table
    <3>2. QED
      BY <2>1, <2>2, <3>1 DEF Judged
  <2>3. CASE Applied \/ Branch
    <3>1. UNCHANGED <<status, relsz>>
      BY <2>3
    <3>2. status \in {"success", "load error"}
      BY DEF IInv, RelocateTypeOK
    <3>3. relsz \in Nat
      BY DEF IInv, RelocateTypeOK
    <3>4. CASE Applied
      <4>1. relsz = 0
        BY <3>3, <3>4, NoMore
      <4>2. QED
        BY <2>1, <3>1, <3>4, <4>1 DEF IInv, Judged
    <3>5. CASE Branch
      BY <2>1, <3>1, <3>2, <3>5 DEF IInv, Judged
    <3>6. QED
      BY <2>3, <3>4, <3>5
  <2>4. CASE Start \/ Scanned \/ Epilogue \/ Panic
    <3>1. UNCHANGED <<status, relsz>>
      BY <2>4
    <3>2. pc' = "branch" => pc = "epilogue"
      BY <2>4
    <3>3. pc' \notin {"apply", "entered", "epilogue"}
      BY <2>4
    <3>4. QED
      BY <2>1, <3>1, <3>2, <3>3 DEF IInv, Judged
  <2>5. QED
    BY <2>2, <2>3, <2>4
<1>5. QED
  BY <1>1, <1>2, <1>3, <1>4 DEF IInv

\* One more entry is done, and a relative one now points where it should.
LEMMA ApplyKeeps == ASSUME IInv, Apply PROVE IInv'
<1> USE DEF Apply, Advance, More, image
<1>1. /\ machine \in Machines /\ at \in Nat \ {0} /\ relsz \in Nat \ {0}
      /\ mem \in [DOMAIN table -> Word] /\ table \in Seq(Types) /\ Len(table) \in Nat
      /\ linked \in [DOMAIN table -> {<<0, FALSE>>, <<0, TRUE>>}]
  <2>1. relsz \in Nat /\ relsz > 0 /\ table \in Seq(Types)
    BY DEF IInv, RelocateTypeOK
  <2>2. relsz \in Nat \ {0} /\ Len(table) \in Nat
    BY <2>1
  <2>3. QED
    BY <2>2 DEF IInv, RelocateTypeOK
<1>2. at \in DOMAIN table
  BY <1>1 DEF IInv, Sized
<1>3. mem[at] = linked[at]
  BY <1>1, <1>2 DEF IInv, Half
<1>4. Relocated(mem[at]) = Right
  <2>1. CASE machine = "loongarch64"
    <3>1. mem[at] = <<0, TRUE>>
      BY <1>2, <1>3, <2>1 DEF IInv, Linkage
    <3>2. QED
      BY <2>1, <3>1 DEF Relocated, Right
  <2>2. CASE machine # "loongarch64"
    BY <2>2 DEF Relocated
  <2>3. QED
    BY <2>1, <2>2
<1>5. \A i \in DOMAIN table :
        mem'[i] = IF i = at /\ table[i] = "relative" THEN Right ELSE mem[i]
  BY <1>1, <1>2, <1>4
<1>6. mem' \in [DOMAIN table -> Word]
  BY <1>1, <1>2, <1>4 DEF Right, Word
<1>7. RelocateTypeOK'
  <2>1. at' \in Nat \ {0} /\ relsz' \in Nat
    BY <1>1
  <2>2. UNCHANGED <<machine, dyn, table, linked, left, pc, status>>
    OBVIOUS
  <2>3. QED
    BY <1>6, <2>1, <2>2 DEF IInv, RelocateTypeOK
<1>8. Half'
  <2>1. SUFFICES ASSUME NEW i \in DOMAIN table
                 PROVE  mem'[i] = IF i < at + 1 /\ table[i] = "relative" THEN Right ELSE linked[i]
    BY DEF Half
  <2>2. i \in Nat /\ (i < at + 1 <=> i < at \/ i = at)
    BY <1>1
  <2>3. mem[i] = IF i < at /\ table[i] = "relative" THEN Right ELSE linked[i]
    BY DEF IInv, Half
  <2>4. QED
    BY <1>3, <1>5, <2>2, <2>3
<1>9. Sized'
  <2>1. at' + relsz' = at + relsz
    BY <1>1
  <2>2. QED
    BY <2>1 DEF IInv, Sized, Tagged
<1>10. (Linkage /\ Judged)'
  BY DEF IInv, Linkage, Judged, Table, Tagged
<1>11. QED
  BY <1>7, <1>8, <1>9, <1>10 DEF IInv

LEMMA NextIInv == IInv /\ [Next]_vars => IInv'
<1> SUFFICES ASSUME IInv, [Next]_vars PROVE IInv'
  OBVIOUS
<1>1. CASE Scan
  BY <1>1, ScanKeeps
<1>2. CASE Apply
  BY <1>2, ApplyKeeps
<1>3. CASE UNCHANGED vars
  BY <1>3 DEF vars, image, IInv, RelocateTypeOK, Linkage, Half, Sized, Judged, Table, Tagged
<1>4. QED
  BY <1>1, <1>2, <1>3, VerdictKeeps DEF Next

LEMMA Invariance == Spec => []IInv
BY InitIInv, NextIInv, PTL DEF Spec

-----------------------------------------------------------------------------
\* Words, tags, counters and control points stay what they are.
THEOREM RelocateTypeCorrect == Spec => []RelocateTypeOK
BY Invariance, PTL DEF IInv

LEMMA TwoTags == Cardinality({}) = 0 /\ Cardinality({"RELA", "RELAENT"}) = 2
<1>1. Cardinality({}) = 0 /\ IsFiniteSet({"RELA"}) /\ Cardinality({"RELA"}) = 1
  BY FS_EmptySet, FS_Singleton
<1>2. Cardinality({"RELA"} \cup {"RELAENT"}) = 2
  BY <1>1, FS_AddElement
<1>3. {"RELA"} \cup {"RELAENT"} = {"RELA", "RELAENT"}
  OBVIOUS
<1>4. QED
  BY <1>1, <1>2, <1>3

\* efi_main runs on an image with every relative relocation applied once and
\* no other word touched, for a table of any length, and never on one whose
\* table cannot be read (reloc_*.c and crt0-efi-*.S).
THEOREM EntersRelocated == Spec => []EnteredRelocated
<1>1. IInv => EnteredRelocated
  <2> SUFFICES ASSUME IInv, pc = "entered"
               PROVE  /\ Cardinality(Table) # 1
                      /\ {"RELA", "RELASZ", "RELAENT"} \subseteq Tagged =>
                           \A i \in DOMAIN mem :
                             mem[i] = IF table[i] = "relative" THEN Right ELSE linked[i]
    BY DEF EnteredRelocated, Table
  <2>1. Table = {} \/ (Table = {"RELA", "RELAENT"} /\ relsz = 0)
    BY DEF IInv, Judged
  <2>2. Cardinality(Table) # 1
    BY <2>1, TwoTags
  <2>3. ASSUME {"RELA", "RELASZ", "RELAENT"} \subseteq Tagged, NEW i \in DOMAIN mem
        PROVE  mem[i] = IF table[i] = "relative" THEN Right ELSE linked[i]
    <3>1. relsz = 0
      BY <2>1, <2>3 DEF Table
    <3>2. at + relsz = Len(table) + 1
      BY <2>3 DEF IInv, Sized
    <3>3. table \in Seq(Types) /\ at \in Nat /\ i \in DOMAIN table
      BY <2>3 DEF IInv, RelocateTypeOK
    <3>4. i < at
      BY <3>1, <3>2, <3>3
    <3>5. QED
      BY <3>3, <3>4 DEF IInv, Half
  <2>4. QED
    BY <2>2, <2>3
<1>2. QED
  BY <1>1, Invariance, PTL
=============================================================================
