----------------------------- MODULE SelfRelocate -----------------------------
(***************************************************************************)
(* The start of the loader: _start of gnu-efi's crt0 and _relocate, which  *)
(* makes the image right for the address the firmware has put it at.       *)
(* A word is <<k, a>>: k times the base plus, if a, its addend.            *)
(***************************************************************************)
EXTENDS Integers, Sequences, FiniteSets, SequencesExt

CONSTANTS
  MaxRelas   \* bound: entries of the relocation table

ASSUME RelocateAssumption == MaxRelas \in Nat

VARIABLES
  machine, dyn, table,   \* what the image has: DT_ tags and relocations
  linked,    \* the words as the linker has left them
  mem,       \* the words
  pc,
  left,      \* tags still to be scanned
  at, relsz, \* the entry _relocate has come to, and how many it has to go
  status, ra

image == <<machine, dyn, table, linked>>
vars  == <<image, mem, pc, left, at, relsz, status, ra>>

Machines == {"aarch64", "loongarch64", "riscv64"}
Tags     == {"RELA", "RELASZ", "RELAENT", "PLTGOT"}
Types    == {"none", "relative", "other"}
Tagged   == ToSet(dyn)
Right    == <<1, TRUE>>

\* Every tag at most once and in any order; word i is that of entry i.  The
\* linker leaves the addend in the word for LoongArch, anything otherwise.
Init ==
  /\ machine \in Machines
  /\ dyn \in {d \in BoundedSeq(Tags, 4) : \A i, j \in DOMAIN d : d[i] = d[j] => i = j}
  /\ table \in BoundedSeq(Types, MaxRelas)
  /\ linked \in [DOMAIN table -> IF machine = "loongarch64" THEN {<<0, TRUE>>}
                                 ELSE {<<0, FALSE>>, <<0, TRUE>>}]
  /\ mem = linked
  /\ pc = "start" /\ left = dyn /\ at = 1 /\ relsz = 0
  /\ status = "success" /\ ra = "firmware"

-----------------------------------------------------------------------------
Start ==
  /\ pc = "start" /\ pc' = "scan"
  /\ ra' = "start"
  /\ UNCHANGED <<image, mem, left, at, relsz, status>>

\* Of the tags only the size is not just a place or a flag.
Scan ==
  /\ pc = "scan" /\ left # <<>>
  /\ left' = Tail(left)
  /\ relsz' = IF Head(left) = "RELASZ" THEN Len(table) ELSE relsz
  /\ UNCHANGED <<image, mem, pc, at, status, ra>>
Scanned ==
  /\ pc = "scan" /\ left = <<>> /\ pc' = "check"
  /\ UNCHANGED <<image, mem, left, at, relsz, status, ra>>

Check ==
  /\ pc = "check"
  /\ LET some == {"RELA", "RELAENT"} \cap Tagged
     IN  CASE some = {} -> pc' = "branch" /\ UNCHANGED status
           [] some = {"RELA", "RELAENT"} -> pc' = "apply" /\ UNCHANGED status
           [] OTHER -> pc' = "branch" /\ status' = "load error"
  /\ UNCHANGED <<image, mem, left, at, relsz, ra>>

\* Mutant: every machine adds the base to what is there.
RelocatedInPlace(word) == <<word[1] + 1, word[2]>>

\* What becomes of the word of a relative relocation.
Relocated(word) ==
  IF machine = "loongarch64" THEN <<word[1] + 1, word[2]>> ELSE Right

\* Mutant: an entry that is not relative is skipped with continue, past them.
AdvanceRelative ==
  /\ IF table[at] = "relative" THEN at' = at + 1 /\ relsz' = relsz - 1
     ELSE UNCHANGED <<at, relsz>>
  /\ UNCHANGED pc

\* The loop's one test, and its last two statements.
More    == relsz > 0
Advance == at' = at + 1 /\ relsz' = relsz - 1 /\ UNCHANGED pc

Apply ==
  /\ pc = "apply" /\ More
  /\ table[at] = "relative" \/ machine # "riscv64"
  /\ mem' = IF table[at] = "relative" THEN [mem EXCEPT ![at] = Relocated(@)] ELSE mem
  /\ Advance
  /\ UNCHANGED <<image, left, status, ra>>

\* "Panic": whatever is not relative, and be it nothing, is the end here.
Panic ==
  /\ pc = "apply" /\ More
  /\ machine = "riscv64" /\ table[at] # "relative"
  /\ pc' = "spin"
  /\ UNCHANGED <<image, mem, left, at, relsz, status, ra>>

Applied ==
  /\ pc = "apply" /\ ~More /\ pc' = "branch"
  /\ UNCHANGED <<image, mem, left, at, relsz, status, ra>>

Branch ==
  /\ pc = "branch"
  /\ pc' = IF status = "success" THEN "entered" ELSE "epilogue"
  /\ UNCHANGED <<image, mem, left, at, relsz, status, ra>>

\* RISC-V jumps past the load of its return address, which is then still that
\* of the call of _relocate.
Epilogue ==
  /\ pc = "epilogue"
  /\ ra' = IF machine = "riscv64" THEN ra ELSE "firmware"
  /\ pc' = IF ra' = "firmware" THEN "returned" ELSE "branch"
  /\ UNCHANGED <<image, mem, left, at, relsz, status>>

Next ==
  \/ Start \/ Scan \/ Scanned \/ Check \/ Apply \/ Panic \/ Applied \/ Branch \/ Epilogue

Spec == Init /\ [][Next]_vars /\ WF_vars(Next)

-----------------------------------------------------------------------------
(* efi_main runs on an image that is right for its address: every relative *)
(* relocation has been applied, once, and no other word has been touched,  *)
(* if .dynamic names the table, its size and that of its entries; an image *)
(* with a table that cannot be read is not run.                            *)
EnteredRelocated ==
  pc = "entered" =>
    /\ Cardinality({"RELA", "RELAENT"} \cap Tagged) # 1
    /\ {"RELA", "RELASZ", "RELAENT"} \subseteq Tagged =>
         \A i \in DOMAIN mem : mem[i] = IF table[i] = "relative" THEN Right ELSE linked[i]

(* _start comes to efi_main or back to the firmware, but for an image of   *)
(* RISC-V with any other relocation, and for a refused one there: _start   *)
(* then returns into itself, again and again (crt0 line 130).              *)
ComesToAnEnd ==
  <>(\/ pc \in {"entered", "returned"}
     \/ machine = "riscv64" /\ (pc = "spin" \/ status = "load error"))
=============================================================================
