------------------------------- MODULE EfiMain -------------------------------
(***************************************************************************)
(* The loader from efi_main (main/main.c) to the jump into hvisor: bring   *)
(* up the architecture layer, clear memory (LoongArch64), copy the         *)
(* embedded images to their load addresses, find the boot CPU, exit boot   *)
(* services (ExitHandshake) and jump.  The firmware keeps running beside   *)
(* the loader until boot services are exited, and may allocate and write   *)
(* its own memory between any two steps, those of the copy loops included. *)
(*                                                                         *)
(* A cell of memory is the unit one iteration of a memory loop moves.      *)
(* Load addresses are not allocated from the firmware: that they are free  *)
(* is a contract between the build configuration and the platform, stated  *)
(* by LayoutAssumption.                                                    *)
(***************************************************************************)
EXTENDS ExitHandshake, CoreMem, Sequences

CONSTANTS
  Arch,              \* the configured target architecture
  Top,               \* highest address
  HvisorStart,       \* hvisor_bin_start .. hvisor_bin_end in the image
  HvisorSize,
  HvisorLoadAddr,    \* CONFIG_HVISOR_BIN_LOAD_ADDR
  EnableVmlinux,     \* CONFIG_ENABLE_VMLINUX
  VmlinuxStart,      \* hvisor_zone0_vmlinux_start .. _end in the image
  VmlinuxSize,
  VmlinuxLoadAddr,   \* CONFIG_VMLINUX_LOAD_ADDR
  Memset1Size,       \* lengths and addresses cleared on LoongArch64
  Memset2Start,
  Memset2Size,
  Memset3Start,
  Memset3Size,
  FirmwareCells,     \* memory the firmware owns or may come to own
  Harts,             \* hart ids of the machine (RISC-V)
  Errors             \* statuses a failing call returns (EFI_ERROR)

Addr == 0..Top

Cleared ==
  IF Arch = "loongarch64"
  THEN Cells(HvisorLoadAddr, Memset1Size) \cup Cells(Memset2Start, Memset2Size)
         \cup Cells(Memset3Start, Memset3Size)
  ELSE {}

HvisorDest  == Cells(HvisorLoadAddr, HvisorSize)
VmlinuxDest == IF EnableVmlinux THEN Cells(VmlinuxLoadAddr, VmlinuxSize) ELSE {}
Target      == Cleared \cup HvisorDest \cup VmlinuxDest

HvisorSrc  == Cells(HvisorStart, HvisorSize)
VmlinuxSrc == Cells(VmlinuxStart, VmlinuxSize)

ASSUME ConfigAssumption ==
  /\ Arch \in {"aarch64", "loongarch64", "riscv64"}
  /\ EnableVmlinux \in BOOLEAN
  /\ Top \in Nat
  /\ {HvisorStart, HvisorLoadAddr, VmlinuxStart, VmlinuxLoadAddr,
      Memset2Start, Memset3Start} \subseteq Addr
  /\ {HvisorSize, VmlinuxSize, Memset1Size, Memset2Size, Memset3Size}
       \subseteq 0..IntMax
  /\ HvisorSize > 0

ASSUME LayoutAssumption ==
  /\ Target \cup HvisorSrc \cup VmlinuxSrc \cup FirmwareCells \subseteq Addr
  /\ HvisorDest \cap VmlinuxDest = {}
  /\ Target \cap (HvisorSrc \cup VmlinuxSrc) = {}
  /\ FirmwareCells \cap (Target \cup HvisorSrc \cup VmlinuxSrc) = {}
  /\ HvisorSrc \cap VmlinuxSrc = {}

VARIABLES
  pc,           \* control point of efi_main
  mem,          \* physical memory
  i,            \* loop variable of the memory loop being run
  arch_ops,     \* the selected architecture, or "NULL"
  boot_cpu_id

mainVars == <<pc, mem, i, arch_ops, boot_cpu_id>>
vars     == <<hsVars, mainVars>>

-----------------------------------------------------------------------------
(* What a cell can hold: a piece of an image, zero, or what was there.     *)

Hvisor(k)  == <<"hvisor", k>>
Vmlinux(k) == <<"vmlinux", k>>
Zero       == <<"zero", 0>>
Firmware(k) == <<"firmware", k>>   \* 0 at boot, 1 once rewritten
Stale      == <<"stale", 0>>

FirmwareData == {Firmware(0), Firmware(1)}

Content == { Hvisor(k) : k \in 0..(HvisorSize - 1) }
             \cup { Vmlinux(k) : k \in 0..(VmlinuxSize - 1) }
             \cup {Zero, Stale} \cup FirmwareData

\* Memory when the firmware starts the loader's image.
BootMemory ==
  [a \in Addr |->
     CASE a \in HvisorSrc     -> Hvisor(a - HvisorStart)
       [] a \in VmlinuxSrc    -> Vmlinux(a - VmlinuxStart)
       [] a \in FirmwareCells -> Firmware(0)
       [] OTHER               -> Stale]

PcPoint == {"start", "init_lib", "memset1", "memset2", "memset3",
            "copy_hvisor", "copy_vmlinux", "boot_cpu", "boot_hart", "exit_bs",
            "jump", "hvisor"}

MainTypeOK ==
  /\ HandshakeTypeOK
  /\ pc \in PcPoint
  /\ mem \in [Addr -> Content]
  /\ i \in Nat
  /\ arch_ops \in {"NULL", Arch}
  /\ boot_cpu_id \in Harts \cup Errors \cup {0}

Init ==
  /\ HandshakeInit
  /\ pc = "start"
  /\ mem = BootMemory
  /\ i = 0
  /\ arch_ops = "NULL"
  /\ boot_cpu_id = 0

-----------------------------------------------------------------------------
\* The architecture the build is configured for is selected and initialised.
ArchDetectAndInit ==
  /\ pc = "start"
  /\ arch_ops' = Arch
  /\ pc' = "init_lib"
  /\ UNCHANGED <<hsVars, mem, i, boot_cpu_id>>

\* InitializeLib and the banner, then ARCH_BEFORE_EXIT_BOOT_SERVICES, which
\* does something on LoongArch64 only.
InitializeLib ==
  /\ pc = "init_lib"
  /\ pc' = IF arch_ops = "loongarch64" THEN "memset1" ELSE "copy_hvisor"
  /\ UNCHANGED <<hsVars, mem, i, arch_ops, boot_cpu_id>>

\* One iteration of a memory loop, or its exit to the control point next.
Fill(start, size, next) ==
  /\ \/ /\ InLoop(i, size)
        /\ mem' = FillCell(mem, start, Zero, i)
        /\ i' = i + 1
        /\ UNCHANGED pc
     \/ /\ ~InLoop(i, size)
        /\ i' = 0
        /\ pc' = next
        /\ UNCHANGED mem
  /\ UNCHANGED <<hsVars, arch_ops, boot_cpu_id>>

Copy(dest, src, size, next) ==
  /\ \/ /\ InLoop(i, size)
        /\ mem' = CopyCell(mem, dest, src, i)
        /\ i' = i + 1
        /\ UNCHANGED pc
     \/ /\ ~InLoop(i, size)
        /\ i' = 0
        /\ pc' = next
        /\ UNCHANGED mem
  /\ UNCHANGED <<hsVars, arch_ops, boot_cpu_id>>

ClearHvisorRegion ==
  pc = "memset1" /\ Fill(HvisorLoadAddr, Memset1Size, "memset2")
ClearLowRegion    == pc = "memset2" /\ Fill(Memset2Start, Memset2Size, "memset3")
ClearKernelRegion ==
  pc = "memset3" /\ Fill(Memset3Start, Memset3Size, "copy_hvisor")

\* Mutant: the kernel's copy is compiled out although it is configured.
CopyHvisorOnly ==
  /\ pc = "copy_hvisor"
  /\ Copy(HvisorLoadAddr, HvisorStart, HvisorSize, "boot_cpu")

CopyHvisorBinary ==
  /\ pc = "copy_hvisor"
  /\ Copy(HvisorLoadAddr, HvisorStart, HvisorSize,
          IF EnableVmlinux THEN "copy_vmlinux" ELSE "boot_cpu")

CopyVmlinuxBinary ==
  /\ pc = "copy_vmlinux"
  /\ Copy(VmlinuxLoadAddr, VmlinuxStart, VmlinuxSize, "boot_cpu")

\* ARCH_GET_BOOT_CPU_ID is 0, except on RISC-V.  efi_main passes on whatever
\* it returns and goes on to exit_boot_services.
HaveBootCpu(id) ==
  /\ boot_cpu_id' = id
  /\ Call
  /\ pc' = "exit_bs"

GetBootCpuId ==
  /\ pc = "boot_cpu" /\ Arch # "riscv64"
  /\ HaveBootCpu(0)
  /\ UNCHANGED <<mem, i, arch_ops>>

\* On RISC-V the boot protocol is looked up and then asked; the status of the
\* call that fails is returned in place of the id.
LocateProtocol ==
  /\ pc = "boot_cpu" /\ Arch = "riscv64"
  /\ \/ pc' = "boot_hart" /\ UNCHANGED <<hsVars, boot_cpu_id>>
     \/ \E error \in Errors : HaveBootCpu(error)
  /\ UNCHANGED <<mem, i, arch_ops>>

GetBootHartId ==
  /\ pc = "boot_hart"
  /\ \E id \in Harts \cup Errors : HaveBootCpu(id)
  /\ UNCHANGED <<mem, i, arch_ops>>

ExitBootServicesStep ==
  /\ pc = "exit_bs"
  /\ HandshakeStep
  /\ UNCHANGED mainVars

\* The returned status is dropped and "exit_boot_services done" printed.
ReportExitDone ==
  /\ pc = "exit_bs"
  /\ ebs = "returned"
  /\ pc' = "jump"
  /\ UNCHANGED <<hsVars, mem, i, arch_ops, boot_cpu_id>>

JumpToHvisor ==
  /\ pc = "jump"
  /\ pc' = "hvisor"
  /\ UNCHANGED <<hsVars, mem, i, arch_ops, boot_cpu_id>>

LoaderStep ==
  \/ ArchDetectAndInit \/ InitializeLib
  \/ ClearHvisorRegion \/ ClearLowRegion \/ ClearKernelRegion
  \/ CopyHvisorBinary \/ CopyVmlinuxBinary
  \/ GetBootCpuId \/ LocateProtocol \/ GetBootHartId
  \/ ExitBootServicesStep \/ ReportExitDone \/ JumpToHvisor

\* The firmware changes the map and writes any of its own cells.
FirmwareStep ==
  /\ Event
  /\ \E c \in FirmwareCells, w \in FirmwareData : mem' = [mem EXCEPT ![c] = w]
  /\ UNCHANGED <<pc, i, arch_ops, boot_cpu_id>>

Next == LoaderStep \/ FirmwareStep

\* The boot processor always executes the loader's next instruction, an
\* interrupt only delays it.
Spec == Init /\ [][Next]_vars /\ WF_vars(LoaderStep)

-----------------------------------------------------------------------------
(* What memory must hold when hvisor is entered: each image whole at its   *)
(* load address, zero in the rest of the cleared regions, and in every     *)
(* other cell what was there at boot.                                      *)
EntryMemory ==
  [a \in Addr |->
     CASE a \in HvisorDest           -> Hvisor(a - HvisorLoadAddr)
       [] a \in VmlinuxDest          -> Vmlinux(a - VmlinuxLoadAddr)
       [] a \in Cleared \ (HvisorDest \cup VmlinuxDest) -> Zero
       [] OTHER                      -> BootMemory[a]]

(* hvisor is entered with exactly that memory, the firmware's own cells    *)
(* apart.  The clearing of regions that contain the load addresses         *)
(* (loongarch64/arch.c:27-29) and the two copies (main.c:42, 52) write one *)
(* address range in turns, with the firmware allocating between any two    *)
(* cells: a clear after a copy, a loop one short, or a swapped source      *)
(* shows here.                                                             *)
MemoryAtEntry ==
  pc = "hvisor" => \A a \in Addr \ FirmwareCells : mem[a] = EntryMemory[a]

(* No step of the loader ever writes outside the cleared regions and the   *)
(* two destinations, at every moment and not only at the end: the images   *)
(* it reads from stay as they were, and the firmware's cells hold what the *)
(* firmware has written.                                                   *)
SourcesIntact ==
  \A a \in Addr \ Target :
    IF a \in FirmwareCells THEN mem[a] \in FirmwareData ELSE mem[a] = BootMemory[a]

(* Boot services are never called, nor their console printed to, once they *)
(* have been exited: everything up to the boot hart's lookup, every call   *)
(* of exit_boot_services and the message of halt (core.c:27) come before.  *)
ServicesLiveWhenCalled ==
  pc \in {"init_lib", "memset1", "memset2", "memset3", "copy_hvisor",
          "copy_vmlinux", "boot_cpu", "boot_hart"}
    \/ ebs \in {"get_size", "check_size", "alloc", "get_map", "exit", "halted"}
  => live

(* The loader always comes to an end: hvisor runs, or the machine was      *)
(* halted by a check inside exit_boot_services.                            *)
Started == <>(pc = "hvisor" \/ ebs = "halted")

-----------------------------------------------------------------------------
(* The hand-over seen from outside (module Handoff).                       *)

Loaded ==
  /\ \A a \in HvisorDest : mem[a] = Hvisor(a - HvisorLoadAddr)
  /\ \A a \in VmlinuxDest : mem[a] = Vmlinux(a - VmlinuxLoadAddr)

Running ==
  IF pc = "hvisor" THEN "hvisor" ELSE IF ebs = "halted" THEN "halted" ELSE "loader"

Handoff == INSTANCE Handoff WITH running <- Running, services <- live, loaded <- Loaded

(* The loader implements the hand-over: the images are placed once and     *)
(* stay placed, boot services are exited once and only when both images    *)
(* are in memory, the machine is halted only while boot services can still *)
(* print the reason, and hvisor is entered with its image in memory.       *)
HandsOver == Handoff!Spec
=============================================================================
