---------------------------- MODULE EfiMainProofs ----------------------------
(***************************************************************************)
(* Proofs about the loader for every layout the assumptions of EfiMain     *)
(* allow, whatever the sizes of the images and of the cleared regions.     *)
(*                                                                         *)
(* The inductive invariant describes the whole of memory at every moment:  *)
(* Expected(B, C, H, V) is memory B in which the cells of C are cleared    *)
(* and those of H and V hold their images, and mem is Expected of memory   *)
(* at boot, as the firmware has changed its own cells, and of what the     *)
(* loops have done so far.  The first part is about exit_boot_services     *)
(* alone, for every firmware within any bounds and every amount of slack;  *)
(* its invariant HInv is carried along in that of the loader.              *)
(***************************************************************************)
EXTENDS EfiMain, TLAPS

-----------------------------------------------------------------------------
(* The exit handshake.  FailureExplained speaks of the last step only;     *)
(* what makes it inductive is what each control point knows about the size *)
(* of the buffer and about the key it holds.                               *)

\* The first call passes size zero; the buffer has room for its answer and
\* Slack descriptors more.
BufferRoom ==
  /\ ebs = "get_size" => memory_map_size = 0
  /\ ebs = "check_size" /\ status = BUFFER_TOO_SMALL => memory_map_size = asked
  /\ ebs \in {"alloc", "get_map"} => memory_map_size = asked + Slack

\* A second call that went wrong was refused or found the buffer too small.
SecondCall ==
  ebs \in {"exit", "returned"} =>
    \/ got \in {SUCCESS, INVALID_PARAMETER}
    \/ got = BUFFER_TOO_SMALL /\ memory_map_size > asked + Slack

\* The key read by a successful second call is current while no change is seen.
KeyCurrent == ebs = "exit" /\ got = SUCCESS /\ ~changed => map_key = key

\* Boot services are there until the function has returned.
LiveBefore == ebs # "returned" => live

HInv ==
  /\ HandshakeTypeOK
  /\ BufferRoom
  /\ SecondCall
  /\ KeyCurrent
  /\ LiveBefore
  /\ FailureExplained

-----------------------------------------------------------------------------
(* What a call of GetMemoryMap may answer.                                 *)
LEMMA GetMemoryMapAnswers ==
  ASSUME FirmwareTypeOK, NEW size \in Nat, NEW k \in 0..MaxKey,
         NEW r \in GetMemoryMap(size, k)
  PROVE  /\ r.status \in {SUCCESS, BUFFER_TOO_SMALL, INVALID_PARAMETER}
         /\ r.size \in Nat
         /\ r.mapKey \in 0..MaxKey
         /\ r.status = BUFFER_TOO_SMALL => r.size > size
         /\ r.status = SUCCESS => r.mapKey = key
         /\ r.size = size \/ r.size \in 0..MaxEntries
<1> USE FirmwareBounds
        DEF FirmwareTypeOK, SUCCESS, BUFFER_TOO_SMALL, INVALID_PARAMETER
<1>1. CASE r = [status |-> INVALID_PARAMETER, size |-> size, mapKey |-> k]
  BY <1>1
<1>2. CASE size < entries /\ \E m \in {k, key} :
             r = [status |-> BUFFER_TOO_SMALL, size |-> entries, mapKey |-> m]
  BY <1>2
<1>3. CASE r = [status |-> SUCCESS, size |-> entries, mapKey |-> key]
  BY <1>3
<1> QED
  BY <1>1, <1>2, <1>3 DEF GetMemoryMap

LEMMA InitHInv == HandshakeInit => HInv
<1> SUFFICES ASSUME HandshakeInit PROVE HInv
  OBVIOUS
<1>1. FirmwareTypeOK
  BY FirmwareBounds DEF HandshakeInit, FirmwareInit, FirmwareTypeOK
<1>2. HandshakeTypeOK
  <2>1. ebs \in EbsPoint /\ status \in Status /\ got \in Status
    BY DEF HandshakeInit, EbsPoint, Status
  <2>2. /\ memory_map_size \in Nat /\ map_key \in 0..MaxKey
        /\ asked \in 0..MaxEntries
    BY FirmwareBounds DEF HandshakeInit
  <2> QED
    BY <1>1, <2>1, <2>2 DEF HandshakeInit, HandshakeTypeOK
<1>3. QED
  BY <1>2 DEF HandshakeInit, FirmwareInit, HInv, BufferRoom, SecondCall,
              KeyCurrent, LiveBefore, FailureExplained

LEMMA NextHInv == HInv /\ [HandshakeNext]_hsVars => HInv'
<1> SUFFICES ASSUME HInv, [HandshakeNext]_hsVars PROVE HInv'
  OBVIOUS
<1> USE FirmwareBounds, SlackAssumption
<1> USE DEF HInv, HandshakeTypeOK, FirmwareTypeOK, EbsPoint, Status,
            SUCCESS, BUFFER_TOO_SMALL, INVALID_PARAMETER, OUT_OF_RESOURCES
<1>1. CASE Call
  BY <1>1 DEF Call, firmware, history, BufferRoom, SecondCall, KeyCurrent,
              LiveBefore, FailureExplained
<1>2. CASE GetSize
  <2>1. PICK r \in GetMemoryMap(memory_map_size, map_key) :
          /\ status' = r.status
          /\ memory_map_size' = r.size
          /\ map_key' = r.mapKey
          /\ asked' = r.size
    BY <1>2 DEF GetSize
  <2>2. /\ r.status \in Status
        /\ r.size \in 0..MaxEntries
        /\ r.mapKey \in 0..MaxKey
    BY <1>2, <2>1, GetMemoryMapAnswers DEF GetSize, BufferRoom
  <2> QED
    BY <1>2, <2>1, <2>2
       DEF GetSize, firmware, BufferRoom, SecondCall, KeyCurrent, LiveBefore,
           FailureExplained
<1>3. CASE CheckSize
  BY <1>3 DEF CheckSize, CheckSizeWith, firmware, history, BufferRoom,
              SecondCall, KeyCurrent, LiveBefore, FailureExplained
<1>4. CASE Allocate
  <2>1. /\ ebs = "alloc" /\ live
        /\ ebs' \in {"get_map", "halted"}
        /\ UNCHANGED <<live, memory_map_size, map_key, asked, got, changed>>
    BY <1>4 DEF Allocate, AllocatePoolServed, AllocatePoolFailed, MapChanges,
                firmware, history, LiveBefore
  <2>2. FirmwareTypeOK'
    BY <1>4 DEF Allocate, AllocatePoolServed, AllocatePoolFailed, MapChanges,
                firmware
  <2>3. status' \in Status
    BY <1>4 DEF Allocate
  <2>4. memory_map_desc' \in BOOLEAN
    BY <1>4, Zenon DEF Allocate
  <2> QED
    BY <2>1, <2>2, <2>3, <2>4
       DEF BufferRoom, SecondCall, KeyCurrent, LiveBefore, FailureExplained
<1>5. CASE GetMap
  <2>1. PICK r \in GetMemoryMap(memory_map_size, map_key) :
          /\ status' = r.status
          /\ memory_map_size' = r.size
          /\ map_key' = r.mapKey
          /\ got' = r.status
    BY <1>5 DEF GetMap
  <2>2. /\ r.status \in {SUCCESS, BUFFER_TOO_SMALL, INVALID_PARAMETER}
        /\ r.size \in Nat
        /\ r.mapKey \in 0..MaxKey
        /\ r.status = BUFFER_TOO_SMALL => r.size > memory_map_size
        /\ r.status = SUCCESS => r.mapKey = key
    BY <2>1, GetMemoryMapAnswers
  <2>3. memory_map_size = asked + Slack
    BY <1>5 DEF GetMap, BufferRoom
  <2> QED
    BY <1>5, <2>1, <2>2, <2>3
       DEF GetMap, firmware, BufferRoom, SecondCall, KeyCurrent, LiveBefore,
           FailureExplained
<1>6. CASE Exit
  BY <1>6 DEF Exit, ExitTo, ExitBootServices, ExitStatus, history, BufferRoom,
              SecondCall, KeyCurrent, LiveBefore, FailureExplained
<1>7. CASE Event
  BY <1>7 DEF Event, FirmwareEvent, MapChanges, loader, BufferRoom,
              SecondCall, KeyCurrent, LiveBefore, FailureExplained
<1>8. CASE UNCHANGED hsVars
  BY <1>8 DEF hsVars, firmware, loader, history, BufferRoom, SecondCall,
              KeyCurrent, LiveBefore, FailureExplained
<1> QED
  BY <1>1, <1>2, <1>3, <1>4, <1>5, <1>6, <1>7, <1>8
     DEF HandshakeNext, HandshakeStep

LEMMA HInvAlways == HandshakeSpec => []HInv
  BY InitHInv, NextHInv, PTL DEF HandshakeSpec

(* Every variable of the handshake keeps its type.                         *)
THEOREM HandshakeTypeCorrect == HandshakeSpec => []HandshakeTypeOK
<1>1. HInv => HandshakeTypeOK
  BY DEF HInv
<1> QED
  BY HInvAlways, <1>1, PTL

(* Boot services survive exit_boot_services only for the reasons the code  *)
(* leaves open: a change of the map between the two calls its comment      *)
(* wants next to each other, a refused second call, or a map that outgrew  *)
(* the slack.                                                              *)
THEOREM FailureIsExplained == HandshakeSpec => []FailureExplained
<1>1. HInv => FailureExplained
  BY DEF HInv
<1> QED
  BY HInvAlways, <1>1, PTL

-----------------------------------------------------------------------------
(* The loader: what has been done to memory at each control point.         *)

Expected(B, C, H, V) ==
  [a \in Addr |-> IF a \in H THEN Hvisor(a - HvisorLoadAddr)
                  ELSE IF a \in V THEN Vmlinux(a - VmlinuxLoadAddr)
                  ELSE IF a \in C THEN Zero
                  ELSE B[a]]

\* Memory at boot, but for the cells the firmware writes.
Untouched ==
  [a \in Addr |-> IF a \in FirmwareCells THEN mem[a] ELSE BootMemory[a]]

BeforeClear == {"start", "init_lib"}
BeforeCopy  == BeforeClear \cup {"memset1", "memset2", "memset3"}
BeforeExit  ==
  BeforeCopy \cup {"copy_hvisor", "copy_vmlinux", "boot_cpu", "boot_hart"}
FindBootCpu == GetBootCpuId \/ LocateProtocol \/ GetBootHartId

ClearedSoFar ==
  IF Arch # "loongarch64" \/ pc \in BeforeClear THEN {}
  ELSE IF pc = "memset1" THEN Cells(HvisorLoadAddr, i)
  ELSE IF pc = "memset2"
       THEN Cells(HvisorLoadAddr, Memset1Size) \cup Cells(Memset2Start, i)
  ELSE IF pc = "memset3"
       THEN Cells(HvisorLoadAddr, Memset1Size) \cup Cells(Memset2Start, Memset2Size)
              \cup Cells(Memset3Start, i)
  ELSE Cleared

HvisorSoFar ==
  IF pc \in BeforeCopy THEN {}
  ELSE IF pc = "copy_hvisor" THEN Cells(HvisorLoadAddr, i)
  ELSE HvisorDest

VmlinuxSoFar ==
  IF pc \in BeforeCopy \cup {"copy_hvisor"} THEN {}
  ELSE IF pc = "copy_vmlinux" THEN Cells(VmlinuxLoadAddr, i)
  ELSE VmlinuxDest

MemoryNow ==
  /\ \A c \in FirmwareCells : mem[c] \in FirmwareData
  /\ mem = Expected(Untouched, ClearedSoFar, HvisorSoFar, VmlinuxSoFar)

\* The loop variable is in range in a loop and zero outside of one.
LoopBound ==
  /\ i \in Nat
  /\ pc = "memset1" => i <= Memset1Size
  /\ pc = "memset2" => i <= Memset2Size
  /\ pc = "memset3" => i <= Memset3Size
  /\ pc = "copy_hvisor" => i <= HvisorSize
  /\ pc = "copy_vmlinux" => i <= VmlinuxSize
  /\ pc \in BeforeClear \cup {"boot_cpu", "boot_hart", "exit_bs", "jump", "hvisor"} => i = 0

\* How efi_main's control point goes with that of exit_boot_services.
Control ==
  /\ pc \in BeforeExit => ebs = "idle"
  /\ pc = "exit_bs" => ebs # "idle"
  /\ pc \in {"jump", "hvisor"} => ebs = "returned"
  /\ pc # "start" => arch_ops = Arch
  /\ pc \in {"memset1", "memset2", "memset3"} => Arch = "loongarch64"
  /\ pc = "copy_vmlinux" => EnableVmlinux

Scalars ==
  /\ pc \in PcPoint
  /\ arch_ops \in {"NULL", Arch}
  /\ boot_cpu_id \in Harts \cup Errors \cup {0}

IInv ==
  /\ HInv
  /\ Scalars
  /\ Control
  /\ LoopBound
  /\ MemoryNow

-----------------------------------------------------------------------------
(* The layout: what the assumptions say of single addresses.               *)

LEMMA Sizes ==
  /\ HvisorSize \in Nat /\ VmlinuxSize \in Nat
  /\ Memset1Size \in Nat /\ Memset2Size \in Nat /\ Memset3Size \in Nat
  /\ \A n \in {HvisorSize, VmlinuxSize, Memset1Size, Memset2Size, Memset3Size} :
       IntArg(n) = n
  /\ HvisorStart \in Nat /\ HvisorLoadAddr \in Nat
  /\ VmlinuxStart \in Nat /\ VmlinuxLoadAddr \in Nat
  /\ Memset2Start \in Nat /\ Memset3Start \in Nat /\ Top \in Nat
<1>1. ASSUME NEW n \in Nat, n <= IntMax
      PROVE  IntArg(n) = n
  <2>1. IntMax \in Nat
    BY IntAssumption
  <2>2. n % (2 * (IntMax + 1)) = n
    BY <1>1, <2>1
  <2>3. QED
    BY <1>1, <2>2 DEF IntArg
<1>2. IntMax \in Nat
  BY IntAssumption
<1>3. QED
  BY <1>1, <1>2, ConfigAssumption DEF Addr

(* A loop's next cell extends the cells it has done.                       *)
LEMMA NextCell ==
  ASSUME NEW s \in Nat, NEW k \in Nat
  PROVE  /\ Cells(s, k + 1) = Cells(s, k) \cup {s + k}
         /\ Cells(s, 0) = {}
         /\ \A n \in Nat : k < n => s + k \in Cells(s, n)
  BY DEF Cells

(* What memory holds when the loader starts.                               *)
LEMMA BootContents ==
  /\ \A a \in HvisorSrc : BootMemory[a] = Hvisor(a - HvisorStart)
  /\ \A a \in VmlinuxSrc : BootMemory[a] = Vmlinux(a - VmlinuxStart)
  /\ \A a \in FirmwareCells : BootMemory[a] = Firmware(0)
  BY LayoutAssumption DEF BootMemory

LEMMA BootType == BootMemory \in [Addr -> Content]
<1> SUFFICES ASSUME NEW a \in Addr PROVE BootMemory[a] \in Content
  BY DEF BootMemory
<1>1. CASE a \in HvisorSrc
  <2>1. a - HvisorStart \in 0..(HvisorSize - 1)
    BY <1>1, Sizes DEF HvisorSrc, Cells, Addr
  <2> QED
    BY <1>1, <2>1, BootContents DEF Content
<1>2. CASE a \in VmlinuxSrc
  <2>1. a - VmlinuxStart \in 0..(VmlinuxSize - 1)
    BY <1>2, Sizes DEF VmlinuxSrc, Cells, Addr
  <2> QED
    BY <1>2, <2>1, BootContents DEF Content
<1>3. CASE a \notin HvisorSrc \cup VmlinuxSrc
  BY <1>3 DEF BootMemory, Content, FirmwareData
<1> QED
  BY <1>1, <1>2, <1>3

-----------------------------------------------------------------------------
(* How one write moves memory from one expectation to the next.            *)

LEMMA ExpectedNothing == Expected(BootMemory, {}, {}, {}) = BootMemory
  BY DEF Expected, BootMemory

LEMMA FillExpected ==
  ASSUME NEW B, NEW C, NEW c \in Addr
  PROVE  [Expected(B, C, {}, {}) EXCEPT ![c] = Zero] = Expected(B, C \cup {c}, {}, {})
  BY DEF Expected

LEMMA CopyHvisorExpected ==
  ASSUME NEW B, NEW C, NEW H, NEW c \in Addr
  PROVE  [Expected(B, C, H, {}) EXCEPT ![c] = Hvisor(c - HvisorLoadAddr)]
           = Expected(B, C, H \cup {c}, {})
  BY DEF Expected

LEMMA CopyVmlinuxExpected ==
  ASSUME NEW B, NEW C, NEW H, NEW V, NEW c \in Addr, c \notin H
  PROVE  [Expected(B, C, H, V) EXCEPT ![c] = Vmlinux(c - VmlinuxLoadAddr)]
           = Expected(B, C, H, V \cup {c})
  BY DEF Expected

LEMMA ExpectedElsewhere ==
  ASSUME NEW B, NEW C, NEW H, NEW V, NEW a \in Addr, a \notin C \cup H \cup V
  PROVE  Expected(B, C, H, V)[a] = B[a]
  BY DEF Expected

(* A write outside the firmware's cells leaves those as they are.          *)
LEMMA LoaderWrites ==
  ASSUME MemoryNow, NEW c \in Target, NEW w, mem' = [mem EXCEPT ![c] = w]
  PROVE  Untouched' = Untouched /\ \A f \in FirmwareCells : mem'[f] \in FirmwareData
<1>1. c \notin FirmwareCells
  BY LayoutAssumption
<1>2. \A f \in FirmwareCells : mem'[f] = mem[f]
  BY <1>1, LayoutAssumption DEF MemoryNow, Expected
<1> QED
  <2>1. ASSUME NEW a \in Addr
        PROVE  (IF a \in FirmwareCells THEN mem'[a] ELSE BootMemory[a])
                 = (IF a \in FirmwareCells THEN mem[a] ELSE BootMemory[a])
    BY <1>2
  <2>2. Untouched' = Untouched
    BY <2>1 DEF Untouched
  <2> QED
    BY <1>2, <2>2 DEF MemoryNow

LEMMA NothingWritten ==
  ASSUME UNCHANGED mem
  PROVE  Untouched' = Untouched
  BY DEF Untouched

(* What the loops have done never leaves the target.                       *)
LEMMA SoFarInTarget ==
  ASSUME LoopBound, Scalars, Control
  PROVE  /\ ClearedSoFar \subseteq Cleared
         /\ HvisorSoFar \subseteq HvisorDest
         /\ VmlinuxSoFar \subseteq VmlinuxDest
<1>1. ASSUME NEW s \in Nat, NEW n \in Nat, NEW k \in Nat, k <= n
      PROVE  Cells(s, k) \subseteq Cells(s, n)
  BY <1>1 DEF Cells
<1>2. ClearedSoFar \subseteq Cleared
  BY <1>1, Sizes DEF LoopBound, ClearedSoFar, Cleared
<1>3. HvisorSoFar \subseteq HvisorDest
  BY <1>1, Sizes DEF LoopBound, HvisorSoFar, HvisorDest
<1>4. VmlinuxSoFar \subseteq VmlinuxDest
  BY <1>1, Sizes DEF LoopBound, Control, VmlinuxSoFar, VmlinuxDest
<1> QED
  BY <1>2, <1>3, <1>4

(* The parts of memory the loader reads are as at boot.                    *)
LEMMA OutsideTarget ==
  ASSUME LoopBound, Scalars, Control, MemoryNow,
         NEW a \in Addr \ Target, a \notin FirmwareCells
  PROVE  mem[a] = BootMemory[a]
<1>1. a \notin ClearedSoFar \cup HvisorSoFar \cup VmlinuxSoFar
  BY SoFarInTarget DEF Target
<1>2. mem[a] = Untouched[a]
  BY <1>1, ExpectedElsewhere DEF MemoryNow
<1> QED
  BY <1>2 DEF Untouched

LEMMA ExpectedType ==
  ASSUME NEW B \in [Addr -> Content], NEW C, NEW H, NEW V,
         H \subseteq HvisorDest, V \subseteq VmlinuxDest
  PROVE  Expected(B, C, H, V) \in [Addr -> Content]
<1> SUFFICES ASSUME NEW a \in Addr PROVE Expected(B, C, H, V)[a] \in Content
  BY DEF Expected
<1>1. CASE a \in H
  <2>1. a - HvisorLoadAddr \in 0..(HvisorSize - 1)
    BY <1>1, Sizes DEF HvisorDest, Cells, Addr
  <2> QED
    BY <1>1, <2>1 DEF Expected, Content
<1>2. CASE a \in V \ H
  <2>1. a - VmlinuxLoadAddr \in 0..(VmlinuxSize - 1)
    BY <1>2, Sizes DEF VmlinuxDest, Cells, Addr
  <2> QED
    BY <1>2, <2>1 DEF Expected, Content
<1>3. CASE a \notin H \cup V
  BY <1>3 DEF Expected, Content
<1> QED
  BY <1>1, <1>2, <1>3

LEMMA MemoryType ==
  ASSUME LoopBound, Scalars, Control, MemoryNow
  PROVE  mem \in [Addr -> Content]
<1>1. Untouched \in [Addr -> Content]
  BY BootType DEF Untouched, MemoryNow, Content
<1> QED
  BY <1>1, SoFarInTarget, ExpectedType DEF MemoryNow


-----------------------------------------------------------------------------
(* The invariant.                                                          *)

LEMMA InitIInv == Init => IInv
<1> SUFFICES ASSUME Init PROVE IInv
  OBVIOUS
<1>1. HInv
  BY InitHInv DEF Init
<1>2. Scalars
  BY DEF Init, Scalars, PcPoint
<1>3. Control /\ LoopBound
  BY DEF Init, HandshakeInit, Control, LoopBound, BeforeClear,
         BeforeCopy, BeforeExit
<1>4. ClearedSoFar = {} /\ HvisorSoFar = {} /\ VmlinuxSoFar = {}
  BY DEF Init, ClearedSoFar, HvisorSoFar, VmlinuxSoFar, BeforeClear, BeforeCopy
<1>5. MemoryNow
  <2>1. Untouched = BootMemory
    BY DEF Init, Untouched, BootMemory
  <2>2. \A c \in FirmwareCells : mem[c] \in FirmwareData
    BY BootContents DEF Init, FirmwareData
  <2> QED
    BY <1>4, <2>1, <2>2, ExpectedNothing DEF Init, MemoryNow
<1> QED
  BY <1>1, <1>2, <1>3, <1>5 DEF IInv

(* Every step of the loader or of the firmware is a step of the handshake  *)
(* or leaves it alone.                                                     *)
LEMMA HandshakeInside == [Next]_vars => [HandshakeNext]_hsVars
<1> SUFFICES ASSUME Next PROVE [HandshakeNext]_hsVars
  BY DEF vars
<1>1. CASE ArchDetectAndInit \/ InitializeLib \/ ReportExitDone \/ JumpToHvisor
  BY <1>1 DEF ArchDetectAndInit, InitializeLib, ReportExitDone, JumpToHvisor
<1>2. CASE ClearHvisorRegion \/ ClearLowRegion \/ ClearKernelRegion
  BY <1>2 DEF ClearHvisorRegion, ClearLowRegion, ClearKernelRegion, Fill
<1>3. CASE CopyHvisorBinary \/ CopyVmlinuxBinary
  BY <1>3 DEF CopyHvisorBinary, CopyVmlinuxBinary, Copy
<1>4. CASE FindBootCpu \/ ExitBootServicesStep \/ FirmwareStep
  BY <1>4 DEF FindBootCpu, GetBootCpuId, LocateProtocol, GetBootHartId,
              HaveBootCpu, ExitBootServicesStep,
              FirmwareStep, HandshakeNext
<1> QED
  BY <1>1, <1>2, <1>3, <1>4 DEF Next, LoaderStep, FindBootCpu

LEMMA NextScalars == IInv /\ [Next]_vars => Scalars'
<1> SUFFICES ASSUME IInv, [Next]_vars PROVE Scalars'
  OBVIOUS
<1> USE DEF IInv, Scalars, PcPoint
<1>1. CASE ArchDetectAndInit \/ InitializeLib
  BY <1>1 DEF ArchDetectAndInit, InitializeLib
<1>2. CASE ReportExitDone \/ JumpToHvisor
  BY <1>2 DEF ReportExitDone, JumpToHvisor
<1>3. CASE ClearHvisorRegion \/ ClearLowRegion \/ ClearKernelRegion
  BY <1>3 DEF ClearHvisorRegion, ClearLowRegion, ClearKernelRegion, Fill
<1>4. CASE CopyHvisorBinary \/ CopyVmlinuxBinary
  BY <1>4 DEF CopyHvisorBinary, CopyVmlinuxBinary, Copy
<1>5. CASE FindBootCpu
  BY <1>5 DEF FindBootCpu, GetBootCpuId, LocateProtocol, GetBootHartId, HaveBootCpu
<1>6. CASE ExitBootServicesStep \/ FirmwareStep \/ UNCHANGED vars
  BY <1>6 DEF ExitBootServicesStep, FirmwareStep, vars, mainVars
<1> QED
  BY <1>1, <1>2, <1>3, <1>4, <1>5, <1>6 DEF Next, LoaderStep, FindBootCpu

LEMMA NextControl == IInv /\ [Next]_vars => Control'
<1> SUFFICES ASSUME IInv, [Next]_vars PROVE Control'
  OBVIOUS
<1> USE DEF IInv, Scalars, PcPoint, Control, BeforeExit, BeforeCopy, BeforeClear
<1>1. CASE ArchDetectAndInit \/ InitializeLib
  BY <1>1 DEF ArchDetectAndInit, InitializeLib, hsVars, loader
<1>2. CASE ReportExitDone \/ JumpToHvisor
  BY <1>2 DEF ReportExitDone, JumpToHvisor, hsVars, loader
<1>3. CASE ClearHvisorRegion \/ ClearLowRegion \/ ClearKernelRegion
  BY <1>3 DEF ClearHvisorRegion, ClearLowRegion, ClearKernelRegion, Fill,
              hsVars, loader
<1>4. CASE CopyHvisorBinary \/ CopyVmlinuxBinary
  BY <1>4 DEF CopyHvisorBinary, CopyVmlinuxBinary, Copy, hsVars, loader
<1>5. CASE FindBootCpu
  BY <1>5 DEF FindBootCpu, GetBootCpuId, LocateProtocol, GetBootHartId, HaveBootCpu,
              Call, hsVars, loader
<1>6. CASE ExitBootServicesStep
  BY <1>6 DEF ExitBootServicesStep, mainVars, HandshakeStep, GetSize,
              CheckSize, CheckSizeWith, Allocate, GetMap, Exit, ExitTo
<1>7. CASE FirmwareStep \/ UNCHANGED vars
  BY <1>7 DEF FirmwareStep, Event, loader, vars, mainVars, hsVars
<1> QED
  BY <1>1, <1>2, <1>3, <1>4, <1>5, <1>6, <1>7 DEF Next, LoaderStep, FindBootCpu

LEMMA NextLoopBound == IInv /\ [Next]_vars => LoopBound'
<1> SUFFICES ASSUME IInv, [Next]_vars PROVE LoopBound'
  OBVIOUS
<1> USE Sizes DEF IInv, Scalars, PcPoint, LoopBound, BeforeClear
<1>1. CASE ArchDetectAndInit \/ InitializeLib
  BY <1>1 DEF ArchDetectAndInit, InitializeLib
<1>2. CASE ReportExitDone \/ JumpToHvisor
  BY <1>2 DEF ReportExitDone, JumpToHvisor
<1>3. CASE ClearHvisorRegion
  BY <1>3 DEF ClearHvisorRegion, Fill, InLoop
<1>4. CASE ClearLowRegion
  BY <1>4 DEF ClearLowRegion, Fill, InLoop
<1>5. CASE ClearKernelRegion
  BY <1>5 DEF ClearKernelRegion, Fill, InLoop
<1>6. CASE CopyHvisorBinary
  BY <1>6 DEF CopyHvisorBinary, Copy, InLoop
<1>7. CASE CopyVmlinuxBinary
  BY <1>7 DEF CopyVmlinuxBinary, Copy, InLoop
<1>8. CASE FindBootCpu
  BY <1>8 DEF FindBootCpu, GetBootCpuId, LocateProtocol, GetBootHartId, HaveBootCpu
<1>9. CASE ExitBootServicesStep \/ FirmwareStep \/ UNCHANGED vars
  BY <1>9 DEF ExitBootServicesStep, FirmwareStep, vars, mainVars
<1> QED
  BY <1>1, <1>2, <1>3, <1>4, <1>5, <1>6, <1>7, <1>8, <1>9 DEF Next, LoaderStep, FindBootCpu


(* Memory follows the loops.  A step that writes nothing leaves the three  *)
(* sets as they are; one iteration adds the cell it writes to one of them. *)
LEMMA SoFarUnchanged ==
  ASSUME IInv, UNCHANGED <<pc, mem, i>>
  PROVE  MemoryNow'
  BY NothingWritten DEF IInv, MemoryNow, Expected, ClearedSoFar, HvisorSoFar,
         VmlinuxSoFar, Cells

LEMMA ClearingStep ==
  ASSUME IInv, ClearHvisorRegion \/ ClearLowRegion \/ ClearKernelRegion
  PROVE  MemoryNow'
<1> USE DEF IInv, Scalars, PcPoint, BeforeClear, BeforeCopy
<1>1. /\ Arch = "loongarch64" /\ pc \in {"memset1", "memset2", "memset3"}
      /\ HvisorSoFar = {} /\ VmlinuxSoFar = {} /\ i \in Nat
  BY DEF Control, ClearHvisorRegion, ClearLowRegion, ClearKernelRegion,
         HvisorSoFar, VmlinuxSoFar, LoopBound
<1>2. HvisorSoFar' = {} /\ VmlinuxSoFar' = {}
  <2>1. pc' = "copy_hvisor" => i' = 0
    BY DEF ClearHvisorRegion, ClearLowRegion, ClearKernelRegion, Fill
  <2>2. pc' \in {"memset1", "memset2", "memset3", "copy_hvisor"}
    BY <1>1 DEF ClearHvisorRegion, ClearLowRegion, ClearKernelRegion, Fill
  <2>3. Cells(HvisorLoadAddr, 0) = {}
    BY NextCell, Sizes
  <2> QED
    BY <2>1, <2>2, <2>3 DEF HvisorSoFar, VmlinuxSoFar, Cells
<1>3. ASSUME NEW s \in Nat, NEW n \in Nat, IntArg(n) = n, Cells(s, n) \subseteq Cleared,
             InLoop(i, n), mem' = FillCell(mem, s, Zero, i),
             ClearedSoFar' = ClearedSoFar \cup {s + i}
      PROVE  MemoryNow'
  <2>1. s + i \in Addr /\ s + i \in Target
    BY <1>1, <1>3, NextCell, LayoutAssumption DEF InLoop, Target
  <2>2. mem' = [mem EXCEPT ![s + i] = Zero]
    BY <1>3 DEF FillCell
  <2>3. /\ Untouched' = Untouched
        /\ \A f \in FirmwareCells : mem'[f] \in FirmwareData
    BY <2>1, <2>2, LoaderWrites
  <2> QED
    BY <1>1, <1>2, <1>3, <2>1, <2>2, <2>3, FillExpected DEF MemoryNow, Expected
<1>4. ASSUME ClearedSoFar' = ClearedSoFar, mem' = mem PROVE MemoryNow'
  BY <1>1, <1>2, <1>4, NothingWritten DEF MemoryNow, Expected
<1>5. CASE ClearHvisorRegion
  <2>1. CASE InLoop(i, Memset1Size)
    <3>1. /\ pc' = "memset1" /\ i' = i + 1
          /\ mem' = FillCell(mem, HvisorLoadAddr, Zero, i)
      BY <1>5, <2>1 DEF ClearHvisorRegion, Fill
    <3>2. ClearedSoFar' = ClearedSoFar \cup {HvisorLoadAddr + i}
      BY <1>1, <1>5, <3>1, NextCell, Sizes DEF ClearHvisorRegion, ClearedSoFar, Cells
    <3> QED
      BY <1>1, <1>3, <2>1, <3>1, <3>2, Sizes DEF Cleared
  <2>2. CASE ~InLoop(i, Memset1Size)
    <3>1. pc = "memset1" /\ pc' = "memset2" /\ i' = 0 /\ mem' = mem
      BY <1>5, <2>2 DEF ClearHvisorRegion, Fill
    <3>2. i = Memset1Size
      BY <1>1, <2>2, <3>1, Sizes DEF LoopBound, InLoop
    <3>3. ClearedSoFar' = ClearedSoFar
      BY <1>1, <3>1, <3>2, NextCell, Sizes DEF ClearedSoFar, Cells
    <3> QED
      BY <1>4, <3>1, <3>3
  <2> QED
    BY <2>1, <2>2
<1>6. CASE ClearLowRegion
  <2>1. CASE InLoop(i, Memset2Size)
    <3>1. /\ pc' = "memset2" /\ i' = i + 1
          /\ mem' = FillCell(mem, Memset2Start, Zero, i)
      BY <1>6, <2>1 DEF ClearLowRegion, Fill
    <3>2. ClearedSoFar' = ClearedSoFar \cup {Memset2Start + i}
      BY <1>1, <1>6, <3>1, NextCell, Sizes DEF ClearLowRegion, ClearedSoFar, Cells
    <3> QED
      BY <1>1, <1>3, <2>1, <3>1, <3>2, Sizes DEF Cleared
  <2>2. CASE ~InLoop(i, Memset2Size)
    <3>1. pc = "memset2" /\ pc' = "memset3" /\ i' = 0 /\ mem' = mem
      BY <1>6, <2>2 DEF ClearLowRegion, Fill
    <3>2. i = Memset2Size
      BY <1>1, <2>2, <3>1, Sizes DEF LoopBound, InLoop
    <3>3. ClearedSoFar' = ClearedSoFar
      BY <1>1, <3>1, <3>2, NextCell, Sizes DEF ClearedSoFar, Cells
    <3> QED
      BY <1>4, <3>1, <3>3
  <2> QED
    BY <2>1, <2>2
<1>7. CASE ClearKernelRegion
  <2>1. CASE InLoop(i, Memset3Size)
    <3>1. /\ pc' = "memset3" /\ i' = i + 1
          /\ mem' = FillCell(mem, Memset3Start, Zero, i)
      BY <1>7, <2>1 DEF ClearKernelRegion, Fill
    <3>2. ClearedSoFar' = ClearedSoFar \cup {Memset3Start + i}
      BY <1>1, <1>7, <3>1, NextCell, Sizes DEF ClearKernelRegion, ClearedSoFar, Cells
    <3> QED
      BY <1>1, <1>3, <2>1, <3>1, <3>2, Sizes DEF Cleared
  <2>2. CASE ~InLoop(i, Memset3Size)
    <3>1. pc = "memset3" /\ pc' = "copy_hvisor" /\ i' = 0 /\ mem' = mem
      BY <1>7, <2>2 DEF ClearKernelRegion, Fill
    <3>2. i = Memset3Size
      BY <1>1, <2>2, <3>1, Sizes DEF LoopBound, InLoop
    <3>3. ClearedSoFar' = ClearedSoFar
      BY <1>1, <3>1, <3>2, NextCell, Sizes DEF ClearedSoFar, Cleared, Cells
    <3> QED
      BY <1>4, <3>1, <3>3
  <2> QED
    BY <2>1, <2>2
<1> QED
  BY <1>5, <1>6, <1>7


LEMMA CopyingHvisor ==
  ASSUME IInv, CopyHvisorBinary
  PROVE  MemoryNow'
<1> USE DEF IInv, Scalars, PcPoint, BeforeClear, BeforeCopy
<1>1. /\ pc = "copy_hvisor" /\ i \in Nat /\ i <= HvisorSize
      /\ ClearedSoFar = Cleared /\ VmlinuxSoFar = {}
      /\ HvisorSoFar = Cells(HvisorLoadAddr, i)
  BY DEF CopyHvisorBinary, ClearedSoFar, HvisorSoFar, VmlinuxSoFar, LoopBound, Cleared
<1>2. CASE InLoop(i, HvisorSize)
  <2>1. /\ pc' = "copy_hvisor" /\ i' = i + 1
        /\ mem' = CopyCell(mem, HvisorLoadAddr, HvisorStart, i)
    BY <1>2 DEF CopyHvisorBinary, Copy
  <2>2. i < HvisorSize
    BY <1>2, Sizes DEF InLoop
  <2>3. /\ HvisorLoadAddr + i \in Addr
        /\ HvisorLoadAddr + i \in Target
        /\ HvisorStart + i \in Addr \ Target /\ HvisorStart + i \in HvisorSrc
        /\ HvisorStart + i \notin FirmwareCells
    BY <1>1, <2>2, NextCell, Sizes, LayoutAssumption
       DEF Target, HvisorDest, HvisorSrc
  <2>4. mem[HvisorStart + i] = Hvisor(i)
    <3>1. mem[HvisorStart + i] = BootMemory[HvisorStart + i]
      BY <2>3, OutsideTarget
    <3>2. (HvisorStart + i) - HvisorStart = i
      BY <1>1, Sizes
    <3> QED
      BY <2>3, <3>1, <3>2, BootContents
  <2>5. (HvisorLoadAddr + i) - HvisorLoadAddr = i
    BY <1>1, Sizes
  <2>6. /\ ClearedSoFar' = Cleared /\ VmlinuxSoFar' = {}
        /\ HvisorSoFar' = Cells(HvisorLoadAddr, i) \cup {HvisorLoadAddr + i}
    BY <1>1, <2>1, NextCell, Sizes
       DEF ClearedSoFar, HvisorSoFar, VmlinuxSoFar, Cleared
  <2>7. mem' = [mem EXCEPT ![HvisorLoadAddr + i] = Hvisor(i)]
    BY <2>1, <2>4 DEF CopyCell
  <2>8. /\ Untouched' = Untouched
        /\ \A f \in FirmwareCells : mem'[f] \in FirmwareData
    BY <2>3, <2>7, LoaderWrites
  <2> QED
    BY <1>1, <2>3, <2>5, <2>6, <2>7, <2>8, CopyHvisorExpected DEF MemoryNow, Expected
<1>3. CASE ~InLoop(i, HvisorSize)
  <2>1. /\ pc' = (IF EnableVmlinux THEN "copy_vmlinux" ELSE "boot_cpu")
        /\ i' = 0 /\ mem' = mem
    BY <1>3 DEF CopyHvisorBinary, Copy
  <2>2. i = HvisorSize
    BY <1>1, <1>3, Sizes DEF InLoop
  <2>3. Cells(VmlinuxLoadAddr, 0) = {}
    BY NextCell, Sizes
  <2>4. /\ ClearedSoFar' = Cleared /\ VmlinuxSoFar' = {}
        /\ HvisorSoFar' = HvisorSoFar
    BY <1>1, <2>1, <2>2, <2>3
       DEF ClearedSoFar, HvisorSoFar, VmlinuxSoFar, HvisorDest, VmlinuxDest, Cleared,
           Cells
  <2> QED
    BY <1>1, <2>1, <2>4, NothingWritten DEF MemoryNow, Expected
<1> QED
  BY <1>2, <1>3

LEMMA CopyingVmlinux ==
  ASSUME IInv, CopyVmlinuxBinary
  PROVE  MemoryNow'
<1> USE DEF IInv, Scalars, PcPoint, BeforeClear, BeforeCopy
<1>1. /\ pc = "copy_vmlinux" /\ i \in Nat /\ i <= VmlinuxSize /\ EnableVmlinux
      /\ ClearedSoFar = Cleared /\ HvisorSoFar = HvisorDest
      /\ VmlinuxSoFar = Cells(VmlinuxLoadAddr, i)
  BY DEF CopyVmlinuxBinary, ClearedSoFar, HvisorSoFar, VmlinuxSoFar, LoopBound,
         Control, Cleared
<1>2. CASE InLoop(i, VmlinuxSize)
  <2>1. /\ pc' = "copy_vmlinux" /\ i' = i + 1
        /\ mem' = CopyCell(mem, VmlinuxLoadAddr, VmlinuxStart, i)
    BY <1>2 DEF CopyVmlinuxBinary, Copy
  <2>2. i < VmlinuxSize
    BY <1>2, Sizes DEF InLoop
  <2>3. /\ VmlinuxLoadAddr + i \in Addr \ HvisorDest
        /\ VmlinuxLoadAddr + i \in Target
        /\ VmlinuxStart + i \in Addr \ Target /\ VmlinuxStart + i \in VmlinuxSrc
        /\ VmlinuxStart + i \notin FirmwareCells
    BY <1>1, <2>2, NextCell, Sizes, LayoutAssumption
       DEF Target, VmlinuxDest, VmlinuxSrc
  <2>4. mem[VmlinuxStart + i] = Vmlinux(i)
    <3>1. mem[VmlinuxStart + i] = BootMemory[VmlinuxStart + i]
      BY <2>3, OutsideTarget
    <3>2. (VmlinuxStart + i) - VmlinuxStart = i
      BY <1>1, Sizes
    <3> QED
      BY <2>3, <3>1, <3>2, BootContents
  <2>5. (VmlinuxLoadAddr + i) - VmlinuxLoadAddr = i
    BY <1>1, Sizes
  <2>6. /\ ClearedSoFar' = Cleared /\ HvisorSoFar' = HvisorDest
        /\ VmlinuxSoFar' = Cells(VmlinuxLoadAddr, i) \cup {VmlinuxLoadAddr + i}
    BY <1>1, <2>1, NextCell, Sizes
       DEF ClearedSoFar, HvisorSoFar, VmlinuxSoFar, Cleared
  <2>7. mem' = [mem EXCEPT ![VmlinuxLoadAddr + i] = Vmlinux(i)]
    BY <2>1, <2>4 DEF CopyCell
  <2>8. /\ Untouched' = Untouched
        /\ \A f \in FirmwareCells : mem'[f] \in FirmwareData
    BY <2>3, <2>7, LoaderWrites
  <2> QED
    BY <1>1, <2>3, <2>5, <2>6, <2>7, <2>8, CopyVmlinuxExpected DEF MemoryNow, Expected
<1>3. CASE ~InLoop(i, VmlinuxSize)
  <2>1. pc' = "boot_cpu" /\ i' = 0 /\ mem' = mem
    BY <1>3 DEF CopyVmlinuxBinary, Copy
  <2>2. i = VmlinuxSize
    BY <1>1, <1>3, Sizes DEF InLoop
  <2>3. /\ ClearedSoFar' = Cleared /\ HvisorSoFar' = HvisorDest
        /\ VmlinuxSoFar' = VmlinuxSoFar
    BY <1>1, <2>1, <2>2
       DEF ClearedSoFar, HvisorSoFar, VmlinuxSoFar, VmlinuxDest, Cleared
  <2> QED
    BY <1>1, <2>1, <2>3, NothingWritten DEF MemoryNow, Expected
<1> QED
  BY <1>2, <1>3

(* Steps that move the control point without touching memory.              *)
LEMMA MovingOn ==
  ASSUME IInv,
         ArchDetectAndInit \/ InitializeLib \/ FindBootCpu \/ ReportExitDone
           \/ JumpToHvisor
  PROVE  MemoryNow'
<1>1. mem' = mem /\ i' = i
  BY DEF ArchDetectAndInit, InitializeLib, FindBootCpu,
         GetBootCpuId, LocateProtocol, GetBootHartId, HaveBootCpu, ReportExitDone, JumpToHvisor
<1>2. pc # "start" => arch_ops = Arch
  BY DEF IInv, Control
<1>3. pc = "init_lib" => i = 0
  BY DEF IInv, LoopBound, BeforeClear
<1>4. Cells(HvisorLoadAddr, 0) = {} /\ Cells(VmlinuxLoadAddr, 0) = {}
  BY NextCell, Sizes
<1>5. /\ ClearedSoFar' = ClearedSoFar
      /\ HvisorSoFar' = HvisorSoFar
      /\ VmlinuxSoFar' = VmlinuxSoFar
  <2>1. CASE ArchDetectAndInit
    BY <2>1 DEF ArchDetectAndInit, ClearedSoFar, HvisorSoFar,
                VmlinuxSoFar, BeforeCopy, BeforeClear
  <2>2. CASE InitializeLib
    BY <1>1, <1>2, <1>3, <1>4, <2>2
       DEF InitializeLib, ClearedSoFar, HvisorSoFar, VmlinuxSoFar, BeforeCopy,
           BeforeClear, Cleared
  <2>3. CASE FindBootCpu
    BY <2>3 DEF FindBootCpu, GetBootCpuId, LocateProtocol, GetBootHartId,
                HaveBootCpu, ClearedSoFar, HvisorSoFar,
                VmlinuxSoFar, BeforeCopy, BeforeClear
  <2>4. CASE ReportExitDone \/ JumpToHvisor
    BY <2>4 DEF ReportExitDone, JumpToHvisor, ClearedSoFar, HvisorSoFar,
                VmlinuxSoFar, BeforeCopy, BeforeClear
  <2> QED
    BY <2>1, <2>2, <2>3, <2>4
<1> QED
  BY <1>1, <1>5, NothingWritten DEF IInv, MemoryNow, Expected

(* The firmware writes nothing but its own cells.                          *)
LEMMA FirmwareWrites ==
  ASSUME IInv, FirmwareStep
  PROVE  MemoryNow'
<1>1. PICK c \in FirmwareCells, w \in FirmwareData : mem' = [mem EXCEPT ![c] = w]
  BY DEF FirmwareStep
<1>2. c \in Addr \ Target /\ FirmwareCells \subseteq Addr \ Target
  BY LayoutAssumption
<1>3. mem \in [Addr -> Content]
  BY MemoryType DEF IInv
<1>4. \A f \in FirmwareCells : mem'[f] \in FirmwareData
  BY <1>1, <1>2, <1>3 DEF IInv, MemoryNow
<1>5. /\ ClearedSoFar' = ClearedSoFar
      /\ HvisorSoFar' = HvisorSoFar
      /\ VmlinuxSoFar' = VmlinuxSoFar
  BY DEF FirmwareStep, ClearedSoFar, HvisorSoFar, VmlinuxSoFar
<1>6. mem' = Expected(Untouched', ClearedSoFar, HvisorSoFar, VmlinuxSoFar)
  <2>1. c \notin ClearedSoFar \cup HvisorSoFar \cup VmlinuxSoFar
    BY <1>2, SoFarInTarget DEF IInv, Target
  <2>2. mem' \in [Addr -> Content]
    BY <1>1, <1>2, <1>3 DEF Content
  <2>3. ASSUME NEW a \in Addr
        PROVE  mem'[a] = Expected(Untouched', ClearedSoFar, HvisorSoFar, VmlinuxSoFar)[a]
    <3>1. CASE a = c
      BY <2>1, <3>1 DEF Expected, Untouched
    <3>2. CASE a # c
      <4>1. mem'[a] = mem[a]
        BY <1>1, <1>3, <3>2
      <4>2. Untouched'[a] = Untouched[a]
        BY <4>1 DEF Untouched
      <4> QED
        BY <4>1, <4>2 DEF IInv, MemoryNow, Expected
    <3> QED
      BY <3>1, <3>2
  <2> QED
    BY <2>2, <2>3 DEF Expected
<1> QED
  BY <1>4, <1>5, <1>6 DEF MemoryNow


LEMMA NextMemoryNow == IInv /\ [Next]_vars => MemoryNow'
<1> SUFFICES ASSUME IInv, [Next]_vars PROVE MemoryNow'
  OBVIOUS
<1>1. CASE ExitBootServicesStep \/ UNCHANGED vars
  BY <1>1, SoFarUnchanged DEF ExitBootServicesStep, vars, mainVars
<1> QED
  BY <1>1, ClearingStep, CopyingHvisor, CopyingVmlinux, MovingOn, FirmwareWrites
     DEF Next, LoaderStep, FindBootCpu

LEMMA NextIInv == IInv /\ [Next]_vars => IInv'
<1> SUFFICES ASSUME IInv, [Next]_vars PROVE IInv'
  OBVIOUS
<1>1. HInv'
  BY HandshakeInside, NextHInv DEF IInv
<1> QED
  BY <1>1, NextScalars, NextControl, NextLoopBound, NextMemoryNow DEF IInv

LEMMA IInvAlways == Spec => []IInv
  BY InitIInv, NextIInv, PTL DEF Spec

-----------------------------------------------------------------------------
(* Every variable of the loader keeps its type.                            *)
THEOREM TypeCorrect == Spec => []MainTypeOK
<1>1. IInv => MainTypeOK
  <2> SUFFICES ASSUME IInv PROVE MainTypeOK
    OBVIOUS
  <2>1. mem \in [Addr -> Content]
    BY MemoryType DEF IInv
  <2> QED
    BY <2>1 DEF IInv, HInv, Scalars, LoopBound, MainTypeOK
<1> QED
  BY <1>1, IInvAlways, PTL

(* hvisor is entered with both images whole at their load addresses, zero  *)
(* in the rest of what was to be cleared and nothing else changed.         *)
THEOREM MemoryIsReady == Spec => []MemoryAtEntry
<1>1. IInv => MemoryAtEntry
  <2> SUFFICES ASSUME IInv, pc = "hvisor", NEW a \in Addr \ FirmwareCells
               PROVE  mem[a] = EntryMemory[a]
    BY DEF MemoryAtEntry
  <2>1. /\ ClearedSoFar = Cleared
        /\ HvisorSoFar = HvisorDest
        /\ VmlinuxSoFar = VmlinuxDest
    BY DEF ClearedSoFar, HvisorSoFar, VmlinuxSoFar, Cleared, BeforeClear, BeforeCopy
  <2>2. mem[a] = Expected(Untouched, Cleared, HvisorDest, VmlinuxDest)[a]
    BY <2>1 DEF IInv, MemoryNow
  <2>3. HvisorDest \cap VmlinuxDest = {}
    BY LayoutAssumption
  <2>4. Untouched[a] = BootMemory[a]
    BY DEF Untouched
  <2>5. CASE a \in HvisorDest
    BY <2>2, <2>3, <2>5 DEF EntryMemory, Expected
  <2>6. CASE a \in VmlinuxDest
    BY <2>2, <2>3, <2>6 DEF EntryMemory, Expected
  <2>7. CASE a \in Cleared \ (HvisorDest \cup VmlinuxDest)
    BY <2>2, <2>7 DEF EntryMemory, Expected
  <2>8. CASE a \notin Cleared \cup HvisorDest \cup VmlinuxDest
    BY <2>2, <2>4, <2>8 DEF EntryMemory, Expected
  <2> QED
    BY <2>5, <2>6, <2>7, <2>8
<1> QED
  BY <1>1, IInvAlways, PTL

(* At no moment has anything outside the target been written.              *)
THEOREM SourcesStayIntact == Spec => []SourcesIntact
<1>1. IInv => SourcesIntact
  BY OutsideTarget DEF IInv, MemoryNow, SourcesIntact
<1> QED
  BY <1>1, IInvAlways, PTL

(* No boot service is called after they have been exited.                  *)
THEOREM ServicesAreLive == Spec => []ServicesLiveWhenCalled
<1>1. IInv => ServicesLiveWhenCalled
  BY DEF IInv, HInv, LiveBefore, Control, BeforeExit, BeforeCopy, BeforeClear,
         ServicesLiveWhenCalled
<1> QED
  BY <1>1, IInvAlways, PTL

-----------------------------------------------------------------------------
(* The hand-over: every step of the loader is one of Handoff or none.      *)

(* No image's cell holds the image before its copy has reached it.         *)
LEMMA TargetAtBoot ==
  /\ \A a \in HvisorDest : BootMemory[a] # Hvisor(a - HvisorLoadAddr)
  /\ \A a \in VmlinuxDest : BootMemory[a] # Vmlinux(a - VmlinuxLoadAddr)
<1>1. \A a \in Target : BootMemory[a] = Stale
  BY LayoutAssumption DEF BootMemory
<1> QED
  BY <1>1 DEF Target, Stale, Hvisor, Vmlinux

(* The images are in memory exactly when both copies are complete.         *)
CopiesComplete == HvisorSoFar = HvisorDest /\ VmlinuxSoFar = VmlinuxDest

LEMMA LoadedIff == IInv => (Loaded <=> CopiesComplete)
<1> SUFFICES ASSUME IInv PROVE Loaded <=> CopiesComplete
  OBVIOUS
<1>1. /\ HvisorSoFar \subseteq HvisorDest /\ HvisorDest \subseteq Addr
      /\ VmlinuxSoFar \subseteq VmlinuxDest /\ VmlinuxDest \subseteq Addr
      /\ HvisorDest \cap VmlinuxDest = {}
  BY SoFarInTarget, LayoutAssumption DEF IInv, Target
<1>2. ASSUME NEW a \in HvisorDest
      PROVE  mem[a] = Hvisor(a - HvisorLoadAddr) <=> a \in HvisorSoFar
  <2>1. a \in Addr /\ Untouched[a] = BootMemory[a]
    BY <1>1, LayoutAssumption DEF Untouched, Target
  <2> QED
    BY <1>1, <2>1, TargetAtBoot DEF IInv, MemoryNow, Expected, Zero, Hvisor
<1>3. ASSUME NEW a \in VmlinuxDest
      PROVE  mem[a] = Vmlinux(a - VmlinuxLoadAddr) <=> a \in VmlinuxSoFar
  <2>1. a \in Addr /\ Untouched[a] = BootMemory[a]
    BY <1>1, LayoutAssumption DEF Untouched, Target
  <2> QED
    BY <1>1, <2>1, TargetAtBoot DEF IInv, MemoryNow, Expected, Zero, Vmlinux
<1> QED
  BY <1>1, <1>2, <1>3 DEF Loaded, CopiesComplete

LEMMA CopiesInside ==
  IInv => HvisorSoFar \subseteq HvisorDest /\ VmlinuxSoFar \subseteq VmlinuxDest
  BY SoFarInTarget DEF IInv

(* The copies only ever grow.                                              *)
LEMMA CopiesGrow ==
  ASSUME IInv, IInv', [Next]_vars
  PROVE  HvisorSoFar \subseteq HvisorSoFar' /\ VmlinuxSoFar \subseteq VmlinuxSoFar'
<1> USE DEF HvisorSoFar, VmlinuxSoFar, BeforeCopy, BeforeClear
<1>1. /\ HvisorSoFar \subseteq HvisorDest
      /\ VmlinuxSoFar \subseteq VmlinuxDest
  BY SoFarInTarget DEF IInv
<1>2. i \in Nat
  BY DEF IInv, LoopBound
<1>3. CASE ArchDetectAndInit \/ InitializeLib \/ FindBootCpu
  BY <1>3 DEF ArchDetectAndInit, InitializeLib, FindBootCpu,
         GetBootCpuId, LocateProtocol, GetBootHartId, HaveBootCpu
<1>4. CASE ReportExitDone \/ JumpToHvisor
  BY <1>4 DEF ReportExitDone, JumpToHvisor
<1>5. CASE ClearHvisorRegion \/ ClearLowRegion \/ ClearKernelRegion
  BY <1>5 DEF ClearHvisorRegion, ClearLowRegion, ClearKernelRegion
<1>6. CASE CopyHvisorBinary
  <2>1. pc' = "copy_hvisor" => Cells(HvisorLoadAddr, i) \subseteq Cells(HvisorLoadAddr, i')
    BY <1>2, <1>6, NextCell, Sizes DEF CopyHvisorBinary, Copy
  <2> QED
    BY <1>1, <1>6, <2>1 DEF CopyHvisorBinary, Copy
<1>7. CASE CopyVmlinuxBinary
  <2>1. pc' = "copy_vmlinux" => Cells(VmlinuxLoadAddr, i) \subseteq Cells(VmlinuxLoadAddr, i')
    BY <1>2, <1>7, NextCell, Sizes DEF CopyVmlinuxBinary, Copy
  <2> QED
    BY <1>1, <1>7, <2>1 DEF CopyVmlinuxBinary, Copy
<1>8. CASE ExitBootServicesStep \/ FirmwareStep \/ UNCHANGED vars
  BY <1>8 DEF ExitBootServicesStep, FirmwareStep, vars, mainVars
<1> QED
  BY <1>3, <1>4, <1>5, <1>6, <1>7, <1>8 DEF Next, LoaderStep, FindBootCpu

LEMMA LoadedStays ==
  ASSUME IInv, IInv', [Next]_vars, Loaded
  PROVE  Loaded'
<1>1. (IInv => HvisorSoFar \subseteq HvisorDest /\ VmlinuxSoFar \subseteq VmlinuxDest)'
  BY CopiesInside, PTL
<1>2. (IInv => (Loaded <=> CopiesComplete))'
  BY LoadedIff, PTL
<1>3. HvisorSoFar = HvisorDest /\ VmlinuxSoFar = VmlinuxDest
  BY LoadedIff DEF CopiesComplete
<1>4. CopiesComplete'
  <2>1. HvisorDest' = HvisorDest /\ VmlinuxDest' = VmlinuxDest
    BY DEF HvisorDest, VmlinuxDest, Cells
  <2> QED
    BY <1>1, <1>3, <2>1, CopiesGrow DEF CopiesComplete
<1> QED
  BY <1>2, <1>4

LEMMA MemoryGivesLoaded ==
  ASSUME UNCHANGED mem PROVE Loaded' = Loaded
  BY DEF Loaded, HvisorDest, VmlinuxDest, Cells, Hvisor, Vmlinux

LEMMA HandsOverInit == Init => Handoff!Init
<1> SUFFICES ASSUME Init PROVE Handoff!Init
  OBVIOUS
<1>1. IInv
  BY InitIInv
<1>2. HvisorSoFar = {}
  BY DEF Init, HvisorSoFar, BeforeCopy, BeforeClear
<1>3. HvisorLoadAddr \in HvisorDest
  BY ConfigAssumption, Sizes DEF HvisorDest, Cells
<1>4. Loaded = FALSE
  <2>1. ~CopiesComplete
    BY <1>2, <1>3 DEF CopiesComplete
  <2> QED
    BY <1>1, <2>1, LoadedIff DEF Loaded
<1>5. Running = "loader" /\ live = TRUE
  BY DEF Init, HandshakeInit, FirmwareInit, Running
<1> QED
  BY <1>4, <1>5 DEF Handoff!Init

LEMMA HandsOverNext ==
  ASSUME IInv, IInv', [Next]_vars PROVE [Handoff!Next]_Handoff!vars
<1> USE DEF Handoff!Next, Handoff!vars, Running
<1>1. Loaded \in BOOLEAN /\ Loaded' \in BOOLEAN
  BY DEF Loaded
<1>2. CASE ArchDetectAndInit \/ InitializeLib \/ ReportExitDone
           \/ UNCHANGED vars
  <2>1. UNCHANGED <<mem, live, ebs>> /\ (pc' = "hvisor" <=> pc = "hvisor")
    BY <1>2 DEF ArchDetectAndInit, InitializeLib, ReportExitDone, vars,
                mainVars, hsVars, firmware, loader
  <2> QED
    BY <2>1, MemoryGivesLoaded
<1>3. CASE ClearHvisorRegion \/ ClearLowRegion \/ ClearKernelRegion
           \/ CopyHvisorBinary \/ CopyVmlinuxBinary
  <2>1. /\ pc \in BeforeExit /\ pc' # "hvisor"
        /\ UNCHANGED <<live, ebs>>
    BY <1>3 DEF ClearHvisorRegion, ClearLowRegion, ClearKernelRegion, Fill,
                CopyHvisorBinary, CopyVmlinuxBinary, Copy, BeforeExit,
                BeforeCopy, hsVars, firmware, loader
  <2>2. live /\ ebs = "idle" /\ pc # "hvisor"
    BY <2>1 DEF IInv, Control, HInv, LiveBefore, BeforeExit, BeforeCopy, BeforeClear
  <2>3. Loaded => Loaded'
    BY LoadedStays
  <2> QED
    BY <1>1, <2>1, <2>2, <2>3 DEF Handoff!Place
<1>4. CASE FindBootCpu
  <2>1. /\ UNCHANGED <<mem, live>> /\ pc # "hvisor" /\ pc' # "hvisor"
        /\ ebs # "halted" /\ ebs' # "halted"
    <3>1. pc \in BeforeExit /\ ebs = "idle"
      BY <1>4 DEF FindBootCpu, GetBootCpuId, LocateProtocol, GetBootHartId,
                  BeforeExit, IInv, Control
    <3>2. CASE LocateProtocol
      BY <3>1, <3>2 DEF LocateProtocol, HaveBootCpu, Call, firmware, hsVars, loader
    <3>3. CASE GetBootCpuId \/ GetBootHartId
      BY <3>1, <3>3 DEF GetBootCpuId, GetBootHartId, HaveBootCpu, Call, firmware
    <3> QED
      BY <1>4, <3>2, <3>3 DEF FindBootCpu
  <2> QED
    BY <2>1, MemoryGivesLoaded
<1>5. CASE ExitBootServicesStep
  <2>1. /\ pc = "exit_bs" /\ pc' = "exit_bs"
        /\ ebs # "halted" /\ live /\ UNCHANGED mem
    BY <1>5 DEF ExitBootServicesStep, mainVars, HandshakeStep, GetSize,
                CheckSize, CheckSizeWith, Allocate, GetMap, Exit, ExitTo, IInv,
                HInv, LiveBefore
  <2>2. Loaded' = Loaded
    BY <2>1, MemoryGivesLoaded
  <2>3. Loaded
    BY <2>1, LoadedIff DEF CopiesComplete, HvisorSoFar, VmlinuxSoFar,
                           BeforeCopy, BeforeClear
  <2>4. \/ live' = live
        \/ live' = FALSE /\ ebs' = "returned"
    <3>1. CASE Exit
      <4>1. live = TRUE
        BY <2>1 DEF IInv, HInv, HandshakeTypeOK, FirmwareTypeOK
      <4>2. live' = (ExitStatus(map_key) # SUCCESS) /\ ebs' = "returned"
        BY <3>1 DEF Exit, ExitTo, ExitBootServices
      <4> QED
        BY <4>1, <4>2, Zenon
    <3>2. CASE GetSize \/ CheckSize \/ Allocate \/ GetMap
      BY <3>2 DEF GetSize, CheckSize, CheckSizeWith, Allocate, GetMap,
                  AllocatePoolServed, AllocatePoolFailed, MapChanges, firmware
    <3> QED
      BY <1>5, <3>1, <3>2 DEF ExitBootServicesStep, HandshakeStep
  <2>5. CASE live' = live /\ ebs' # "halted"
    BY <2>1, <2>2, <2>5
  <2>6. CASE live' = live /\ ebs' = "halted"
    BY <2>1, <2>2, <2>6 DEF Handoff!Halt
  <2>7. CASE live' = FALSE /\ ebs' = "returned"
    BY <2>1, <2>2, <2>3, <2>7 DEF Handoff!LeaveServices
  <2> QED
    BY <2>4, <2>5, <2>6, <2>7
<1>6. CASE JumpToHvisor
  <2>1. /\ pc = "jump" /\ pc' = "hvisor" /\ UNCHANGED <<mem, live, ebs>>
    BY <1>6 DEF JumpToHvisor, hsVars, firmware, loader
  <2>2. ebs = "returned"
    BY <2>1 DEF IInv, Control
  <2>3. Loaded
    BY <2>1, LoadedIff DEF CopiesComplete, HvisorSoFar, VmlinuxSoFar,
                           BeforeCopy, BeforeClear
  <2> QED
    BY <2>1, <2>2, <2>3, MemoryGivesLoaded DEF Handoff!Start
<1>7. CASE FirmwareStep
  <2>1. UNCHANGED <<pc, i, live, ebs>>
    BY <1>7 DEF FirmwareStep, Event, FirmwareEvent, MapChanges, loader
  <2>2. (IInv => (Loaded <=> CopiesComplete))'
    BY LoadedIff, PTL
  <2>3. CopiesComplete' = CopiesComplete
    BY <2>1 DEF CopiesComplete, HvisorSoFar, VmlinuxSoFar, HvisorDest,
                VmlinuxDest, Cells
  <2>4. Loaded' = Loaded
    BY <1>1, <2>2, <2>3, LoadedIff DEF CopiesComplete
  <2> QED
    BY <2>1, <2>4
<1> QED
  BY <1>2, <1>3, <1>4, <1>5, <1>6, <1>7 DEF Next, LoaderStep, FindBootCpu

(* The loader implements the hand-over: the safety part of HandsOver, for  *)
(* every layout (its fairness is left to the model checker).               *)
THEOREM HandsOverSafely == Spec => Handoff!Init /\ [][Handoff!Next]_Handoff!vars
  BY IInvAlways, HandsOverInit, HandsOverNext, PTL DEF Spec

(* In the whole loader too boot services survive exit_boot_services only   *)
(* for the reasons FailureExplained names, for every slack, every memory   *)
(* map and every layout.                                                   *)
THEOREM FailureIsExplainedInLoader == Spec => []FailureExplained
<1>1. IInv => FailureExplained
  BY DEF IInv, HInv
<1> QED
  BY IInvAlways, <1>1, PTL
=============================================================================
