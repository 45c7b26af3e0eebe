\* LoongArch64 with the root zone's kernel embedded, as in
\* configs/wheatfox_loongarch64_defconfig: hvisor is copied to the start of
\* the first cleared region, the kernel to the start of the third and past
\* its end.
SPECIFICATION Spec
CONSTANTS
  Arch = "loongarch64"
  Top = 13
  HvisorStart = 0
  HvisorSize = 2
  VmlinuxStart = 2
  VmlinuxSize = 3
  FirmwareCells = {5}
  HvisorLoadAddr = 6
  Memset1Size = 3
  Memset2Start = 9
  Memset2Size = 1
  EnableVmlinux = TRUE
  VmlinuxLoadAddr = 10
  Memset3Start = 10
  Memset3Size = 2
  Harts = {1, 2}
  Errors = {14}
  IntMax = 7
  MaxEntries = 3
  MaxKey = 4
  Slack = 1
INVARIANTS
  MemoryAtEntry
  SourcesIntact
  ServicesLiveWhenCalled
PROPERTIES
  HandsOver
  Started
CHECK_DEADLOCK FALSE
