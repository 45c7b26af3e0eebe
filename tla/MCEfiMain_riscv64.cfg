\* RISC-V without an embedded kernel, as in configs/qemu_riscv64_defconfig,
\* and a firmware that may change its memory map up to five times.
SPECIFICATION Spec
CONSTANTS
  Arch = "riscv64"
  Top = 6
  HvisorStart = 0
  HvisorSize = 2
  VmlinuxStart = 2
  VmlinuxSize = 0
  FirmwareCells = {3}
  HvisorLoadAddr = 4
  Memset1Size = 0
  Memset2Start = 0
  Memset2Size = 0
  EnableVmlinux = FALSE
  VmlinuxLoadAddr = 0
  Memset3Start = 0
  Memset3Size = 0
  Harts = {1, 2}
  Errors = {14}
  IntMax = 7
  MaxEntries = 5
  MaxKey = 6
  Slack = 2
INVARIANTS
  FailureExplained
CHECK_DEADLOCK FALSE
