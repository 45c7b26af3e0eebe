# Verification of the hvisor UEFI packer

The packer turns the hvisor hypervisor, and on LoongArch64 optionally the root
zone's Linux kernel, into one EFI application.  The application is a small
loader: it copies the embedded images to their load addresses, gives up the
firmware's boot services and jumps into hvisor.  Around it are a configuration
menu, a build, and shell scripts that build the images and put them on a disk.

This directory holds TLA+ modules of those parts, TLC configurations that check
them on small instances, and TLAPS proofs of theorems about them for every
value of the constants.  Paths below are relative to the repository, line
numbers to the commit it was written against.

* [Inventory](#inventory)
* [Modules and the code](#modules-and-the-code)
* [Runs](#runs)
* [Fairness](#fairness)
* [Proofs](#proofs)
* [Disagreements found](#disagreements-found)
* [What is not modelled](#what-is-not-modelled)
* [Plan](#plan)

## Inventory

### What runs on the machine

**Start** (`lib/gnu-efi/gnuefi/crt0-efi-*.S`, `reloc_*.c`).  `_start` calls
`_relocate`, which reads the image's dynamic section and applies its relocations
for the address the firmware has chosen, and then `efi_main`.  It is vendored,
but linked into the loader, and nothing runs without it.  State: the words to be
relocated, the place in the table, the return address.  Hard: three machines,
three versions of the same function with different ideas of an addend, of an
unknown relocation and of an error.

**Loader** (`main/main.c`, `main/data.S`).  `efi_main` runs once, on the boot
processor: select the architecture, initialise the EFI library and print a
banner, run the architecture's hook (on LoongArch64 it clears three memory
regions), copy the images, find the boot processor's id, exit boot services,
jump.  State: physical memory, the loop variable of the memory loop being run,
the selected table of operations, the boot processor's id.  Correct means:
when hvisor is entered both images are whole, no other memory has changed, the
firmware is not called after it has been dismissed.  Hard: the firmware goes on
running between any two instructions; destinations are fixed by configuration
and never allocated from it; regions cleared and regions copied to overlap.

**Exit of boot services** (`main/core.c:138-198`).  `GetMemoryMap` for the size,
`AllocatePool`, `GetMemoryMap` for the map and its key, `ExitBootServices` with
the key.  State: the function's statics and the firmware's map and key.  Hard:
allocating the buffer, or an event callback, changes the map, so the key may be
stale and the buffer too small; statuses are partly unchecked; nothing is
retried.

**Memory helpers** (`main/core.c:9-24`).  `memcpy2` and `memset2`: an `int`
length where callers pass 64-bit differences, and a forward loop.

**Architecture layer** (`main/arch.c`, `main/arch/*`).  A table of operations per
architecture: initialisation, the hook before exit, the boot processor's id (on
RISC-V a protocol call that may fail, its status then being returned as the id),
the hook before the jump, `put_char`.

**Serial console** (`print_str` and `print_char` of `main/core.c`,
`main/arch/loongarch64/uart.S`, the `arch_put_char` of each architecture).  Polls
the port and writes to it.  State: the port's FIFO, line control and divisor,
shared with the firmware until boot services are exited.  Hard: poll and write
are two steps, and on LoongArch64 the data register is the divisor for a while.

**ACPI dump** (`main/acpi.c`).  Finds the ACPI table in the configuration table,
follows RSDP, XSDT and FADT to the DSDT and dumps it.  All lengths are the
firmware's.  Nothing in `efi_main` calls it; it is there for debugging.

**PE loader** (`main/parse.c`).  Checks the headers of a PE32+ file in memory,
copies its sections and returns the entry point, or 0.  Not called by
`efi_main` either.

### What runs on the developer's machine

**Configuration** (`Kconfig`, `configs/`, `scripts/kconfig/`).  `conf` and the front
ends read the menu and `.config`, calculate the symbols, ask for what is new and
write `.config`; `conf --silentoldconfig`, which make runs when `.config` is
newer than `auto.conf`, also writes `auto.conf`, `tristate.conf`, `autoconf.h`
and a marker file per symbol.  State: the files and their times, and in memory
the values the user and the file have given.  Hard: four files and many markers
are replaced one after another and make compares only times; the user edits
while it runs; choices, dependencies and defaults feed back into what is visible
and what is written.

**Image build** (`make_image`, `make_aarch64`, `make_loongarch64`, `make_riscv64`,
`Makefile`, `scripts/Kbuild.include`).  Build hvisor, clean, build gnu-efi, make,
objcopy, copy under the name of the architecture; `make_loongarch64` then
compares entry points.  State: the files in the tree.  Hard: the code is chosen
by `.config` and the names by an argument; make does not know of everything it
embeds; some of the scripts stop at an error and some do not.

**World build** (`build_world.sh`).  Runs the build steps one after another.  Each
step's output goes through a named pipe to a background reader that copies it
to the log; the steps for the zones are in a loop at the end of a pipeline.
State: the step number, the log, the pipe, three kinds of processes.

**Deployment** (`ssd_deploy.sh`, `ssd_deploy_helper.sh`, `ssd_deploy_flash.sh`,
`make_copy`).  `ssd_deploy.sh` mounts two partitions, its own way or where its
caller says, copies three files and unmounts them in a trap.  State: what is
mounted where, the directories it made, the shell's position, which the trap
interrupts.  Hard: the trap runs on a signal and on exit, and does not end the
script.

**Test runs** (`test_run_*`, `make_format`): one command each.

They meet in few places.  The loader calls every other C component directly,
and each call runs to its end.  It shares memory, the memory map and the serial
port with the firmware, which acts on its own.  The scripts and make share the
files of the tree with the user.  The build produces what the loader embeds, and
the configuration decides where it goes.

`PROJECT.json` lists all components with their status and all hazards with their
lines.

## Modules and the code

    CoreMem ──┬── MemCall ───────── CoreProofs
              ├── AcpiDump ──────── AcpiDumpProofs
              └── EfiMain ───────── EfiMainProofs
                    │  └─ implements Handoff
    BootServices ── ExitHandshake (part of EfiMain)
    SerialConsole ── CoreProofs
    ParsePe ──────── ParsePeProofs
    SelfRelocate ─── SelfRelocateProofs

    KconfigJoin ──┬── KconfigExpr ────┬── KconfigMenu ──┬── Kconfig ── ExprProofs
                  └── KconfigSymbol ──┤                 └── MCKconfigSession
                                      └── KconfigSession ──┴── KconfigProofs
                                                AutoConf (of Kconfig) ──┘
    BuildWorld, ImageBuild, SsdDeploy ── ScriptProofs

### The loader

`SelfRelocate` is `_start` and `_relocate` of the three machines: the scan of the
dynamic section, one relocation per step, the ways out.  A word is the number of
times the base has been added to it and whether it has its addend.  `Init`
assumes that a dynamic tag occurs once, that each entry is about a word of its
own, and that on LoongArch64, where the code adds the base to what is there, the
linker has left the addend in the word.

`BootServices` is the firmware as the loader sees it (outside the repository):
the memory map as a number of descriptors and a key, and for each call the set
of its possible answers.  `FirmwareEvent` lets it change the map at any time.
Answers are as wide as the UEFI specification leaves them: `GetMemoryMap` with
too small a buffer may or may not write the key, any call may be refused,
`AllocatePool` may change the map.

`ExitHandshake` is `exit_boot_services`, one action per firmware call: `Call`
(161-172), `GetSize` (173), `CheckSize` (177-180), `Allocate` (181), `GetMap`
(191), `Exit` (194).  `ebs` is the control point, the other variables carry the
code's names.  Three history variables record what the properties need: the
length first reported, the status of the second `GetMemoryMap`, and whether the
map has changed since.

`CoreMem` has one iteration of each memory loop and the conversion of the length
to `int` (low bits, read as signed).  `MemCall` runs one call of either function
with any arguments that stay in memory.

`EfiMain` composes them: `pc` is the control point of `efi_main`, every
iteration of a memory loop is a step, the handshake is run in the middle, and
`FirmwareStep` may come between any two.  A memory cell is what one iteration
moves; it holds a piece of an image, zero, firmware data or whatever was there
before.  The firmware rewrites its own cells at any time.  The boot hart is looked
up by two calls (`LocateProtocol`, `GetBootHartId`), each of which may fail, its status
then being passed on as the id: nothing in the code tells the two apart, and no
property claims that it does.  `LayoutAssumption` names the contract the code relies on and does not
check: destinations are apart from the images inside the loader, from each other
and from memory the firmware owns.  Cleared regions may overlap destinations, as
they do in the code.

`Handoff` is what the packer promises, with three variables: who runs, whether
boot services are available, whether all images are in place.  `EfiMain`
defines the refinement mapping and `HandsOver`.

`SerialConsole` covers `init_serial` (uart.S 8-31) instruction by instruction, the
polls and writes of the two ports with a FIFO, the SBI call of RISC-V,
which may fail without anyone noticing, `print_str`, and a firmware that prints through the same port.  Characters are
numbered, so that order and loss can be told; 0 is any character of the
firmware's.

`AcpiDump` has one action per phase of `acpi_dump` and per loop iteration.  The
firmware's tables are chosen at the start and never change.  A read past the
end of the XSDT may yield anything.

`ParsePe` has an action per header check and per section.  A memory cell holds
the address its content came from, so that a copy shows where it read.

### The configuration

`KconfigJoin` has the expressions of `expr.c`, the values of symbols and
comparisons and the joins of two of them (`expr_join_or`, `expr_join_and`);
`KconfigExpr` the value of any expression, the rewriting that `menu_finalize` puts a
dependency through (`expr_eliminate_dups`, `expr_eliminate_eq`, `expr_transform`),
and `expr_depends_symbol`, which decides whether an entry is listed below
another.  `KconfigSymbol` has what `symbol.c` and `confdata.c` make of a menu and a
`.config`: visibility, defaults, choices, the calculated value, what is read back,
what is written, which symbols are new, and the questions `conf` asks.  It takes the
value of an expression as a parameter (`ValueOf`; the runs give it `Val` of
`KconfigExpr`) and calculates the
entries of a menu one after the other, where the code follows the dependencies
and calculates what it comes to; `ValuesDetermined` (below) says that this makes
no difference.  The questions (`Asked`) are one pass over the entries, each of which
is asked for if it is new by then, where `main` goes round until a round changes
nothing; one pass is enough where entries look at earlier ones only, which `ScopeAssumption`
requires and this repository's menu keeps to.  `sym_check_deps` does not see to it: it
refuses cycles and lets an entry refer to a later one, and for such a menu the rounds
of `conf.c:679-685` are needed and this model is too simple.  `KconfigMenu` has a menu as
`menu_finalize` leaves it.

The passes of `expr.c` are recursive functions on `Exprs`, a set of expressions: those
of a few levels (`Expr[n]`) where TLC runs, all of them where something is proved.
Three passes go on inside what another call of theirs has made: `expr_eq` of two
chains, which cancels what they share by comparing the operands; `expr_eliminate_dups1`,
which first joins the operands of an operand; and `expr_eliminate_dups`, which goes
round until nothing is left to join.  They are functions of how often that may
happen (`EqualUpTo` and `JoinedUpTo` up to `Depth`, `RoundsOf` up to `Rounds`).  `&&` and
`||` are taken apart to a sequence of operands and put together again (`Operands`,
`ChainOf`); how the code nests them is left out, as nothing looks at it.

`AutoConf` is the protocol of the files, with conf's result as a constant: make
finds `auto.conf` older than `.config` (`fresh`), runs conf, which rewrites `.config` by
two renames, writes the dependency file, touches the marker of every symbol
whose value differs from the old `auto.conf`, writes three temporary files and
renames them, `auto.conf` last; then make
starts again, as it does when a file it includes has been remade, and objects older
than a marker they depend on are compiled.  Between any two of these steps the user may edit `.config` or the
menu, and anything may stop.  `Kconfig` puts the two together: two menus cut
from the repository's, tables of conf's results for `AutoConf`, an assumption
that checks the tables against `KconfigMenu` and `KconfigSymbol`, and the properties
of the expression code, over every small expression of the instance.

`KconfigSession` is a user at a front end (mconf's way of saving, which the
others share): settings with `sym_set_tristate_value` and `sym_set_string_value`,
saving, quitting without saving, and in between the targets of `conf`: those that
ask (`AskConfig`, `SilentOldConfig`), with every answer, and those that do not
(`OldDefconfig`, `SaveDefconfig`, `Defconfig` and, in `AllConfig`, the targets that set
everything).  `MCKconfigSession` has its menu: the choice of the architecture, a
switch, a path below it, a symbol without a prompt, and a symbol whose default
follows another.

### The scripts

`ImageBuild` has an action per step of `make_image`, each of which may fail or be
the last before a kill; a clean that does not get to its end has removed some of
the files.  With it go the three scripts that call it, with their different ways of
setting `.config` and of going on after an error, and the user, who edits `.config` and
hvisor's sources between any two commands.  `.config` is three settings that no rule
ties together: the architecture, the directory hvisor's sources are in
(`HVISOR_SRC_DIR`, which `make_image` reads once, at line 6) and the file to embed
(`EMBEDDED_HVISOR_BIN_PATH`, which make reads when it assembles `data.S`).  Each
directory built for each architecture has a `hvisor.bin` of its own.  An image is the
architecture its code is of, the file it embeds and the version of the hvisor that
was in it.  `MCImageBuild` says what the user of the run may make of `.config`.

`BuildWorld` has the shell (`NextCall` to `Report`), the reader and the commands as
processes of their own.  A command may leave a child behind that keeps the pipe
open and writes to it.  When `mkfifo` fails, which nobody checks (`FifoFails`), the
redirection makes an ordinary file, and the reader finds as much of it as there is by
then, or nothing.  `current` and `sub` are the script's `CURRENT_STEP` and
the copy in the subshell of the zone loop.

`SsdDeploy` is `ssd_deploy.sh` command by command, with arguments or without.  Any
command may fail, a copy may be made in part, and a signal may come before any
command: the trap runs `cleanup` there and then, inside another cleanup if one
is running (`todo` is the stack of what is left of them), and the script goes on.

The `map` of `PROJECT.json` gives the lines behind every definition.  Definitions
under a comment that starts with "Mutant" are deliberately wrong variants; each
property is known to fail when the definition they stand beside is replaced by
one of them.

## Runs

| run | module | distinct states | question |
| --- | --- | --- | --- |
| `self_relocate` | SelfRelocate | 339680 | the words `efi_main` finds, and where `_start` ends |
| `loader_loongarch64` | EfiMain | 3876 | memory at entry, untouched sources, services not called after exit, hand-over, progress |
| `loader_riscv64` | EfiMain | 78850 | why boot services can survive their exit |
| `memory_calls` | MemCall | 6224 | what the two helpers do for all arguments |
| `serial_console` | SerialConsole | 25566 | order, loss and divisor on all three ports, and that the text comes out |
| `acpi_dump` | AcpiDump | 44082 | which tables are followed, what is read, what is dumped |
| `parse_pe` | ParsePe | 47907 | what is returned and what has been copied |
| `kconfig` | Kconfig | 306170 | files and objects over interrupted runs and edits; rewriting of expressions |
| `kconfig_session` | MCKconfigSession | 8257 | settings, saving and quitting, questions, minimal configurations; what is written read back |
| `image_build` | MCImageBuild | 487180 | which image lies under which name after builds that fail or are killed |
| `build_world` | BuildWorld | 30018 | log, pipe and end of the script |
| `ssd_deploy` | SsdDeploy | 3971978 | where the copies go and what is left behind |

Bounds, and why they are enough:

* *Relocation*: tables of up to three entries of the three kinds, every selection
  and order of four tags.  Each entry is treated alone; three make a first, a
  middle and a last one.
* *Memory map*: up to 5 descriptors, 5 changes, slack 2 (3, 3 and 1 in the
  LoongArch64 instance).  The interesting cases are a map that grows by at most
  the slack, by more, that shrinks, and a change at each of the six points of
  the handshake; all occur.  The code's slack is 20; only its relation to the
  growth matters.
* *Loader*: 14 cells on LoongArch64, images of 2 and 3 cells, a destination
  inside a cleared region and one that starts in one and ends outside, as in
  `configs/wheatfox_loongarch64_defconfig`; one firmware cell with two
  values.  The RISC-V instance has two harts and a status that is neither.  No instance is made for
  AArch64: its path is that of RISC-V without the boot protocol, and the
  theorems hold for all three.
* *Memory calls*: an `int` of three bits on 8 cells, lengths up to 19, so that
  lengths pass the largest int, the sign bit and the whole width; every pair of
  source and destination, so every kind of overlap.
* *Serial console*: a FIFO of 2, four characters and three of the firmware's:
  the FIFO fills, drains and fills again, and a race can happen twice.
* *ACPI*: a `UINTN` of seven bits and an `int` of four, a configuration table of up
  to two entries, XSDT lengths below the header, at it, with two entries and
  two and a half; DSDT lengths of none, less than a line, a line, more, and
  past the largest int.
* *PE*: a file of 2 cells, up to two sections with offsets and sizes up to 3: in
  the file, over its end, behind it, empty, and overlapping each other at the
  target.
* *Configuration*: two edits and one failure.  That is what it takes for a
  symbol to change and change back over a run that was cut short, and for an
  edit to come while conf runs.  Two menus: a part with a switch, and the same
  before it had one; every conjunction and disjunction of two comparisons, negated
  or not, without a parent and below three of them.  These are expressions of at most
  three operands; negations and the comparison with `n` nest them no deeper than six
  (`NestedExprs`: TLC would stop at an expression outside).  `Depth` is that, and each
  round of joining but the last takes an operand away, so that neither it nor
  `Rounds` cuts the code's recursion short.  In the session the expressions are
  shallower: four.
* *Session*: two settings from each of 16 files written by hand, with any number
  of the other actions and every answer: the second setting is made of what the
  first has changed, hidden or uncovered.  The files have the choice made not at
  all, once or twice, and one more question uncovered by an answer.
* *Image build*: two versions of the sources, two runs, one zone: a second run over
  what a first one left behind.  A third passes too, in 5.6 million states, and shows
  nothing new; the theorems are for any number.  Edits of `.config` are not bounded in number; what it may say is one of the three defconfigs,
  or RISC-V's with sources and embedded file each in either of two directories.
* *World build*: a step, two zones of two calls each, a step; two lines per
  command through a pipe that holds one, so that writers block.
* *Deployment*: two signals, so that one can be taken inside the cleanup the
  other started.

`CHECK_DEADLOCK FALSE` is set where the program ends.  That it ends, and is not
stuck halfway, is a property where it could be (`Started`, `AllPrinted`,
`BuildEnds`, `ComesToAnEnd`, and `Converges` for make); the calls of `MemCall`,
`AcpiDump` and `ParsePe` are loops with a counter.  `KconfigSession` and `ImageBuild`
have a user who can always do something more, and are checked for deadlock.

## Fairness

* Loader, console, start: `WF` of the loader's own steps.  The boot processor
  executes the next instruction; an interrupt delays it and returns.  The
  firmware has no fairness and may also do nothing at all.
* Console: `WF` of `Transmit`, since a port sends what it holds.  `AllPrinted`
  also needs the firmware's characters to be finite (`MaxFirmware`): the polls
  have no timeout, and a firmware that prints for ever may starve the loader.
* World build: the shell runs, the reader runs, a child that was left behind
  ends.  A command's end is a step of the script, so each command is assumed to
  end; none has to write anything.  Without the assumption on the child
  `BuildEnds` is false: `wait` at line 100 would never return.
* Configuration: `WF` of make's and conf's steps: whoever builds runs make again
  after a failure.  Edits and failures are bounded, which makes `Converges` a
  statement about what happens after the last of them.
* No fairness is assumed of memory calls, ACPI dump, PE loader, deployment, front
  end and image build; their properties are about safety only.

## Proofs

Every theorem holds for all values of the constants that satisfy the named
assumptions: `FirmwareBounds`, `SlackAssumption`, `IntAssumption`,
`RelocateAssumption` (widths and bounds are natural numbers), `ImageAssumption` (so are
its bounds, and `Configs` are configurations; the theorems are for every set of them),
`ConfigAssumption` (an image's size is an `int` and addresses exist),
`LayoutAssumption` (above), `MemCallAssumption`, `ConsoleAssumption`, `AcpiAssumption`,
`PeAssumption` (the load area is clear of the file), `BuildAssumption`,
`AutoConfAssumption`, `SignalsAssumption`; for expressions `KindAssumption` (no symbol is
called `y`, `m` or `n`), `DepthAssumption` and `DepsAssumption` (what a parent hands down has
been through `expr_transform`); and for menus `SessionAssumption` (the files the front
end may find name the menu's symbols with values of their types),
`EntriesAssumption` (each symbol has one entry, a choice comes before its members,
which are bool and have no default of their own) and `ScopeAssumption` (the
expressions of an entry look at entries before it only: a restriction of the model,
above, which this menu satisfies).  TLC evaluates them in the runs.  The type invariants of these
modules are proved and not repeated in the runs.

**Loader** (`EfiMainProofs`), first the handshake: `HandshakeTypeCorrect`,
`FailureIsExplained`.  `FailureExplained` says nothing about how the function got
to its last call, so the invariant `HInv` adds: the buffer has the slack on top of
what was first reported (`BufferRoom`), what each answer of the second
`GetMemoryMap` says about the size (`SecondCall`), a successful answer not
followed by a change has the current key (`KeyCurrent`), and boot services live
up to the last call (`LiveBefore`).

Then the whole: `TypeCorrect`, `MemoryIsReady`, `SourcesStayIntact`,
`ServicesAreLive`, `HandsOverSafely`, `FailureIsExplainedInLoader`.
The heart of the invariant is `MemoryNow`: memory is `Expected(C, H, V)`, the boot
memory with the cells `C` cleared and the cells `H` and `V` of the two images copied
on top, where the three sets follow from the control point and the loop variable
(`ClearedSoFar`, `HvisorSoFar`, `VmlinuxSoFar`).  Each memory loop adds one cell to
one set; the lemmas `FillExpected`, `CopyHvisorExpected` and `CopyVmlinuxExpected`
say so once.  It needs the loop bound (`LoopBound`), the agreement of the two
control points (`Control`) and the handshake's own invariant, which is carried
over because every step of the loader is a step or a stutter of the handshake
(`HandshakeInside`).  `HandsOverSafely` is the safety part of the refinement:
`Loaded` is true exactly when both copies are complete (`LoadedIff`), and stays.

**Start** (`SelfRelocateProofs`): `RelocateTypeCorrect`, `EntersRelocated`, for tables
of any length.  `Half`: the entries before the one `_relocate` has come to are
relocated exactly once and the others as the linker left them; `Sized`: the entries
done and to be done make up the table, once its size has been read; `Judged`: with
which tags each way out is taken.

**Memory calls** (`CoreProofs`): `CopyIsFaithful`, `FillIsFaithful`,
`WritesStayInside`.  The invariant says how far the loop is (`Progress`), that
nothing before or behind that is written (`Unwritten`) and what the cells written
hold (`Copied`, `Filled`); a forward copy is right as long as the destination does
not start inside the source.  The lemma `IntArgBounds` is what they need of the
conversion to `int`, and the reason why no length makes the loop write past what
its caller named.

**Console** (`CoreProofs`): `SerialTypeCorrect`, `LossNeedsFirmware`,
`NothingLostAlone`, `BaudIsRight`, `TextIsInOrder`.  `Latch` says which halves of the
divisor are right at each instruction of `init_serial`, `Room` that between a
successful poll and the write the FIFO has room unless the firmware printed.  For
the order, `Stream` is what has been sent followed by what the FIFO holds, and
`TextSoFar` that the loader's characters in it are those printed so far, in
order, less those lost: sending moves a character inside the stream, printing
adds one at its end.

**ACPI dump** (`AcpiDumpProofs`): `AcpiTypeCorrect`, `ReadsStayInside`, `FirstFadt`,
`DumpIsWhole`.  `Untouched`: what a phase has not reached is as it was; `Scanned`: the
entries passed over were none; `Dumping`: the lines so far hold `i` bytes, all full
but the last (`Hold`), to which a byte adds one (`OneMore`) and which the end
closes (`DumpCloses`).  `CountIsInside` is the arithmetic of the hazard: the number
of entries calculated from a `Length` that covers the header never reaches past it.

**PE loader** (`ParsePeProofs`): `PeTypeCorrect`, `SuccessMeansLoaded`,
`RejectionIsPrompt`, `FileAloneIsCopied`.  `Placed` says that memory is `Loaded(i)`,
the first `i` sections in place with the later of two on top, `Checked` that these
were in the file, `Control` which checks lie behind each control point.

**World build** (`ScriptProofs`): `BuildTypeCorrect`, `WritersHaveReader`,
`LogIsFaithful`.  `Counted` ties the step numbers to the call, `Phase` says for every
control point of the shell which of reader, command and child may be there, and
`Handed` that log, the line in the reader's hand and the pipe together are what
was written.

**Image build** (`ScriptProofs`): `FinishedIsCurrent`, `NamesAreTrue`,
`NoOldImageStays`, for any number of runs, versions of the sources and zones, and
whatever `.config` may say. `FinishedIsCurrent` does not say that the embedded
hvisor is the one this run has built: it is what the file that `.config` named
holds, and this run's if that is the file. `OnTheWay` says what a run has in hand at
each step: from `clean` on there are no objects (`Cleaned`), at `objcopy` they are
linked from what the file that `.config` named holds, then the `.efi` is, then the copy under the architecture's
name; `NoLeftOver` that from `clean` on no older image lies under any name, except
RISC-V's until a run for it has reached its own removal of it.

**From `.config` to the objects** (`KconfigProofs`, last part): `TypeCorrect`,
`FreshIsRight`, `ObjectsAreCurrent`.  `Staged`: which of the files have been renamed
already; `Agreed`: they agree when make relies on them; `MarkedSoFar`: the users of
a symbol that differs from the old `auto.conf` will be compiled, which is what
survives an interruption, because the old `auto.conf` does too; `InStep`: the files
are those conf has read unless an edit overtook it.

**Expressions** (`ExprProofs`), for every set of symbols, every expression of any
depth and every `Depth` and `Rounds`: `RewritingKeepsMeaning` and
`ListedEntriesAreReached`, which are `MeaningKept` and `ListedIsReached`.  Their
hypothesis `Unbounded` says that `Exprs` is the set of all expressions, however deep,
over the symbols of `Kind`; in the run it is the levels the menus need.

* A recursive function is a `CHOOSE` until it is shown to exist.
  `StructuralRecursion` shows it for every function given by its values for atoms and
  by how it goes on for `!`, `&&` and `||` (level by level, from `NatRecursion`); the
  lemmas with names in `Is` and `Are` are the equations that follow.  `AllExprs` is the
  induction that goes with it: a set that has the atoms and all that is made of its
  members has every expression.
* Values are looked at one threshold at a time.  `AtLeast` says of a chain that it has
  at least the value `k`, which for `&&` is so of all operands and for `||` of one of
  them; `ChainKeeps` and `NeutralAtLeast` say what becomes of that when a chain is put
  together and when an operand is replaced.
* Joins: `OrKeepsValue`, `AndKeepsValue`, `BoolKeepsValue`, for a pair of operands, by
  cases over what they are.  For a chain the invariant is `Joins`: the operands, as far
  as they have been joined, reach the thresholds that those at the start did.  A
  round is then a function that keeps values and kinds (`Alike`, `Joiner`), and so is
  any number of rounds: `EliminateDupsKeeps`.
* Comparing: `ExprEqIsSound`.  `expr_eliminate_eq` does not keep the values of the two
  expressions it cancels in: `a && b` and `a` leave `b` and `y`.  What it keeps is that if
  one of what is left is at most the other, then so was one of the two before
  (`Ordered`, of chains `OrderedAs`).  That is enough both for `expr_eq`, which asks
  whether the same symbol is left, and for `Nested`, which asks whether nothing is left
  of the parent.
* Negations: `TransformKeeps`, with `NegatedKeeps` for what is below one.  Without
  negations but of symbols (`Flat`) `TransBoolKeeps` holds: `FOO!=n` and `FOO` are not the
  same under a negation, and `menu_finalize` calls `expr_trans_bool` only on what it has
  transformed.  Joining keeps `Flat` because it keeps every kind of expression that is
  closed under taking chains apart and putting them together (`ClosedKind`).
* Listing: `DependsKeeps` and `TransCompareKeeps`, for configurations without `m`
  (`TwoValued`).  With `m` an entry can be listed below one that is not on show, which is
  why the property is restricted.

**Menus and sessions** (`KconfigProofs`, first part), for every menu that satisfies
the assumptions, every file and any number of settings.

* `ValuesDetermined`: the values of the symbols are the only solution of the
  equations `sym_calc_value` stands for.  That they are one is an induction over the
  entries (`PassesExist`, `PassTyped`, `PassKeeps`, `Solved`): an entry's value does
  not change once it has been calculated, and only entries before it matter to it
  (`CalcAlike`).  That there is no other is the next one: if two valuations differed,
  there would be a first entry at which they do (`Least`, `Agree`, `Unique`).
  With that, to know what a configuration looks like on the screen it is enough to
  exhibit values that solve it, which is how everything below is proved.
* `OneMemberIsOn`: exactly one member of a choice is on, and it is on show.
* `WholeReadsBack`: what is written is read back with the values it had, there is no
  reason to write it again, and nothing is asked.  `SaysAsMuch` is the condition on a
  file that this needs: of each symbol on show it says what the symbol has, or
  nothing where that is the default; `ReadSolves` says that it is enough.
* `OneRoundSuffices` (a lemma): when `conf` has gone through the menu once, nothing is
  new, whatever was answered.  It rests on `ScopeAssumption`, which makes the order of
  the menu that of the dependencies.  An answer changes its own symbol and values after it, and
  leaves what is before it alone (`EarlierAlike`); the entry itself is no longer new
  (`VisitSettles`), and the pass carries that along (`VisitSays`, by the least entry
  at which it fails).
* `WrittenReadsBack` is `RoundTrip`: one round, then `WholeReadsBack`; a file that is
  neither asked about nor rewritten is one that would be written as it is
  (`UnchangedNothingNew`).  `OneIsSelected` is `OneArchitecture`, of `OneMemberIsOn`.
* `NothingLost`, `SettingsHold`, `NothingAsked`, `MinimalSuffices`, the other
  properties of a session.  The invariant (`Sound`, with `QuitLosesNothing` and `SettingHolds`)
  adds that what a tool has written is a whole configuration and that a minimal one
  is the minimal form of its origin.  `SetKeeps` is the heart: a setting that does
  not count as a change leaves every value on the screen as it is, one that counts
  gives its symbol the value, and switching on a member of a choice switches off
  the others (`SetPlain`, `SetOff`, `SetOn`).  `MinimalSays` is why `savedefconfig` may
  leave out a line: the line is not looked at, or the symbol has its default, or its
  choice has it by default, and each is so again when the rest is read back.

**Deployment** (`ScriptProofs`): `DeployTypeCorrect`, `CopiesReachPartitions`,
`NothingIsLeft`, for any number of signals, hence any depth of cleanups inside
cleanups.  `Paired`: every `umount` still to be run has the `rmdir` of the same mount
point behind it; `KeptTogether`: so a directory that the script copies to is
mounted on or will be removed, and a copy finds the partition or nothing;
`Cleared`: on the way out each mount point is gone, has refused to go or is still
to be dealt with.  `Named` and `OwnMode` say which mount points the variables name.

Only model-checked: liveness everywhere (out of the prover's reach), hence the
fairness part of `HandsOver`, and `Started`, `AllPrinted`, `BuildEnds`, `Converges` and
`ComesToAnEnd`.  Every invariant a run checks is proved.  Evaluated by TLC only: that the
tables `Kconfig` gives `AutoConf` are conf's results (`TableAssumption`, about two menus).

## Disagreements found

The properties of the runs hold.  The following are places where the code, read
line by line for the models, does not do what a comment or a message says.

* `main/main.c:122` prints "exit_boot_services done", but line 121 drops the
  status.  If the map changes after the second `GetMemoryMap`, or that call is
  refused, boot services are alive at the message and when hvisor is entered.
  `FailureExplained` names these cases and shows that there are no others.
* `main/acpi.c:203` takes `CompareGuid`'s result for a truth value where lines 39 and
  44 compare it with 0.  The entry reported as the device tree is the first one
  that is not.  `AcpiDump` has the step as it is (`dtb`).
* `main/core.c:119` says "print code in string", but the return at line 124 is
  inside the loop that writes the sixteen digits from the last one backwards.
  The first byte of the static buffer stays zero: an unknown status is printed
  as an empty string.
* `build_world.sh:219` counts the zones in `TOTAL_STEPS`, but their increments at
  line 262 are made in a subshell and lost (`sub` of `BuildWorld`).  The last step
  is shown as 6 of 6 plus the number of zones.
* `make_loongarch64:154` says "All entry points match correctly!" if `ERROR` is 0,
  but line 149 sets it in the subshell at the end of a pipeline: only the root
  zone's entry point counts.  If two files that both cannot be read are compared,
  two empty strings match.
* `make_loongarch64:157` says "Script completed successfully" whatever became of
  `make_image`, whose status line 71 does not look at.  The other two scripts have
  `set -e`.
* `scripts/kconfig/expr.c:499` says "(a!='m') && (a!='n') -> (a='m')"; the code makes
  it `a='y'`, which is right (`MeaningKept` fails with what the comment says).
* `lib/gnu-efi/gnuefi/crt0-efi-riscv64.S:130` branches past the load of the return
  address when `_relocate` fails, so that `_start` returns into itself, and takes its
  frame off the stack again and again.  `ComesToAnEnd` leaves out exactly this case.
* `Makefile:684` does not list `BOOTRISCV64.EFI` among the files to clean;
  `NothingStale` leaves out exactly the cases that follow.

## What is not modelled

* Formatting and messages: `print_hex`, `print_chars`, `get_arch`, the names of
  `get_efi_status_string`, the banner and the dumps of table addresses.
* Low-level setup of LoongArch64 (`kernel.S`) and the switch of address
  translation: fixed sequences of register writes that no other state depends
  on; addresses are taken to mean the same before and after.
* Of the world build the checks before the first step, and what the build
  commands do.  In particular a command that reads standard input inside the
  zone loop would swallow zones; whether one does is not in this repository.
* Of the image build what compilers, linker and objcopy do beyond which image
  comes out, the Linux kernel that LoongArch64's image embeds as well, an edit of
  `.config` while a command is reading it, the numbers compared as entry points, and
  `Makefile.1`.
* `ssd_deploy_helper.sh`, `ssd_deploy_flash.sh`, `make_copy`, the test runs and
  `make_format`: sequences of commands without a trap, a loop or state of their own.
  `SsdDeploy` has no paths inside a partition.
* Of kconfig: `select`, ranges, int symbols and modules, none of which this
  repository's menu uses; what a hex symbol accepts (the menu's two load
  addresses are hex, and are values like those of a string here); the lexer and
  the parser, which are generated; and the screens of the four front ends
  (`mconf`, `nconf`, `gconf`, `qconf`, 6000 lines of curses, GTK and Qt calls) beyond
  setting, saving and quitting.  `conf` started on a closed input asks for ever
  for an int or hex symbol without a default; the menu's two have one.  A choice's member once written keeps its `SYMBOL_WRITE`
  (`symbol.c:365`), so that one hidden together with its choice would still be written
  as not set; and `sym_set_string_value` does not count the text a symbol had before it
  was reset (`symbol.c:687`).  Both need a condition on a choice or on a prompt that
  this menu has not, and the model has neither.
* The rest of gnu-efi: 26000 lines of headers and library, of which the loader
  calls `InitializeLib`, `Print`, `CompareGuid` and a few more; these are modelled by
  what they do where it matters.

Most of the repository's lines are in the last two items, which is why the
models stand for a small part of them: it is a small program with large vendored
parts, most of which the program does not run.

## Plan

Done: BootServices, ExitHandshake, CoreMem, EfiMain with Handoff, MemCall,
SerialConsole, AcpiDump, ParsePe, SelfRelocate; KconfigJoin, KconfigExpr,
KconfigSymbol, KconfigMenu, AutoConf, Kconfig, KconfigSession; ImageBuild,
BuildWorld, SsdDeploy; the proofs listed above, of every invariant of every run.

Next, in this order:

1. The safety half of `ComesToAnEnd` and `BuildEnds`: from which states nothing but
   the named exceptions leads astray.
2. `ssd_deploy_helper.sh` and `Makefile.1`, if they get state of their own.
3. What a hex symbol accepts, in `KconfigSymbol` and in what `conf` asks again.
