------------------------------ MODULE ImageBuild ------------------------------
(***************************************************************************)
(* How the image of the loader is built: make_image, the script of each    *)
(* architecture that calls it, and what they leave in the tree when a step *)
(* fails or is interrupted, or when the user changes things meanwhile.     *)
(***************************************************************************)
EXTENDS Naturals

CONSTANTS
  Dirs,         \* directories hvisor's sources may be in, "hvisor" among them
  Configs,      \* what the user may make of .config
  MaxVersion,   \* bound: versions of hvisor's sources
  MaxRuns,      \* bound: runs of a script
  MaxZones      \* bound: non-root zones in zones.json

VARIABLES
  config,    \* .config, or Absent
  source,    \* version of hvisor's sources
  bin,       \* version of hvisor in each hvisor.bin, 0 without one
  libs,      \* architectures gnu-efi is built for
  objects,   \* main/built-in.o and the objects it is linked from
  efi,       \* hvisor.efi
  boot,      \* BOOT*.EFI of each architecture
  script, arch, pc, runs,
  srcdir, made, \* where this run builds hvisor, and the version it has built
  reached,   \* steps of make_image this run has been through
  image,     \* exit status of make_image
  error,     \* ERROR of make_loongarch64
  left       \* zones it has still to check

tree == <<source, bin, libs, objects, efi, boot>>
control == <<script, arch, runs>>
hvisor  == <<srcdir, made>>
verdict == <<error, left>>
imageVars == <<config, tree, control, pc, hvisor, reached, image, verdict>>

Arches == {"aarch64", "loongarch64", "riscv64"}
Absent == [none |-> TRUE]
Torn   == [torn |-> TRUE]   \* what is left of an interrupted cp

\* A hvisor.bin: the build of one directory for one architecture writes it.
\* A file that no build writes is one of a directory nothing is built in.
Output(d, a) == <<d, a>>
Binaries == Dirs \X Arches
\* .config: TARGET_ARCH, HVISOR_SRC_DIR and EMBEDDED_HVISOR_BIN_PATH, which
\* may name any file, whatever the other two are.
Config == [arch : Arches, src : Dirs, path : Binaries]
Defconfig(a) == [arch |-> a, src |-> "hvisor", path |-> Output("hvisor", a)]

ASSUME ImageAssumption ==
  /\ "hvisor" \in Dirs /\ Configs \subseteq Config
  /\ {MaxVersion, MaxRuns, MaxZones} \subseteq Nat

\* What .config makes of the sources: arch.c takes the code from it, and
\* data.S what the file it names holds now.
Fresh == [arch |-> config.arch, path |-> config.path, hvisor |-> bin[config.path]]

ImageInit ==
  /\ config \in {Absent} \cup { Defconfig(a) : a \in Arches } /\ source = 1
  /\ bin \in { [f \in Binaries |-> v] : v \in {0, 1} } /\ libs = {}
  /\ objects = Absent /\ efi = Absent /\ boot = [a \in Arches |-> Absent]
  /\ script = "none" /\ arch = "none" /\ pc = "idle" /\ runs = 0
  /\ srcdir = "none" /\ made = 0 /\ reached = {} /\ image = "none"
  /\ error = FALSE /\ left = 0

-----------------------------------------------------------------------------
(* The scripts of the architectures.                                       *)

Start(name, a, conf, next) ==
  /\ pc = "idle" /\ runs < MaxRuns
  /\ runs' = runs + 1 /\ script' = name /\ arch' = a
  /\ config' = conf /\ pc' = next
  /\ srcdir' = "none" /\ made' = 0 /\ reached' = {} /\ image' = "none"
  /\ error' = FALSE /\ left' = 0
  /\ UNCHANGED tree

\* make_loongarch64 and make_aarch64 take their own defconfig; make_riscv64
\* takes a .config of its architecture as it is, and gives up if there is one
\* of another that the user keeps.
OfArch(a) == config # Absent /\ config.arch = a
MakeLoongarch64 == Start("loongarch64", "loongarch64", Defconfig("loongarch64"), "check")
MakeAarch64     == Start("aarch64", "aarch64", Defconfig("aarch64"), "dirs")
MakeRiscv64 ==
  \/ OfArch("riscv64") /\ Start("riscv64", "riscv64", config, "dirs")
  \/ ~OfArch("riscv64") /\ Start("riscv64", "riscv64", Defconfig("riscv64"), "dirs")
  \/ config # Absent /\ ~OfArch("riscv64") /\ Start("riscv64", "riscv64", config, "idle")
MakeImage == \E a \in Arches : Start("make_image", a, config, "dirs")

\* jq, the directories and the architecture are checked: exit 1, or go on.
Check ==
  /\ pc = "check"
  /\ \/ pc' = "idle"
     \/ OfArch("loongarch64") /\ pc' = "dirs"
  /\ UNCHANGED <<config, tree, control, hvisor, reached, image, verdict>>

-----------------------------------------------------------------------------
(* make_image.  It ends at the first command that fails (set -e), and of   *)
(* the scripts only make_loongarch64 goes on then.                         *)

AfterImage == IF script = "loongarch64" THEN "zones.json" ELSE "idle"
Succeed(step, next) == pc = step /\ pc' = next /\ UNCHANGED image
Fail(step) == pc = step /\ pc' = AfterImage /\ image' = "failed"
Keep == UNCHANGED <<config, source, control, verdict>>

\* HVISOR_SRC_DIR is taken from .config once, before anything else.
CheckDirs ==
  /\ \/ Fail("dirs") /\ UNCHANGED srcdir
     \/ config # Absent /\ Succeed("dirs", "hvisor") /\ srcdir' = config.src
  /\ Keep /\ UNCHANGED <<tree, made, reached>>

MakeHvisor ==
  /\ \/ /\ Succeed("hvisor", "clean")
        /\ bin' = [bin EXCEPT ![Output(srcdir, arch)] = source] /\ made' = source
     \/ Fail("hvisor") /\ UNCHANGED <<bin, made>>
  /\ Keep /\ UNCHANGED <<libs, objects, efi, boot, srcdir, reached>>

\* CLEAN_FILES and the find of the clean target, which takes the libraries of
\* gnu-efi with it; BOOTRISCV64.EFI is not among them.
Cleanable == Arches \ {"riscv64"}
CleanFiles ==
  /\ libs' = {} /\ objects' = Absent /\ efi' = Absent
  /\ boot' = [a \in Arches |-> IF a \in Cleanable THEN Absent ELSE boot[a]]

\* A clean that does not get to its end has removed some of them.
CleanSome ==
  /\ libs' \in {libs, {}} /\ objects' \in {objects, Absent} /\ efi' \in {efi, Absent}
  /\ \E gone \in SUBSET Cleanable :
       boot' = [a \in Arches |-> IF a \in gone THEN Absent ELSE boot[a]]

\* Mutant: make_image does without the clean target.
CleanNothing ==
  /\ Succeed("clean", "efi") \/ Fail("clean")
  /\ Keep /\ UNCHANGED <<bin, libs, objects, efi, boot, hvisor, reached>>

Clean ==
  /\ \/ Succeed("clean", "efi") /\ CleanFiles /\ reached' = {"clean"}
     \/ Fail("clean") /\ CleanSome /\ UNCHANGED reached
  /\ Keep /\ UNCHANGED <<bin, hvisor>>

\* The status of build-*.sh is that of its cp: a make that fails goes
\* unnoticed if there is a library to copy.
BuildEfi ==
  /\ libs' \in {libs, libs \cup {arch}}
  /\ IF arch \in libs' THEN Succeed("efi", "make") ELSE Fail("efi")
  /\ Keep /\ UNCHANGED <<bin, objects, efi, boot, hvisor, reached>>

\* Mutant: what is undefined does not matter.
LinksUndefined(a) == config # Absent /\ a \in libs /\ bin[config.path] # 0

\* The code of one architecture does not link with the objects of another
\* (--no-undefined), nor without crt0 or something to embed.
Links(a) == OfArch(a) /\ a \in libs /\ bin[config.path] # 0
\* make sees that .config names another file, but not that what it names has
\* changed: .incbin is not in the dependencies of data.o.
Linked ==
  IF objects # Absent /\ objects.arch = config.arch /\ objects.path = config.path
  THEN objects ELSE Fresh

Make ==
  /\ \/ Succeed("make", "objcopy") /\ Links(arch) /\ objects' = Linked
     \/ Fail("make") /\ UNCHANGED objects
     \/ Fail("make") /\ Links(arch) /\ objects' = Linked
  /\ Keep /\ UNCHANGED <<bin, libs, efi, boot, hvisor, reached>>

\* Mutant: the image an earlier run has made stays until it is replaced.
ObjcopyAlone ==
  /\ \/ Succeed("objcopy", "inspect") /\ efi' = objects
     \/ Fail("objcopy") /\ efi' = Absent
  /\ reached' = reached \cup {"remove"}
  /\ Keep /\ UNCHANGED <<bin, libs, objects, boot, hvisor>>

Objcopy ==
  /\ \/ Succeed("objcopy", "inspect") /\ efi' = objects
     \/ Fail("objcopy") /\ efi' = Absent
  /\ boot' = [boot EXCEPT ![arch] = Absent]
  /\ reached' = reached \cup {"remove"}
  /\ Keep /\ UNCHANGED <<bin, libs, objects, hvisor>>

\* readelf and objdump
Inspect ==
  /\ Succeed("inspect", "copy") \/ Fail("inspect")
  /\ Keep /\ UNCHANGED <<bin, libs, objects, efi, boot, hvisor, reached>>

CopyBoot ==
  /\ \/ Succeed("copy", "show") /\ boot' = [boot EXCEPT ![arch] = efi]
     \/ Fail("copy") /\ boot' \in {boot, [boot EXCEPT ![arch] = Torn]}
  /\ Keep /\ UNCHANGED <<bin, libs, objects, efi, hvisor, reached>>

\* ls and file
Show ==
  /\ pc = "show" /\ pc' = AfterImage
  /\ image' \in {"ok", "failed"}
  /\ Keep /\ UNCHANGED <<bin, libs, objects, efi, boot, hvisor, reached>>

-----------------------------------------------------------------------------
(* What make_loongarch64 does after make_image, whatever became of it.     *)

Rest == UNCHANGED <<config, tree, control, hvisor, reached, image>>

ZonesFile ==
  /\ pc = "zones.json" /\ pc' \in {"idle", "root"}
  /\ Rest /\ UNCHANGED verdict

CheckRoot ==
  /\ pc = "root" /\ pc' = "zones"
  /\ error' \in BOOLEAN
  /\ left' \in 0..MaxZones
  /\ Rest

\* The loop over the zones is the end of a pipeline and a subshell: what it
\* makes of ERROR is lost.
CheckZone ==
  /\ pc = "zones" /\ left > 0
  /\ left' = left - 1
  /\ Rest /\ UNCHANGED <<pc, error>>

Conclude ==
  /\ pc = "zones" /\ left = 0
  /\ pc' = "idle"
  /\ Rest /\ UNCHANGED verdict

-----------------------------------------------------------------------------
(* The user.                                                               *)

EditSource ==
  /\ source < MaxVersion /\ source' = source + 1
  /\ UNCHANGED <<config, bin, libs, objects, efi, boot, control, pc, hvisor, reached, image, verdict>>

EditConfig ==
  /\ config' \in Configs
  /\ UNCHANGED <<tree, control, pc, hvisor, reached, image, verdict>>

\* "you can also just run `make` to build"
PlainMake ==
  /\ pc = "idle"
  /\ \E a \in Arches : Links(a) /\ objects' = Linked
  /\ UNCHANGED <<config, source, bin, libs, efi, boot, control, pc, hvisor, reached, image, verdict>>

\* A script is killed between two of its commands, in the clean or in the cp.
Kill ==
  /\ pc # "idle" /\ pc' = "idle"
  /\ image' = IF image = "none" THEN "killed" ELSE image
  /\ \/ UNCHANGED <<libs, objects, efi, boot>>
     \/ pc = "clean" /\ CleanSome
     \/ pc = "copy" /\ boot' = [boot EXCEPT ![arch] = Torn] /\ UNCHANGED <<libs, objects, efi>>
  /\ UNCHANGED <<config, source, bin, control, hvisor, reached, verdict>>

ScriptStep ==
  \/ MakeLoongarch64 \/ MakeAarch64 \/ MakeRiscv64 \/ MakeImage
  \/ Check \/ CheckDirs \/ MakeHvisor \/ Clean \/ BuildEfi \/ Make
  \/ Objcopy \/ Inspect \/ CopyBoot \/ Show
  \/ ZonesFile \/ CheckRoot \/ CheckZone \/ Conclude
ImageNext == ScriptStep \/ EditSource \/ EditConfig \/ PlainMake \/ Kill

ImageSpec == ImageInit /\ [][ImageNext]_imageVars

-----------------------------------------------------------------------------
\* The image under a name embeds what the file it was taken from now holds:
\* this run's hvisor, if that is the file this run has built.
IsCurrent(a) ==
  /\ boot[a] \notin {Absent, Torn} /\ boot[a].arch = a
  /\ boot[a].hvisor = bin[boot[a].path]
  /\ boot[a].path = Output(srcdir, arch) => boot[a].hvisor = made

(* When make_image ends well, the image under the name of the architecture *)
(* is of that architecture and embeds no older hvisor than is in the file  *)
(* it was taken from, whatever was in the tree before and whatever the     *)
(* user did to .config and to the sources meanwhile: make itself would     *)
(* embed an old one again.  If .config names the file this run has built,  *)
(* that is what is embedded; nothing in the script sees to it that it does *)
(* (main/data.S:6, make_image:6).                                          *)
ImageIsCurrent == image = "ok" => IsCurrent(arch)

(* No image ever lies under the name of another architecture, although     *)
(* the code is chosen by .config and the name by ARCH.                     *)
NamesTellTheTruth == \A a \in Arches : boot[a] \in {Absent, Torn} \/ boot[a].arch = a

(* After a run that did not end well, no older image is left to be taken   *)
(* for its result once it has cleaned, that of riscv64 once it has removed *)
(* its own: the clean target knows only of the other two (Makefile:684).   *)
NothingStale ==
  image \in {"failed", "killed"} =>
    \A a \in Arches :
      \/ boot[a] \in {Absent, Torn} \/ (a = arch /\ IsCurrent(a))
      \/ "clean" \notin reached
      \/ a = "riscv64" /\ (arch # a \/ "remove" \notin reached)
=============================================================================
