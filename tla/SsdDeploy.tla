------------------------------ MODULE SsdDeploy ------------------------------
(***************************************************************************)
(* ssd_deploy.sh: mount the USB stick and two partitions of the disk, copy *)
(* the image, the overlay and the kernel modules, and clean up.  Without   *)
(* arguments the script makes and mounts three mount points of its own;    *)
(* with three arguments it is given a deploy directory and two mount       *)
(* points of the caller's.  The trap runs cleanup at exit and also at      *)
(* every INT and TERM, after which the script goes on where it was; a      *)
(* signal during cleanup starts another cleanup inside the first.          *)
(***************************************************************************)
EXTENDS Naturals, Sequences

CONSTANT MaxSignals      \* bound: signals one run of the script gets

ASSUME SignalsAssumption == MaxSignals \in Nat

\* PARTITION3_MOUNTPOINT, PARTITION4_MOUNTPOINT, USB_MOUNTPOINT and what they
\* may name: the script's own mount points or the caller's.
Names     == {"P3", "P4", "USB"}
Own       == {"own3", "own4", "ownusb"}
Callers   == {"caller3", "caller4"}
Points    == Own \cup Callers
PointsFor(n) == CASE n = "P3"  -> {"own3", "caller3"}
                  [] n = "P4"  -> {"own4", "caller4"}
                  [] n = "USB" -> {"ownusb"}

\* What is copied and the partition each of it is for.
Files     == {"image", "overlay", "modules"}
HomeOf(f) == IF f = "image" THEN "P3" ELSE "P4"

VARIABLES
  step,      \* control point of the script
  args,      \* "none", "three" or "wrong": the arguments given
  name,      \* the three variables that name mount points
  todo,      \* commands left of the cleanups being run, innermost first
  dir,       \* mount points whose directory exists
  mounted,   \* mount points with a file system mounted on them
  full,      \* mount points with files of their own below the mount
  stock,     \* what the deploy directory holds
  refused,   \* mount points whose last umount was refused
  landed,    \* copies made: file, mount point, on its file system or below, whole or in part
  signals    \* signals taken so far

files == <<dir, mounted, full, refused>>
deployVars == <<step, args, name, todo, dir, mounted, full, stock, refused, landed, signals>>

Copy    == [file : Files, point : Points, on : BOOLEAN, whole : BOOLEAN]
Command == {"umount", "rmdir"} \X (Points \cup {"unset"})

SsdTypeOK ==
  /\ step \in {"names", "arguments", "points", "device", "mkusb", "mountusb", "deploy",
               "formats", "mk3", "mount3", "mk4", "mount4", "checks",
               "image", "overlay", "modules", "exit", "ended"}
  /\ args \in {"none", "three", "wrong"}
  /\ name \in [Names -> Points \cup {"unset"}]
  /\ \A n \in Names : name[n] \in PointsFor(n) \cup {"unset"}
  /\ todo \in Seq(Command)
  /\ dir \in SUBSET Points /\ mounted \in SUBSET dir
  /\ full \in SUBSET dir /\ refused \in SUBSET mounted
  /\ stock \in SUBSET (Files \cup {"deploy"})
  /\ landed \in SUBSET Copy
  /\ signals \in 0..MaxSignals

\* The caller's mount points may be missing, plain directories or mounted.
DeployInit ==
  /\ step = "names"
  /\ args \in {"none", "three", "wrong"}
  /\ name = [n \in Names |-> "unset"]
  /\ todo = <<>>
  /\ dir \in SUBSET Callers /\ mounted \in SUBSET dir /\ full \in SUBSET dir
  /\ stock \in SUBSET (Files \cup {"deploy"})
  /\ refused = {} /\ landed = {} /\ signals = 0

-----------------------------------------------------------------------------
(* cleanup and the trap.  mountpoint -q and -d are the guards of umount and *)
(* rmdir; neither command's status is looked at.                            *)

\* Mutant: the directories are left behind.
UmountOnly(n) == << <<"umount", name[n]>> >>

CleanupOf(n) == << <<"umount", name[n]>>, <<"rmdir", name[n]>> >>

Cleanup == CleanupOf("P3") \o CleanupOf("P4") \o CleanupOf("USB")

\* A mount point in use stays mounted.
Umount(p) ==
  /\ \/ /\ p \notin mounted
        /\ UNCHANGED <<mounted, refused>>
     \/ /\ p \in mounted
        /\ mounted' = mounted \ {p}
        /\ refused' = refused \ {p}
     \/ /\ p \in mounted
        /\ refused' = refused \cup {p}
        /\ UNCHANGED mounted
  /\ UNCHANGED <<dir, full>>

\* rmdir takes no directory that is mounted on or not empty.
Rmdir(p) ==
  /\ dir' = IF p \in mounted \cup full THEN dir ELSE dir \ {p}
  /\ UNCHANGED <<mounted, full, refused>>

CleanupStep ==
  /\ todo # <<>>
  /\ todo' = Tail(todo)
  /\ LET command == Head(todo)
     IN  IF command[1] = "umount" THEN Umount(command[2]) ELSE Rmdir(command[2])
  /\ UNCHANGED <<step, args, name, stock, landed, signals>>

\* INT or TERM between two commands, be they the script's or cleanup's.
Signal ==
  /\ step # "ended"
  /\ signals < MaxSignals
  /\ signals' = signals + 1
  /\ todo' = Cleanup \o todo
  /\ UNCHANGED <<step, args, name, files, stock, landed>>

\* The script's own commands run when no cleanup is.
At(point)  == step = point /\ todo = <<>>
Goto(point) == step' = point /\ UNCHANGED todo

\* Mutant: the trap is set for INT and TERM only.
ExitUntrapped == step' = "exit" /\ UNCHANGED todo

Exit == step' = "exit" /\ todo' = Cleanup

End ==
  /\ At("exit")
  /\ Goto("ended")
  /\ UNCHANGED <<args, name, files, stock, landed, signals>>

-----------------------------------------------------------------------------
(* The script up to the copies.                                            *)

SetNames ==
  /\ At("names")
  /\ name' = [P3 |-> "own3", P4 |-> "own4", USB |-> "ownusb"]
  /\ Goto(IF args = "none" THEN "points" ELSE "arguments")
  /\ UNCHANGED <<args, files, stock, landed, signals>>

TakeArguments ==
  /\ At("arguments")
  /\ \/ /\ args = "wrong"
        /\ Exit
        /\ UNCHANGED name
     \/ /\ args = "three"
        /\ name' = [name EXCEPT !["P3"] = "caller3", !["P4"] = "caller4"]
        /\ Goto("checks")
  /\ UNCHANGED <<args, files, stock, landed, signals>>

\* mkdir -p of the three may fail after making some.
MakePoints ==
  /\ At("points")
  /\ \E made \in SUBSET Own :
       /\ dir' = dir \cup made
       /\ \/ made = Own /\ Goto("device")
          \/ made # Own /\ Exit
  /\ UNCHANGED <<args, name, mounted, full, stock, refused, landed, signals>>

\* A test whose outcome is the machine's.
Test(point, next) ==
  /\ At(point)
  /\ \/ Goto(next)
     \/ Exit
  /\ UNCHANGED <<args, name, files, stock, landed, signals>>

CheckDevice  == Test("device", "mkusb")
CheckFormats == Test("formats", "mk3")

\* mount_drive: mkdir -p, whose status is not looked at, then mount.
MakeDir(point, n, next) ==
  /\ At(point)
  /\ \/ dir' = dir \cup {name[n]}
     \/ UNCHANGED dir
  /\ Goto(next)
  /\ UNCHANGED <<args, name, mounted, full, stock, refused, landed, signals>>

Mount(point, n, next) ==
  /\ At(point)
  /\ \/ /\ name[n] \in dir
        /\ mounted' = mounted \cup {name[n]}
        /\ Goto(next)
     \/ Exit /\ UNCHANGED mounted
  /\ UNCHANGED <<args, name, dir, full, stock, refused, landed, signals>>

MountDrives ==
  \/ MakeDir("mkusb", "USB", "mountusb")
  \/ Mount("mountusb", "USB", "deploy")
  \/ MakeDir("mk3", "P3", "mount3")
  \/ Mount("mount3", "P3", "mk4")
  \/ MakeDir("mk4", "P4", "mount4")
  \/ Mount("mount4", "P4", "checks")

\* The deploy directory is on the stick, or where the caller says.
There(f) ==
  /\ {"deploy", f} \subseteq stock
  /\ args = "none" => "ownusb" \in mounted

CheckDeploy ==
  /\ At("deploy")
  /\ \/ There("deploy") /\ Goto("formats")
     \/ ~There("deploy") /\ Exit
  /\ UNCHANGED <<args, name, files, stock, landed, signals>>

\* Five tests of directories and files; the modules are not among them.
CheckAll ==
  /\ At("checks")
  /\ LET Sound == /\ {name["P3"], name["P4"]} \subseteq dir
                  /\ There("image") /\ There("overlay")
     IN  \/ Sound /\ Goto("image")
         \/ ~Sound /\ Exit
  /\ UNCHANGED <<args, name, files, stock, landed, signals>>

-----------------------------------------------------------------------------
(* The copies.  The status of cp is not looked at: a copy that fails, be it *)
(* for want of its source or target or half way, is followed by the next.   *)

CopyTo(f, p, Onward) ==
  /\ At(f)
  /\ \/ UNCHANGED <<landed, full>>
     \/ /\ There(f) /\ p \in dir
        /\ \E whole \in BOOLEAN :
             landed' = landed \cup
               { [file |-> f, point |-> p, on |-> p \in mounted, whole |-> whole] }
        /\ full' = IF p \in mounted THEN full ELSE full \cup {p}
  /\ Onward
  /\ UNCHANGED <<args, name, dir, mounted, stock, refused, signals>>

Copies ==
  \/ CopyTo("image",   name["P3"], Goto("overlay"))
  \/ CopyTo("overlay", name["P4"], Goto("modules"))
  \/ CopyTo("modules", name["P4"], Exit)

DeployNext ==
  \/ SetNames \/ TakeArguments \/ MakePoints
  \/ CheckDevice \/ MountDrives \/ CheckDeploy \/ CheckFormats \/ CheckAll
  \/ Copies \/ End
  \/ CleanupStep \/ Signal

DeploySpec == DeployInit /\ [][DeployNext]_deployVars

-----------------------------------------------------------------------------
(* Properties.                                                             *)

\* With mount points of the script's own, whatever is copied lands on the
\* partition it is for and never in the directory below the mount, although
\* the script goes on copying after a signal has unmounted everything
\* (ssd_deploy.sh:58): cleanup removes the directory it has unmounted, and
\* cp has no target then.
FilesOnPartition ==
  args = "none" => \A c \in landed : c.on /\ c.point \in PointsFor(HomeOf(c.file)) \cap Own

\* When the script has ended, on whichever way and after whatever signals,
\* none of its mount points is mounted or left behind as a directory unless
\* the last umount of it was refused (ssd_deploy.sh:45-55).
NothingLeft ==
  step = "ended" => dir \cap Own \subseteq refused

=============================================================================
