---------------------------- MODULE ExitHandshake ----------------------------
(***************************************************************************)
(* exit_boot_services of main/core.c, with the firmware it talks to: ask   *)
(* for the size of the memory map, allocate a buffer with room for Slack   *)
(* more descriptors, read the map with its key, and exit boot services     *)
(* with that key.  Every call is a step of its own, so the firmware may    *)
(* change the map between any two of them.                                 *)
(***************************************************************************)
EXTENDS BootServices

CONSTANT Slack   \* descriptors of room added to the first answer (20)

ASSUME SlackAssumption == Slack \in Nat

VARIABLES
  ebs,              \* control point inside exit_boot_services
  status,           \* the local status
  memory_map_size,
  map_key,
  memory_map_desc,  \* is the buffer pointer non-NULL
  \* history
  asked,            \* map length the first call reported
  got,              \* status of the second GetMemoryMap
  changed           \* the map has changed since the second GetMemoryMap

loader  == <<ebs, status, memory_map_size, map_key, memory_map_desc>>
history == <<asked, got, changed>>
hsVars  == <<firmware, loader, history>>

EbsPoint == {"idle", "get_size", "check_size", "alloc", "get_map", "exit",
             "returned", "halted"}

HandshakeTypeOK ==
  /\ FirmwareTypeOK
  /\ ebs \in EbsPoint
  /\ status \in Status
  /\ memory_map_size \in Nat
  /\ map_key \in 0..MaxKey
  /\ memory_map_desc \in BOOLEAN
  /\ asked \in 0..MaxEntries
  /\ got \in Status
  /\ changed \in BOOLEAN

HandshakeInit ==
  /\ FirmwareInit
  /\ ebs = "idle"
  /\ status = SUCCESS
  /\ memory_map_size = 0
  /\ map_key = 0
  /\ memory_map_desc = FALSE
  /\ asked = 0
  /\ got = SUCCESS
  /\ changed = FALSE

-----------------------------------------------------------------------------
\* The function is entered: the statics are reset.
Call ==
  /\ ebs = "idle"
  /\ ebs' = "get_size"
  /\ memory_map_size' = 0
  /\ memory_map_desc' = FALSE
  /\ UNCHANGED <<firmware, status, map_key, history>>

\* First GetMemoryMap, with a zero size and a NULL buffer.
GetSize ==
  /\ ebs = "get_size"
  /\ \E r \in GetMemoryMap(memory_map_size, map_key) :
       /\ status' = r.status
       /\ memory_map_size' = r.size
       /\ map_key' = r.mapKey
       /\ asked' = r.size
  /\ ebs' = "check_size"
  /\ UNCHANGED <<firmware, memory_map_desc, got, changed>>

\* check(status, ..., EFI_BUFFER_TOO_SMALL, ...): any other status leads to
\* failed; otherwise the allocation is made for size descriptors.
CheckSizeWith(failed, size) ==
  /\ ebs = "check_size"
  /\ \/ /\ status # BUFFER_TOO_SMALL
        /\ ebs' = failed
        /\ UNCHANGED memory_map_size
     \/ /\ status = BUFFER_TOO_SMALL
        /\ ebs' = "alloc"
        /\ memory_map_size' = size
  /\ UNCHANGED <<firmware, status, map_key, memory_map_desc, history>>

\* Mutants: no room is added, an unexpected status is answered by asking again.
CheckSizeNoSlack == CheckSizeWith("halted", memory_map_size)
CheckSizeRetried == CheckSizeWith("get_size", memory_map_size + Slack)

\* An unexpected status halts; the size is enlarged by Slack descriptors.
CheckSize == CheckSizeWith("halted", memory_map_size + Slack)

\* AllocatePool; the pointer, not the status, is tested.
Allocate ==
  /\ ebs = "alloc"
  /\ \/ /\ AllocatePoolServed
        /\ status' = SUCCESS
        /\ memory_map_desc' = TRUE
     \/ /\ AllocatePoolFailed
        /\ status' = OUT_OF_RESOURCES
        /\ UNCHANGED memory_map_desc
  /\ ebs' = IF memory_map_desc' THEN "get_map" ELSE "halted"
  /\ UNCHANGED <<memory_map_size, map_key, history>>

\* Second GetMemoryMap; its status is not looked at.
GetMap ==
  /\ ebs = "get_map"
  /\ \E r \in GetMemoryMap(memory_map_size, map_key) :
       /\ status' = r.status
       /\ memory_map_size' = r.size
       /\ map_key' = r.mapKey
       /\ got' = r.status
  /\ changed' = FALSE
  /\ ebs' = "exit"
  /\ UNCHANGED <<firmware, memory_map_desc, asked>>

\* ExitBootServices with the key just read; its status is returned.
ExitTo(point) ==
  /\ ebs = "exit"
  /\ ExitBootServices(map_key)
  /\ status' = ExitStatus(map_key)
  /\ ebs' = point
  /\ UNCHANGED <<memory_map_size, map_key, memory_map_desc, history>>

\* Mutant: the status is checked against the wrong value, so success halts.
ExitMischecked ==
  ExitTo(IF ExitStatus(map_key) = SUCCESS THEN "halted" ELSE "returned")

Exit == ExitTo("returned")

\* The firmware changes the map while the loader is at any point.
Event ==
  /\ FirmwareEvent
  /\ changed' = TRUE
  /\ UNCHANGED <<loader, asked, got>>

HandshakeStep == GetSize \/ CheckSize \/ Allocate \/ GetMap \/ Exit

HandshakeNext == Call \/ HandshakeStep \/ Event

HandshakeSpec == HandshakeInit /\ [][HandshakeNext]_hsVars

-----------------------------------------------------------------------------
(* Boot services survive the handshake for one of three reasons only: the  *)
(* map changed between the second GetMemoryMap and ExitBootServices (the   *)
(* comment at core.c:189-190), that call was refused, or the map had grown *)
(* by more than the Slack descriptors of room core.c:180 adds.             *)
FailureExplained ==
  ebs = "returned" /\ live =>
    \/ changed
    \/ got = INVALID_PARAMETER
    \/ got = BUFFER_TOO_SMALL /\ memory_map_size > asked + Slack
=============================================================================
