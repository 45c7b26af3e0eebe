---------------------------- MODULE BootServices ----------------------------
(***************************************************************************)
(* The UEFI boot services as the loader uses them (firmware, outside the   *)
(* repository): the memory map with its key, and the calls GetMemoryMap,   *)
(* AllocatePool and ExitBootServices.  A call is an operator giving the    *)
(* set of its possible responses; the caller takes one of them.  The       *)
(* firmware also acts on its own: an event callback or a driver may        *)
(* allocate or free memory at any time while boot services run, which      *)
(* changes the map and its key.                                            *)
(*                                                                         *)
(* Sizes of the memory map are counted in descriptors (desc_size bytes).   *)
(***************************************************************************)
EXTENDS Naturals

CONSTANTS
  MaxEntries,  \* bound: descriptors the firmware's map ever holds
  MaxKey       \* bound: changes of the map in one boot

ASSUME FirmwareBounds ==
  /\ MaxEntries \in Nat \ {0}
  /\ MaxKey \in Nat \ {0}

VARIABLES
  live,     \* boot services have not been exited
  entries,  \* descriptors in the current memory map
  key       \* key of the current memory map; 0 is never a key

firmware == <<live, entries, key>>

SUCCESS           == "EFI_SUCCESS"
BUFFER_TOO_SMALL  == "EFI_BUFFER_TOO_SMALL"
INVALID_PARAMETER == "EFI_INVALID_PARAMETER"
OUT_OF_RESOURCES  == "EFI_OUT_OF_RESOURCES"

Status == {SUCCESS, BUFFER_TOO_SMALL, INVALID_PARAMETER, OUT_OF_RESOURCES}

FirmwareTypeOK ==
  /\ live \in BOOLEAN
  /\ entries \in 1..MaxEntries
  /\ key \in 1..MaxKey

FirmwareInit ==
  /\ live = TRUE
  /\ entries \in 1..MaxEntries
  /\ key = 1

\* Any change of the memory map gives it a new key and any new length.
MapChanges ==
  /\ key < MaxKey
  /\ key' = key + 1
  /\ entries' \in 1..MaxEntries
  /\ UNCHANGED live

\* GetMemoryMap(&size, buffer, &mapKey): a buffer that is too small is told
\* the size it needs, and the caller's key may or may not be written; a
\* refused call writes nothing.
GetMemoryMap(size, mapKey) ==
  { [status |-> INVALID_PARAMETER, size |-> size, mapKey |-> mapKey] }
  \cup
  IF size < entries
  THEN { [status |-> BUFFER_TOO_SMALL, size |-> entries, mapKey |-> k]
            : k \in {mapKey, key} }
  ELSE { [status |-> SUCCESS, size |-> entries, mapKey |-> key] }

\* AllocatePool either serves the request, possibly by changing the map, or
\* fails and leaves the caller's pointer alone.
AllocatePoolServed == MapChanges \/ UNCHANGED firmware
AllocatePoolFailed == UNCHANGED firmware

\* ExitBootServices succeeds exactly when given the current key.
ExitStatus(mapKey) == IF mapKey = key THEN SUCCESS ELSE INVALID_PARAMETER

ExitBootServices(mapKey) ==
  /\ live' = (ExitStatus(mapKey) # SUCCESS)
  /\ UNCHANGED <<entries, key>>

\* The firmware acts on its own between any two steps of the loader.
FirmwareEvent == live /\ MapChanges
=============================================================================
