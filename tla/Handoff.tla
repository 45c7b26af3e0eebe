------------------------------- MODULE Handoff -------------------------------
(***************************************************************************)
(* What the packer promises the machine it boots, without saying how: the  *)
(* images are put in memory, the firmware's boot services are exited, and  *)
(* hvisor is entered.  The firmware may refuse to let its services go; the *)
(* loader enters hvisor all the same.  A failure found early halts the     *)
(* machine instead.                                                        *)
(***************************************************************************)

VARIABLES
  running,   \* who runs: the loader, hvisor, or nobody
  services,  \* the firmware's boot services are available
  loaded     \* every image is whole at its load address

vars == <<running, services, loaded>>

TypeOK ==
  /\ running \in {"loader", "hvisor", "halted"}
  /\ services \in BOOLEAN
  /\ loaded \in BOOLEAN

Init ==
  /\ running = "loader"
  /\ services = TRUE
  /\ loaded = FALSE

Place ==
  /\ running = "loader"
  /\ services
  /\ ~loaded
  /\ loaded' = TRUE
  /\ UNCHANGED <<running, services>>

LeaveServices ==
  /\ running = "loader"
  /\ loaded
  /\ services
  /\ services' = FALSE
  /\ UNCHANGED <<running, loaded>>

Halt ==
  /\ running = "loader"
  /\ services
  /\ running' = "halted"
  /\ UNCHANGED <<services, loaded>>

Start ==
  /\ running = "loader"
  /\ loaded
  /\ running' = "hvisor"
  /\ UNCHANGED <<services, loaded>>

Next == Place \/ LeaveServices \/ Halt \/ Start

Spec == Init /\ [][Next]_vars /\ WF_vars(Place \/ Start)
=============================================================================
