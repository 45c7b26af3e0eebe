---------------------------- MODULE MCImageBuild ----------------------------
(***************************************************************************)
(* The image build for TLC.  The user edits .config to one of the three    *)
(* defconfigs, or to one of riscv64 with hvisor's sources and the file to  *)
(* embed each in either of two directories: make_riscv64 and make_image    *)
(* take such a .config as it is.                                           *)
(***************************************************************************)
EXTENDS ImageBuild

MCConfigs ==
  { Defconfig(a) : a \in Arches } \cup
  [arch : {"riscv64"}, src : Dirs, path : { Output(d, "riscv64") : d \in Dirs }]
=============================================================================
