----------------------------- MODULE BootRefinement -----------------------------
(***************************************************************************)
(* The steps of bxxt_boot_unpack_all and bxxt_boot_pack_all implement the  *)
(* two functions of BootSpec.                                              *)
(***************************************************************************)
EXTENDS BootImage

(* While unpack runs, and after one that did not reach its end, the        *)
(* directory is no value.                                                  *)
TreeOf ==
  IF pc \notin UnpackPc /\ (hist.complete \/ dir = EmptyDir)
  THEN [whole |-> TRUE, d |-> dir]
  ELSE [whole |-> FALSE, d |-> EmptyDir]

CmdOf ==
  CASE pc \in UnpackPc -> [op |-> "unpack", flag |-> opts.force]
    [] pc \in PackPc -> [op |-> "pack", flag |-> opts.skip]
    [] OTHER -> [op |-> "none", flag |-> FALSE]

Abs == INSTANCE BootSpec WITH
  tree <- TreeOf, cmd <- CmdOf,
  ok <- (exit.how = "return" /\ exit.r = SUCCESS),
  clean <- hist.fresh, faults <- used.faults

(* The commands of boot.c, step by step, do what BootSpec says: an unpack  *)
(* into an empty directory that met no error leaves exactly the image's    *)
(* directory, pack makes exactly the directory's image or, for a reason    *)
(* that lies in the directory or a fault, refuses; a half-unpacked         *)
(* directory is never packed and the old output is given up only at the    *)
(* very end.                                                               *)
ImplementsSpec == Abs!BootSpec

=============================================================================
