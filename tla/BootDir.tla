-------------------------------- MODULE BootDir --------------------------------
(***************************************************************************)
(* The directory that `bxxt boot unpack' fills and `bxxt boot pack' reads, *)
(* and the output file, as values.                                         *)
(***************************************************************************)
EXTENDS BootLayout

CONSTANTS
  MaxDtb,       (* BOOT_MAX_DTB, and the 0xff of bxxt_boot_compile_fs2blob *)
  Unterminated  (* the attrs in which a string fills its field, so that no *)
                (* terminator fits behind it                               *)

ASSUME DirAssumption == MaxDtb \in Nat \ {0} /\ Unterminated \subseteq Nat

-----------------------------------------------------------------------------

(* A .dts file: the device tree it holds, or one of these.  bxxt_dtcc      *)
(* never closes the files it writes, so their text reaches the disk only   *)
(* when the process exits.                                                 *)
MISSING == -1
UNFLUSHED == -2
Dts == Nat \union {MISSING, UNFLUSHED}

DtIndex == 0..(MaxDtb - 1)
NoDts == [i \in DtIndex |-> MISSING]

Meta ==
  [header_version : Nat, page_size : Nat \ {0}, recovery_dtbo_offset : Nat,
   dtb_addr : Nat, attrs : Nat, kernel_compression : Compressions]

NoMeta ==
  [header_version |-> 0, page_size |-> 1, recovery_dtbo_offset |-> 0,
   dtb_addr |-> 0, attrs |-> 0, kernel_compression |-> NONE]

(* The directory.  An absent file and an empty one are both << >>: pack    *)
(* treats them alike.  `meta_ok' is FALSE while METADATA is absent or      *)
(* empty; `ramdisk' is the set of files under ramdisk/.                    *)
Dir ==
  [meta_ok : BOOLEAN, meta : Meta, kernel : Seq(Cell), second : Seq(Cell),
   recovery_dtbo : Seq(Cell), extra : Seq(Cell),
   kernel_dts : [DtIndex -> Dts], dt_dts : [DtIndex -> Dts],
   ramdisk_dir : BOOLEAN, ramdisk : SUBSET Nat]

EmptyDir ==
  [meta_ok |-> FALSE, meta |-> NoMeta, kernel |-> << >>, second |-> << >>,
   recovery_dtbo |-> << >>, extra |-> << >>,
   kernel_dts |-> NoDts, dt_dts |-> NoDts,
   ramdisk_dir |-> FALSE, ramdisk |-> {}]

NoOut == [st |-> "none", img |-> NoImage]

Out == [st : {"none", "torn", "whole"}, img : Image]

(* The fields pack needs can be read back.  A string that fills its field  *)
(* is printed together with what follows it in the header, and is refused  *)
(* as too long when METADATA is read.                                      *)
MetaReads(d) == d.meta_ok /\ d.meta.attrs \notin Unterminated

=============================================================================
