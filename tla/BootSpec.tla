-------------------------------- MODULE BootSpec --------------------------------
(***************************************************************************)
(* What `bxxt boot' promises, without its steps.  A directory is a value   *)
(* or Partial; unpack and pack are functions between images and            *)
(* directories, and each takes effect at one instant: the command's end.   *)
(* What may be seen of a command that has not ended is that its target is  *)
(* not whole.                                                              *)
(***************************************************************************)
EXTENDS BootDir, FiniteSets

CONSTANTS
  Images      (* the boot images the user may hold                         *)

VARIABLES
  boot,       (* the image file that is unpacked                           *)
  tree,       (* the directory                                             *)
  out,        (* the image file that pack writes                           *)
  cmd,        (* the command that runs, and its option                     *)
  ok,         (* the last command reported success                         *)
  clean,      (* the unpack that runs, or ran last, began in an empty      *)
              (* directory and all its writes succeeded                    *)
  faults      (* kills and failed calls so far                             *)

specvars == <<boot, tree, out, cmd, ok, clean, faults>>

Partial == [whole |-> FALSE, d |-> EmptyDir]
Whole(d) == [whole |-> TRUE, d |-> d]
Empty == Whole(EmptyDir)
Tree == [whole : BOOLEAN, d : Dir]
Idle == [op |-> "none", flag |-> FALSE]
Torn == [st |-> "torn", img |-> NoImage]

-----------------------------------------------------------------------------
(* The two functions.                                                      *)

(* The device tree at place j of a section is number i of it, from 0.      *)
IsTree(section, j, i) ==
  /\ IsDtb(section[j])
  /\ Cardinality({k \in 1..(j - 1) : IsDtb(section[k])}) = i

(* The .dts files of the device trees in a section, by their number.       *)
DtsOf(section) ==
  [i \in DtIndex |->
     IF \E j \in 1..Len(section) : IsTree(section, j, i)
     THEN section[CHOOSE j \in 1..Len(section) : IsTree(section, j, i)].id
     ELSE MISSING]

(* The kernel file: the gzip data the section starts with, unwrapped, or   *)
(* the section; nothing of an LZMA kernel.                                 *)
KernelFile(k) ==
  CASE bxxt_boot_detect_kernel_compression(k) = GZIP ->
         Gunzip(k, CHOOSE n \in 0..Len(k) : IsGzipRun(k, n))
    [] bxxt_boot_detect_kernel_compression(k) = NONE -> k
    [] OTHER -> << >>

(* The files of the archive: any layers of gzip or none, up to the first   *)
(* thing that is not an entry.                                             *)
FilesOf(r) ==
  {r[i].id : i \in {i \in 1..Len(r) :
    \A j \in 1..i : r[j].kind = "cpio" /\ r[j].z = r[1].z}}

UnpackOf(f) ==
  [meta_ok |-> TRUE,
   meta |-> [header_version |-> f.hdr.header_version, page_size |-> f.hdr.page_size,
             recovery_dtbo_offset |-> f.hdr.recovery_dtbo_offset,
             dtb_addr |-> f.hdr.dtb_addr, attrs |-> f.hdr.attrs,
             kernel_compression |-> bxxt_boot_detect_kernel_compression(KernelOf(f))],
   kernel |-> KernelFile(KernelOf(f)),
   second |-> SecondOf(f), recovery_dtbo |-> RecoveryDtboOf(f),
   extra |-> SubSeq(PadOf(f), 1,
               CHOOSE ts \in 0..Len(PadOf(f)) : IsTrimmedSize(PadOf(f), ts)),
   kernel_dts |-> DtsOf(KernelOf(f)), dt_dts |-> DtsOf(DtbOf(f)),
   ramdisk_dir |-> TRUE, ramdisk |-> FilesOf(RamdiskOf(f))]

(* The .dts files that are compiled: those before the first missing one.   *)
DtsRun(files) ==
  {i \in DtIndex : \A j \in 0..i : files[j] # MISSING}

DtbsOf(files) ==
  [i \in 1..Cardinality(DtsRun(files)) |-> MkCell("dtb", files[i - 1])]

(* The archive: the files in ascending order, gzipped.                     *)
ArchiveOf(files) ==
  [i \in 1..Cardinality(files) |->
     [MkCell("cpio", CHOOSE e \in files :
                       Cardinality({x \in files : x < e}) = i - 1) EXCEPT !.z = 1]]

KernelSection(d) ==
  (CASE d.meta.kernel_compression = GZIP -> Gzip(d.kernel)
     [] d.meta.kernel_compression = NONE -> d.kernel
     [] OTHER -> << >>) \o DtbsOf(d.kernel_dts)

(* The image of a directory: the header's page, then each section on pages *)
(* of its own; an absent section takes no page.  The id is that of the     *)
(* sections themselves, not of what is read back.                          *)
PackOf(d, skip) ==
  LET p == d.meta.page_size
      v == d.meta.header_version
      kernel == KernelSection(d)
      ramdisk == ArchiveOf(d.ramdisk)
      dtb == DtbsOf(d.dt_dts)
      extra == IF skip THEN << >> ELSE d.extra
      Page(s) == s \o Cells(AlignExtra(p, Len(s)), Zero)
  IN  [hdr |->
         [magic |-> TRUE, header_version |-> v, page_size |-> p,
          kernel_size |-> Len(kernel), ramdisk_size |-> Len(ramdisk),
          second_size |-> Len(d.second),
          recovery_dtbo_size |-> Len(d.recovery_dtbo), dtb_size |-> Len(dtb),
          recovery_dtbo_offset |-> d.meta.recovery_dtbo_offset % Word,
          dtb_addr |-> d.meta.dtb_addr % Word, attrs |-> d.meta.attrs,
          id |-> <<kernel, ramdisk, d.second>>
                   \o (IF v > 0 THEN <<d.recovery_dtbo>> ELSE << >>)
                   \o (IF v > 1 THEN <<dtb>> ELSE << >>)],
       data |-> Page(Cells(HdrSize, MkCell("hdr", 0))) \o Page(kernel)
                  \o Page(ramdisk) \o Page(d.second) \o Page(d.recovery_dtbo)
                  \o Page(dtb) \o Page(extra)]

(* The images that are unpacked and the directories that are packed.       *)
Readable(f) == bxxt_boot_img_version_check(f.hdr) /\ bxxt_boot_img_base_check(f.hdr)

Packable(d) ==
  /\ MetaReads(d) /\ d.kernel # << >> /\ d.ramdisk_dir
  /\ \A files \in {d.kernel_dts, d.dt_dts} :
       \A i \in DtsRun(files) : files[i] # UNFLUSHED

-----------------------------------------------------------------------------

SpecInit ==
  /\ boot \in Images /\ tree = Empty /\ out = NoOut
  /\ cmd = Idle /\ ok = FALSE /\ clean = FALSE /\ faults = 0

Begin(op, flag) ==
  /\ cmd = Idle /\ cmd' = [op |-> op, flag |-> flag]
  /\ ok' = FALSE
  /\ UNCHANGED <<boot, out, faults>>

End(success) == cmd' = Idle /\ ok' = success

UnpackBegins ==
  /\ \E force \in BOOLEAN : Begin("unpack", force)
  /\ tree' = Partial /\ clean' = (tree = Empty)

(* A write fails: unpack goes on, and what it leaves is not the image.     *)
WriteFails ==
  /\ cmd.op = "unpack" /\ Readable(boot)
  /\ faults' = faults + 1 /\ clean' = FALSE
  /\ UNCHANGED <<boot, tree, out, cmd, ok>>

(* The directory that a finished unpack leaves.                            *)
Unpacked ==
  /\ Readable(boot)
  /\ tree'.whole /\ tree'.d.meta_ok /\ tree'.d.meta = UnpackOf(boot).meta
  /\ clean => tree'.d = UnpackOf(boot)

UnpackEnds ==
  /\ cmd.op = "unpack" /\ End(TRUE) /\ Unpacked
  /\ UNCHANGED <<boot, out, clean, faults>>

(* Refused: an empty directory stays empty, any other loses its METADATA.  *)
UnpackRefused ==
  /\ cmd.op = "unpack" /\ End(FALSE)
  /\ ~Readable(boot) /\ tree' = IF clean THEN Empty ELSE Partial
  /\ UNCHANGED <<boot, out, clean, faults>>

UnpackKilled ==
  /\ cmd.op = "unpack" /\ End(FALSE) /\ faults' = faults + 1
  /\ tree' \in {Partial, Empty} \/ Unpacked
  /\ UNCHANGED <<boot, out, clean>>

PackBegins ==
  /\ \E skip \in BOOLEAN : Begin("pack", skip)
  /\ UNCHANGED <<tree, clean>>

(* The output is given up for the new image only when nothing that the     *)
(* directory holds can stop the command any more.                          *)
PackTruncates ==
  /\ cmd.op = "pack" /\ tree.whole /\ Packable(tree.d)
  /\ out' = Torn
  /\ UNCHANGED <<boot, tree, cmd, ok, clean, faults>>

PackEnds ==
  /\ cmd.op = "pack" /\ tree.whole /\ Packable(tree.d) /\ out = Torn
  /\ End(TRUE) /\ out' = [st |-> "whole", img |-> PackOf(tree.d, cmd.flag)]
  /\ UNCHANGED <<boot, tree, clean, faults>>

PackRefused ==
  /\ cmd.op = "pack" /\ ~(tree.whole /\ Packable(tree.d)) /\ End(FALSE)
  /\ UNCHANGED <<boot, tree, out, clean, faults>>

PackFails ==
  /\ cmd.op = "pack" /\ End(FALSE) /\ faults' = faults + 1
  /\ UNCHANGED <<boot, tree, out, clean>>

(* Between commands the user does anything to the directory, and may take  *)
(* a whole output for the next image.                                      *)
UserActs ==
  /\ cmd = Idle
  /\ tree' \in Tree
  /\ boot' = boot \/ (out.st = "whole" /\ boot' = out.img)
  /\ ok' = FALSE
  /\ UNCHANGED <<out, cmd, clean, faults>>

SpecNext ==
  \/ UnpackBegins \/ WriteFails \/ UnpackEnds \/ UnpackRefused \/ UnpackKilled
  \/ PackBegins \/ PackTruncates \/ PackEnds \/ PackRefused \/ PackFails
  \/ UserActs

BootSpec == SpecInit /\ [][SpecNext]_specvars

=============================================================================
