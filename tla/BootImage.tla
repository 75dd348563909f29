------------------------------- MODULE BootImage -------------------------------
(***************************************************************************)
(* `bxxt boot': unpacking a boot image into a directory, the user's edits  *)
(* of that directory, and packing it into a new image.                     *)
(*                                                                         *)
(* One action per step of bxxt_boot_unpack_all and bxxt_boot_pack_all that *)
(* touches a file, and one per iteration of their loops.  The process may  *)
(* be killed between any two steps and a write to the disk may fail.       *)
(***************************************************************************)
EXTENDS BootDir, FiniteSets

CONSTANTS
  Images,     (* the boot images the user may hold                         *)
  ExitMod,    (* 2^8: what a shell sees of main's return value             *)
  PageSizes,  (* page sizes the user may write into METADATA               *)
  NewId,      (* names the content of a file the user adds or replaces     *)
  MaxRuns, MaxEdits, MaxFaults   (* bounds: commands, edits, I/O errors    *)

(* What bxxt_boot_init1 relies on and does not check: the header fits its  *)
(* page, the sections lie within the file, and the device trees fit the    *)
(* tables of bxxt_boot_t.                                                  *)
WellFormed(f) ==
  /\ f \in Image
  /\ f.hdr.page_size >= HdrSize
  /\ B_PAD_o(f.hdr) <= Len(f.data)
  /\ \A section \in {KernelOf(f), DtbOf(f)} :
       Cardinality({i \in 1..Len(section) : IsDtb(section[i])}) <= MaxDtb

ASSUME BootAssumption ==
  /\ \A f \in Images : WellFormed(f)
  /\ NewId \in Nat
  /\ PageSizes \subseteq Nat \ {0}
  /\ \A ps \in PageSizes : ps >= HdrSize
  /\ MaxRuns \in Nat /\ MaxEdits \in Nat /\ MaxFaults \in Nat
  /\ ExitMod \in Nat \ {0} /\ (-25) % ExitMod # 0

VARIABLES
  boot,    (* the image file that is unpacked                              *)
  dir,     (* the directory                                                *)
  out,     (* the image file that pack writes                              *)
  pc,      (* where the process is; "idle" when none runs                  *)
  opts,    (* force_no_compat_check and skip_unknown_data                  *)
  b,       (* bxxt_boot_t of the unpacker                                  *)
  cur,     (* loop counter, and the buffer `tmp' of the packer             *)
  img,     (* the packer's image in memory                                 *)
  exit,    (* the last command and how it ended                            *)
  used,    (* commands, edits and I/O errors so far                        *)
  hist     (* history variable: only the properties read it                *)

disk == <<boot, dir, out>>
mem  == <<b, cur, img>>
vars == <<boot, dir, out, pc, opts, b, cur, img, exit, used, hist>>

-----------------------------------------------------------------------------

SUCCESS == 0
FAILED == -25

NoB   == [pad_size |-> 0, kernel_dtb |-> << >>, dtb |-> << >>]
NoCur == [base |-> 0, tmp |-> << >>, todo |-> {}]
NoExit == [op |-> "none", how |-> "none", r |-> 0]

(* What pack appended as each section.                                     *)
NoParts == [kernel |-> << >>, ramdisk |-> << >>, second |-> << >>,
            recovery_dtbo |-> << >>, dtb |-> << >>]

(* fresh: this unpack began in an empty directory and met no I/O error.    *)
(* complete: the last unpack into the directory ran to its end.            *)
(* from: the image the directory holds, unedited.  recipe: how the user    *)
(* replaced the kernel.  parts, made_...: of the image being or last made. *)
(* before: the output file when this command began.  packed: boot was made *)
(* by pack.                                                                *)
NoHist ==
  [fresh |-> FALSE, complete |-> FALSE, from |-> NoImage, recipe |-> "none",
   parts |-> NoParts, before |-> NoOut, packed |-> FALSE,
   made_from |-> NoImage, made_complete |-> FALSE, made_packed |-> FALSE]

UnpackPc ==
  {"u_open", "u_scan_kernel", "u_scan_dtb", "u_kernel", "u_recovery_dtbo",
   "u_second", "u_extra", "u_kernel_dts", "u_dt_dts", "u_mkdir", "u_ramdisk",
   "u_meta", "u_exit"}

PackPc ==
  {"p_meta", "p_kernel", "p_kernel_dts", "p_ramdisk", "p_cpio", "p_second",
   "p_recovery_dtbo", "p_dtb", "p_extra", "p_check", "p_write", "p_writing"}

Init ==
  /\ boot \in Images
  /\ dir = EmptyDir /\ out = NoOut
  /\ pc = "idle" /\ opts = [force |-> FALSE, skip |-> FALSE]
  /\ b = NoB /\ cur = NoCur /\ img = NoImage
  /\ exit = NoExit
  /\ used = [runs |-> 0, edits |-> 0, faults |-> 0]
  /\ hist = NoHist

(* The process ends: by a return through main, by die() in the device tree *)
(* compiler, or killed.  Its memory is gone.                               *)
Leave(how, r) ==
  /\ pc' = "idle"
  /\ exit' = [exit EXCEPT !.how = how, !.r = r]
  /\ b' = NoB /\ cur' = NoCur /\ img' = NoImage

Goto(label) ==
  /\ pc' = label
  /\ UNCHANGED exit

-----------------------------------------------------------------------------
(* Unpacking.                                                              *)

(* Mutant: METADATA is left as it was until it is written.                 *)
Mut_UnpackStart(force) ==
  /\ pc = "idle" /\ used.runs < MaxRuns
  /\ used' = [used EXCEPT !.runs = @ + 1]
  /\ opts' = [force |-> force, skip |-> FALSE]
  /\ pc' = "u_open"
  /\ exit' = [op |-> "unpack", how |-> "running", r |-> 0]
  /\ hist' = [hist EXCEPT !.fresh = (dir = EmptyDir), !.complete = FALSE,
                          !.from = NoImage, !.recipe = "none", !.before = out]
  /\ UNCHANGED <<disk, mem>>

(* boot_main, then fopen(METADATA, "wb"): METADATA is emptied first.       *)
UnpackStart(force) ==
  /\ pc = "idle" /\ used.runs < MaxRuns
  /\ used' = [used EXCEPT !.runs = @ + 1]
  /\ opts' = [force |-> force, skip |-> FALSE]
  /\ pc' = "u_open"
  /\ exit' = [op |-> "unpack", how |-> "running", r |-> 0]
  /\ dir' = [dir EXCEPT !.meta_ok = FALSE, !.meta = NoMeta]
  /\ hist' = [hist EXCEPT !.fresh = (dir = EmptyDir), !.complete = FALSE,
                          !.from = NoImage, !.recipe = "none", !.before = out]
  /\ UNCHANGED <<boot, out, mem>>

(* bxxt_boot_open_file.  The caller passes force_no_compat_check as        *)
(* bxxt_boot_init1's `check'.                                              *)
bxxt_boot_open_file(f, force) == bxxt_boot_init1(f, force, force)

UnpackOpen ==
  /\ pc = "u_open"
  /\ \/ /\ ~bxxt_boot_open_file(boot, opts.force)
        /\ Leave("return", FAILED)
     \/ /\ bxxt_boot_open_file(boot, opts.force)
        /\ \E ts \in 0..Len(PadOf(boot)) :
             /\ IsTrimmedSize(PadOf(boot), ts)
             /\ b' = [b EXCEPT !.pad_size = ts]
        /\ Goto("u_scan_kernel")
        /\ UNCHANGED <<cur, img>>
  /\ UNCHANGED <<disk, opts, used, hist>>

(* bxxt_boot_parse_dtb_sections: memmem finds the next device tree at or   *)
(* after the cursor, and the cursor moves past it.                         *)
IsNextDtb(section, base, i) ==
  /\ i \in (base + 1)..Len(section)
  /\ IsDtb(section[i])
  /\ \A j \in (base + 1)..(i - 1) : ~IsDtb(section[j])

NoMoreDtb(section, base) ==
  \A i \in (base + 1)..Len(section) : ~IsDtb(section[i])

UnpackScanKernel ==
  /\ pc = "u_scan_kernel"
  /\ \/ \E i \in 1..Len(KernelOf(boot)) :
          /\ IsNextDtb(KernelOf(boot), cur.base, i)
          /\ b' = [b EXCEPT !.kernel_dtb = Append(@, KernelOf(boot)[i].id)]
          /\ cur' = [cur EXCEPT !.base = i]
          /\ Goto("u_scan_kernel")
     \/ /\ NoMoreDtb(KernelOf(boot), cur.base)
        /\ cur' = NoCur
        /\ Goto("u_scan_dtb")
        /\ UNCHANGED b
  /\ UNCHANGED <<disk, opts, img, used, hist>>

UnpackScanDtb ==
  /\ pc = "u_scan_dtb"
  /\ \/ \E i \in 1..Len(DtbOf(boot)) :
          /\ IsNextDtb(DtbOf(boot), cur.base, i)
          /\ b' = [b EXCEPT !.dtb = Append(@, DtbOf(boot)[i].id)]
          /\ cur' = [cur EXCEPT !.base = i]
          /\ Goto("u_scan_dtb")
     \/ /\ NoMoreDtb(DtbOf(boot), cur.base)
        /\ cur' = NoCur
        /\ Goto("u_kernel")
        /\ UNCHANGED b
  /\ UNCHANGED <<disk, opts, img, used, hist>>

(* n of len cells reach the disk.  unpack ignores what the write returned. *)
DiskWrite(n, len) ==
  \/ n = len /\ UNCHANGED <<used, hist>>
  \/ /\ n < len /\ used.faults < MaxFaults
     /\ used' = [used EXCEPT !.faults = @ + 1]
     /\ hist' = [hist EXCEPT !.fresh = FALSE]

(* A file opened without O_TRUNC keeps what lies beyond the new content.   *)
WriteOver(old, new) == new \o SubSeq(old, Len(new) + 1, Len(old))

(* Mutant: the whole section is taken for gzip.                            *)
Mut_IsDecoded(section, n) == n = Len(section)

(* bxxt_boot_decompress_to_file.  LZMA needs a program the build and the   *)
(* device lack: nothing is decoded.                                        *)
IsDecoded(section, n) ==
  CASE bxxt_boot_detect_kernel_compression(section) = GZIP -> IsGzipRun(section, n)
    [] bxxt_boot_detect_kernel_compression(section) = NONE -> n = Len(section)
    [] OTHER -> n = 0

Decoded(section, n) ==
  IF bxxt_boot_detect_kernel_compression(section) = GZIP
  THEN Gunzip(section, n) ELSE SubSeq(section, 1, n)

UnpackKernel ==
  /\ pc = "u_kernel"
  /\ \E n \in 0..Len(KernelOf(boot)) : \E got \in 0..n :
       /\ IsDecoded(KernelOf(boot), n)
       /\ DiskWrite(got, n)
       /\ dir' = [dir EXCEPT !.kernel =
                    WriteOver(@, SubSeq(Decoded(KernelOf(boot), n), 1, got))]
  /\ Goto("u_recovery_dtbo")
  /\ UNCHANGED <<boot, out, opts, mem>>

(* bxxt_boot_write_to of the sections that are not empty.                  *)
UnpackRecoveryDtbo ==
  /\ pc = "u_recovery_dtbo"
  /\ \/ /\ boot.hdr.recovery_dtbo_size # 0
        /\ \E got \in 0..boot.hdr.recovery_dtbo_size :
             /\ DiskWrite(got, boot.hdr.recovery_dtbo_size)
             /\ dir' = [dir EXCEPT !.recovery_dtbo = SubSeq(RecoveryDtboOf(boot), 1, got)]
     \/ boot.hdr.recovery_dtbo_size = 0 /\ UNCHANGED <<dir, used, hist>>
  /\ Goto("u_second")
  /\ UNCHANGED <<boot, out, opts, mem>>

UnpackSecond ==
  /\ pc = "u_second"
  /\ \/ /\ boot.hdr.second_size # 0
        /\ \E got \in 0..boot.hdr.second_size :
             /\ DiskWrite(got, boot.hdr.second_size)
             /\ dir' = [dir EXCEPT !.second = SubSeq(SecondOf(boot), 1, got)]
     \/ boot.hdr.second_size = 0 /\ UNCHANGED <<dir, used, hist>>
  /\ Goto("u_extra")
  /\ UNCHANGED <<boot, out, opts, mem>>

UnpackExtra ==
  /\ pc = "u_extra"
  /\ \/ /\ b.pad_size # 0
        /\ \E got \in 0..b.pad_size :
             /\ DiskWrite(got, b.pad_size)
             /\ dir' = [dir EXCEPT !.extra = SubSeq(PadOf(boot), 1, got)]
     \/ b.pad_size = 0 /\ UNCHANGED <<dir, used, hist>>
  /\ Goto("u_kernel_dts")
  /\ UNCHANGED <<boot, out, opts, mem>>

(* Mutant: the loop counter is not advanced.                               *)
Mut_UnpackKernelDts ==
  /\ pc = "u_kernel_dts"
  /\ \/ /\ cur.base < Len(b.kernel_dtb)
        /\ dir' = [dir EXCEPT !.kernel_dts[cur.base] = UNFLUSHED]
        /\ Goto("u_kernel_dts")
        /\ UNCHANGED cur
     \/ /\ cur.base = Len(b.kernel_dtb)
        /\ cur' = NoCur
        /\ Goto("u_dt_dts")
        /\ UNCHANGED dir
  /\ UNCHANGED <<boot, out, opts, b, img, used, hist>>

(* bxxt_boot_decompile_dt2fs, one file per step.                           *)
UnpackKernelDts ==
  /\ pc = "u_kernel_dts"
  /\ \/ /\ cur.base < Len(b.kernel_dtb)
        /\ dir' = [dir EXCEPT !.kernel_dts[cur.base] = UNFLUSHED]
        /\ cur' = [cur EXCEPT !.base = @ + 1]
        /\ Goto("u_kernel_dts")
     \/ /\ cur.base = Len(b.kernel_dtb)
        /\ cur' = NoCur
        /\ Goto("u_dt_dts")
        /\ UNCHANGED dir
  /\ UNCHANGED <<boot, out, opts, b, img, used, hist>>

UnpackDtDts ==
  /\ pc = "u_dt_dts"
  /\ \/ /\ cur.base < Len(b.dtb)
        /\ dir' = [dir EXCEPT !.dt_dts[cur.base] = UNFLUSHED]
        /\ cur' = [cur EXCEPT !.base = @ + 1]
        /\ Goto("u_dt_dts")
     \/ /\ cur.base = Len(b.dtb)
        /\ cur' = NoCur
        /\ Goto("u_mkdir")
        /\ UNCHANGED dir
  /\ UNCHANGED <<boot, out, opts, b, img, used, hist>>

UnpackMkdir ==
  /\ pc = "u_mkdir"
  /\ dir' = [dir EXCEPT !.ramdisk_dir = TRUE]
  /\ Goto("u_ramdisk")
  /\ UNCHANGED <<boot, out, opts, mem, used, hist>>

(* bxxt_cpio_archive_in: any layers of gzip or none; the loop ends at the  *)
(* end of the archive or at the first header that is not cpio.             *)
IsCpioEntry(section, i) ==
  /\ i <= Len(section)
  /\ section[i].kind = "cpio"
  /\ section[i].z = section[1].z

UnpackRamdisk ==
  /\ pc = "u_ramdisk"
  /\ LET section == RamdiskOf(boot)
         i == cur.base + 1
     IN  \/ /\ IsCpioEntry(section, i)
            /\ dir' = [dir EXCEPT !.ramdisk = @ \union {section[i].id}]
            /\ cur' = [cur EXCEPT !.base = i]
            /\ Goto("u_ramdisk")
         \/ /\ ~IsCpioEntry(section, i)
            /\ cur' = NoCur
            /\ Goto("u_meta")
            /\ UNCHANGED dir
  /\ UNCHANGED <<boot, out, opts, b, img, used, hist>>

(* Mutant: METADATA does not record how the kernel was compressed.         *)
Mut_MetaOf(f) ==
  [header_version |-> f.hdr.header_version, page_size |-> f.hdr.page_size,
   recovery_dtbo_offset |-> f.hdr.recovery_dtbo_offset,
   dtb_addr |-> f.hdr.dtb_addr, attrs |-> f.hdr.attrs,
   kernel_compression |-> GZIP]

(* bxxt_boot_print_meta_info_file and the fclose that flushes it.          *)
MetaOf(f) ==
  [header_version |-> f.hdr.header_version, page_size |-> f.hdr.page_size,
   recovery_dtbo_offset |-> f.hdr.recovery_dtbo_offset,
   dtb_addr |-> f.hdr.dtb_addr, attrs |-> f.hdr.attrs,
   kernel_compression |-> bxxt_boot_detect_kernel_compression(KernelOf(f))]

UnpackMeta ==
  /\ pc = "u_meta"
  /\ dir' = [dir EXCEPT !.meta_ok = TRUE, !.meta = MetaOf(boot)]
  /\ hist' = [hist EXCEPT !.complete = (b.kernel_dtb = << >> /\ b.dtb = << >>)]
  /\ Goto("u_exit")
  /\ UNCHANGED <<boot, out, opts, mem, used>>

(* main returns, and exit() flushes the .dts files left open.              *)
Flushed(files, dtb) ==
  [i \in DtIndex |-> IF i < Len(dtb) THEN dtb[i + 1] ELSE files[i]]

UnpackExit ==
  /\ pc = "u_exit"
  /\ dir' = [dir EXCEPT !.kernel_dts = Flushed(@, b.kernel_dtb),
                        !.dt_dts = Flushed(@, b.dtb)]
  /\ hist' = [hist EXCEPT !.complete = TRUE,
                          !.from = IF hist.fresh THEN boot ELSE NoImage]
  /\ Leave("return", SUCCESS)
  /\ UNCHANGED <<boot, out, opts, used>>

-----------------------------------------------------------------------------
(* Packing.                                                                *)

(* Mutant: the output file is opened, and emptied, before anything else.   *)
Mut_PackStart(skip) ==
  /\ pc = "idle" /\ used.runs < MaxRuns
  /\ used' = [used EXCEPT !.runs = @ + 1]
  /\ opts' = [force |-> FALSE, skip |-> skip]
  /\ pc' = "p_meta"
  /\ exit' = [op |-> "pack", how |-> "running", r |-> 0]
  /\ hist' = [hist EXCEPT !.before = out]
  /\ out' = [st |-> "torn", img |-> NoImage]
  /\ UNCHANGED <<boot, dir, mem>>

PackStart(skip) ==
  /\ pc = "idle" /\ used.runs < MaxRuns
  /\ used' = [used EXCEPT !.runs = @ + 1]
  /\ opts' = [force |-> FALSE, skip |-> skip]
  /\ pc' = "p_meta"
  /\ exit' = [op |-> "pack", how |-> "running", r |-> 0]
  /\ hist' = [hist EXCEPT !.before = out]
  /\ UNCHANGED <<disk, mem>>

(* bxxt_boot_hdr_from_metadata.  The "%x" that reads a field stores an     *)
(* unsigned int, also where the field has 64 bits.                         *)
bxxt_boot_hdr_from_metadata(meta) ==
  [magic |-> TRUE, header_version |-> meta.header_version,
   page_size |-> meta.page_size, kernel_size |-> 0, ramdisk_size |-> 0,
   second_size |-> 0, recovery_dtbo_size |-> 0, dtb_size |-> 0,
   recovery_dtbo_offset |-> meta.recovery_dtbo_offset % Word,
   dtb_addr |-> meta.dtb_addr % Word, attrs |-> meta.attrs, id |-> << >>]

PackMeta ==
  /\ pc = "p_meta"
  /\ \/ ~MetaReads(dir) /\ Leave("return", FAILED) /\ UNCHANGED hist
     \/ /\ MetaReads(dir)
        /\ img' = [hdr |-> bxxt_boot_hdr_from_metadata(dir.meta),
                   data |-> bxxt_buffer_align(Cells(HdrSize, MkCell("hdr", 0)),
                                              dir.meta.page_size)]
        /\ hist' = [hist EXCEPT !.parts = NoParts]
        /\ Goto("p_kernel")
        /\ UNCHANGED <<b, cur>>
  /\ UNCHANGED <<disk, opts, used>>

(* Mutant: kernel_compression of METADATA is not honoured.                 *)
Mut_Compressed(content, compression) == Gzip(content)

(* bxxt_boot_compress_from_file.                                           *)
Compressed(content, compression) ==
  CASE compression = GZIP -> Gzip(content)
    [] compression = NONE -> content
    [] OTHER -> << >>

PackKernel ==
  /\ pc = "p_kernel"
  /\ \/ dir.kernel = << >> /\ Leave("return", FAILED)
     \/ /\ dir.kernel # << >>
        /\ cur' = [NoCur EXCEPT !.tmp = Compressed(dir.kernel, dir.meta.kernel_compression)]
        /\ Goto("p_kernel_dts")
        /\ UNCHANGED <<b, img>>
  /\ UNCHANGED <<disk, opts, used, hist>>

(* Mutant: the loop stops one file short of the table.                     *)
Mut_LastDts(files, i) == i < MaxDtb - 1 => files[i] = MISSING

(* bxxt_boot_compile_fs2blob: the .dts files in order up to the first that *)
(* is missing.  A file the compiler cannot parse ends the process.         *)
LastDts(files, i) == i < MaxDtb => files[i] = MISSING
BadDts(files, i)  == i < MaxDtb /\ files[i] = UNFLUSHED
GoodDts(files, i) == i < MaxDtb /\ files[i] \notin {MISSING, UNFLUSHED}

CompileDts(files) ==
  /\ \/ BadDts(files, cur.base) /\ Leave("die", 1)
     \/ /\ GoodDts(files, cur.base)
        /\ cur' = [cur EXCEPT !.base = @ + 1,
                              !.tmp = Append(@, MkCell("dtb", files[cur.base]))]
        /\ UNCHANGED <<pc, exit, b, img>>
  /\ UNCHANGED <<disk, opts, used, hist>>

PackCompileKernelDts == pc = "p_kernel_dts" /\ CompileDts(dir.kernel_dts)

(* The new header field and pad_data, in one.                              *)
AddSection(hdr, section) ==
  img' = [hdr |-> hdr, data |-> pad_data(img.data, section, hdr.page_size)]

PackAddKernel ==
  /\ pc = "p_kernel_dts" /\ LastDts(dir.kernel_dts, cur.base)
  /\ AddSection([img.hdr EXCEPT !.kernel_size = Len(cur.tmp)], cur.tmp)
  /\ hist' = [hist EXCEPT !.parts.kernel = cur.tmp]
  /\ cur' = NoCur
  /\ Goto("p_ramdisk")
  /\ UNCHANGED <<disk, opts, b, used>>

PackRamdisk ==
  /\ pc = "p_ramdisk"
  /\ \/ ~dir.ramdisk_dir /\ Leave("return", FAILED)
     \/ /\ dir.ramdisk_dir
        /\ cur' = [NoCur EXCEPT !.todo = dir.ramdisk]
        /\ Goto("p_cpio")
        /\ UNCHANGED <<b, img>>
  /\ UNCHANGED <<disk, opts, used, hist>>

(* Mutant: the entries are archived in the order readdir returns them.     *)
Mut_PackCpioEntry ==
  /\ pc = "p_cpio"
  /\ \E e \in cur.todo :
       cur' = [cur EXCEPT !.todo = @ \ {e},
                          !.tmp = Append(@, [MkCell("cpio", e) EXCEPT !.z = 1])]
  /\ Goto("p_cpio")
  /\ UNCHANGED <<disk, opts, b, img, used, hist>>

(* bxxt_cpio_archive_out: the files in sorted order, gzipped.              *)
PackCpioEntry ==
  /\ pc = "p_cpio"
  /\ \E e \in cur.todo :
       /\ \A other \in cur.todo : e <= other
       /\ cur' = [cur EXCEPT !.todo = @ \ {e},
                             !.tmp = Append(@, [MkCell("cpio", e) EXCEPT !.z = 1])]
  /\ Goto("p_cpio")
  /\ UNCHANGED <<disk, opts, b, img, used, hist>>

PackAddRamdisk ==
  /\ pc = "p_cpio" /\ cur.todo = {}
  /\ AddSection([img.hdr EXCEPT !.ramdisk_size = Len(cur.tmp)], cur.tmp)
  /\ hist' = [hist EXCEPT !.parts.ramdisk = cur.tmp]
  /\ cur' = NoCur
  /\ Goto("p_second")
  /\ UNCHANGED <<disk, opts, b, used>>

(* Mutant: second_size is not stored in the header.                        *)
Mut_PackSecond ==
  /\ pc = "p_second"
  /\ \/ /\ dir.second # << >>
        /\ AddSection(img.hdr, dir.second)
        /\ hist' = [hist EXCEPT !.parts.second = dir.second]
     \/ dir.second = << >> /\ UNCHANGED <<img, hist>>
  /\ Goto("p_recovery_dtbo")
  /\ UNCHANGED <<disk, opts, b, cur, used>>

PackSecond ==
  /\ pc = "p_second"
  /\ \/ /\ dir.second # << >>
        /\ AddSection([img.hdr EXCEPT !.second_size = Len(dir.second)], dir.second)
        /\ hist' = [hist EXCEPT !.parts.second = dir.second]
     \/ dir.second = << >> /\ UNCHANGED <<img, hist>>
  /\ Goto("p_recovery_dtbo")
  /\ UNCHANGED <<disk, opts, b, cur, used>>

PackRecoveryDtbo ==
  /\ pc = "p_recovery_dtbo"
  /\ \/ /\ dir.recovery_dtbo # << >>
        /\ AddSection([img.hdr EXCEPT !.recovery_dtbo_size = Len(dir.recovery_dtbo)],
                      dir.recovery_dtbo)
        /\ hist' = [hist EXCEPT !.parts.recovery_dtbo = dir.recovery_dtbo]
     \/ dir.recovery_dtbo = << >> /\ UNCHANGED <<img, hist>>
  /\ Goto("p_dtb")
  /\ UNCHANGED <<disk, opts, b, cur, used>>

PackCompileDtDts == pc = "p_dtb" /\ CompileDts(dir.dt_dts)

PackAddDtb ==
  /\ pc = "p_dtb" /\ LastDts(dir.dt_dts, cur.base)
  /\ AddSection([img.hdr EXCEPT !.dtb_size = Len(cur.tmp)], cur.tmp)
  /\ hist' = [hist EXCEPT !.parts.dtb = cur.tmp]
  /\ cur' = NoCur
  /\ Goto("p_extra")
  /\ UNCHANGED <<disk, opts, b, used>>

(* Mutant: skip_unknown_data is not honoured.                              *)
Mut_PackExtra ==
  /\ pc = "p_extra"
  /\ \/ dir.extra # << >> /\ AddSection(img.hdr, dir.extra)
     \/ dir.extra = << >> /\ UNCHANGED img
  /\ Goto("p_check")
  /\ UNCHANGED <<disk, opts, b, cur, used, hist>>

PackExtra ==
  /\ pc = "p_extra"
  /\ \/ /\ ~opts.skip /\ dir.extra # << >>
        /\ AddSection(img.hdr, dir.extra)
     \/ (opts.skip \/ dir.extra = << >>) /\ UNCHANGED img
  /\ Goto("p_check")
  /\ UNCHANGED <<disk, opts, b, cur, used, hist>>

(* Mutant: the id is not copied into the image.                            *)
Mut_PackCheck ==
  /\ pc = "p_check"
  /\ Goto("p_write")
  /\ UNCHANGED <<disk, opts, mem, used, hist>>

(* bxxt_boot_init1, whose result is ignored, and the new id.               *)
PackCheck ==
  /\ pc = "p_check"
  /\ img' = [img EXCEPT !.hdr.id = bxxt_boot_img_signature(img)]
  /\ Goto("p_write")
  /\ UNCHANGED <<disk, opts, b, cur, used, hist>>

(* bxxt_boot_write_to: open with O_TRUNC, or fail to open ...              *)
PackOpenOutput ==
  /\ pc = "p_write"
  /\ \/ /\ out' = [st |-> "torn", img |-> NoImage]
        /\ Goto("p_writing")
        /\ UNCHANGED <<mem, used>>
     \/ /\ used.faults < MaxFaults
        /\ used' = [used EXCEPT !.faults = @ + 1]
        /\ Leave("return", FAILED)
        /\ UNCHANGED out
  /\ UNCHANGED <<boot, dir, opts, hist>>

(* ... and one write(), of everything, of a part (its length is what       *)
(* bxxt_boot_write_to returns), or of nothing (-1).                        *)
PackWriteOutput ==
  /\ pc = "p_writing"
  /\ \/ /\ out' = [st |-> "whole", img |-> img]
        /\ hist' = [hist EXCEPT !.made_from = hist.from,
                                !.made_complete = hist.complete,
                                !.made_packed = hist.packed]
        /\ Leave("return", SUCCESS)
        /\ UNCHANGED used
     \/ /\ used.faults < MaxFaults
        /\ used' = [used EXCEPT !.faults = @ + 1]
        /\ \E n \in 0..(Len(img.data) - 1) :
             Leave("return", IF n = 0 THEN -1 ELSE n)
        /\ UNCHANGED <<out, hist>>
  /\ UNCHANGED <<boot, dir, opts>>

-----------------------------------------------------------------------------
(* The environment: the process is killed, and the user works between the  *)
(* commands, as README.md describes.                                       *)

Kill ==
  /\ pc # "idle" /\ used.faults < MaxFaults
  /\ used' = [used EXCEPT !.faults = @ + 1]
  /\ Leave("kill", 0)
  /\ UNCHANGED <<disk, opts, hist>>

UserTurn ==
  /\ pc = "idle" /\ used.edits < MaxEdits
  /\ used' = [used EXCEPT !.edits = @ + 1]
  /\ exit' = NoExit
  /\ UNCHANGED <<out, pc, opts, mem>>

Edit ==
  /\ UserTurn /\ dir.meta_ok
  /\ UNCHANGED boot

AddFile ==
  /\ Edit
  /\ dir' = [dir EXCEPT !.ramdisk = @ \union {NewId}]
  /\ hist' = [hist EXCEPT !.from = NoImage]

RemoveFile ==
  /\ Edit
  /\ \E e \in dir.ramdisk : dir' = [dir EXCEPT !.ramdisk = @ \ {e}]
  /\ hist' = [hist EXCEPT !.from = NoImage]

EditDts ==
  /\ Edit
  /\ \E i \in DtIndex :
       /\ GoodDts(dir.kernel_dts, i)
       /\ dir' = [dir EXCEPT !.kernel_dts[i] = NewId]
  /\ hist' = [hist EXCEPT !.from = NoImage]

EditPageSize ==
  /\ Edit
  /\ \E ps \in PageSizes : dir' = [dir EXCEPT !.meta.page_size = ps]
  /\ hist' = [hist EXCEPT !.from = NoImage]

(* The three ways README.md gives to replace the kernel: an Image.gz-dtb,  *)
(* an Image.gz, or an Image.                                               *)
NewImage(z) == <<[MkCell("kernel", NewId) EXCEPT !.z = z]>>

ReplaceKernel ==
  /\ Edit
  /\ \/ /\ dir' = [dir EXCEPT !.kernel = NewImage(1) \o <<MkCell("dtb", NewId)>>,
                              !.meta.kernel_compression = NONE, !.kernel_dts = NoDts]
        /\ hist' = [hist EXCEPT !.from = NoImage, !.recipe = "Image.gz-dtb",
                      !.complete = @ \/ \A i \in DtIndex : dir.dt_dts[i] # UNFLUSHED]
     \/ /\ dir' = [dir EXCEPT !.kernel = NewImage(1), !.meta.kernel_compression = NONE]
        /\ hist' = [hist EXCEPT !.from = NoImage, !.recipe = "Image.gz"]
     \/ /\ dir.meta.kernel_compression # LZMA
        /\ dir' = [dir EXCEPT !.kernel = NewImage(0)]
        /\ hist' = [hist EXCEPT !.from = NoImage, !.recipe = "Image"]

CleanDir ==
  /\ UserTurn
  /\ dir' = EmptyDir
  /\ hist' = [hist EXCEPT !.complete = FALSE, !.from = NoImage, !.recipe = "none"]
  /\ UNCHANGED boot

(* The packed image becomes the one that is unpacked next.                 *)
Adopt ==
  /\ UserTurn
  /\ out.st = "whole" /\ WellFormed(out.img)
  /\ boot' = out.img
  /\ hist' = [hist EXCEPT !.from = NoImage, !.packed = TRUE]
  /\ UNCHANGED dir

Unpack ==
  \/ UnpackOpen \/ UnpackScanKernel \/ UnpackScanDtb \/ UnpackKernel
  \/ UnpackRecoveryDtbo \/ UnpackSecond \/ UnpackExtra \/ UnpackKernelDts
  \/ UnpackDtDts \/ UnpackMkdir \/ UnpackRamdisk \/ UnpackMeta \/ UnpackExit

Pack ==
  \/ PackMeta \/ PackKernel \/ PackCompileKernelDts \/ PackAddKernel
  \/ PackRamdisk \/ PackCpioEntry \/ PackAddRamdisk \/ PackSecond
  \/ PackRecoveryDtbo \/ PackCompileDtDts \/ PackAddDtb \/ PackExtra
  \/ PackCheck \/ PackOpenOutput \/ PackWriteOutput

User ==
  \/ \E o \in BOOLEAN : UnpackStart(o) \/ PackStart(o)
  \/ AddFile \/ RemoveFile \/ EditDts \/ EditPageSize \/ ReplaceKernel
  \/ CleanDir \/ Adopt

Next == Unpack \/ Pack \/ User \/ Kill

Spec == Init /\ [][Next]_vars

(* A process that is not killed keeps running.                             *)
FairSpec == Spec /\ WF_vars(Unpack \/ Pack)

-----------------------------------------------------------------------------
(* Properties.                                                             *)

Parts == [kernel : Seq(Cell), ramdisk : Seq(Cell), second : Seq(Cell),
          recovery_dtbo : Seq(Cell), dtb : Seq(Cell)]

Recipes == {"none", "Image.gz-dtb", "Image.gz", "Image"}

Hist ==
  [fresh : BOOLEAN, complete : BOOLEAN, from : Image, recipe : Recipes,
   parts : Parts, before : Out, packed : BOOLEAN,
   made_from : Image, made_complete : BOOLEAN, made_packed : BOOLEAN]

Opts == [force : BOOLEAN, skip : BOOLEAN]
BootT == [pad_size : Nat, kernel_dtb : Seq(Nat), dtb : Seq(Nat)]
Cur == [base : Nat, tmp : Seq(Cell), todo : SUBSET Nat]
Exit == [op : {"none", "unpack", "pack"},
         how : {"none", "running", "return", "die", "kill"}, r : Int]
Used == [runs : Nat, edits : Nat, faults : Nat]

(* Every variable has its type: in particular the image in memory is an    *)
(* image whatever the directory holds.                                     *)
TypeOK ==
  /\ boot \in Image /\ dir \in Dir /\ out \in Out
  /\ pc \in UnpackPc \union PackPc \union {"idle"}
  /\ opts \in Opts /\ b \in BootT /\ cur \in Cur /\ img \in Image
  /\ exit \in Exit /\ used \in Used
  /\ hist \in Hist

(* The writer's cursor: at every stage of bxxt_boot_pack_all the buffer    *)
(* ends where the macros of bxxt_boot_init1 will look for the next section *)
(* given the sizes in the header so far.                                   *)
LayoutAgree ==
  /\ pc \in {"p_kernel", "p_kernel_dts"} => Len(img.data) = B_KE_o(img.hdr)
  /\ pc \in {"p_ramdisk", "p_cpio"} => Len(img.data) = B_RA_o(img.hdr)
  /\ pc = "p_second" => Len(img.data) = B_SE_o(img.hdr)
  /\ pc = "p_recovery_dtbo" => Len(img.data) = B_RE_o(img.hdr)
  /\ pc = "p_dtb" => Len(img.data) = B_DT_o(img.hdr)
  /\ pc = "p_extra" => Len(img.data) = B_PAD_o(img.hdr)

(* What is read back: from a finished image the offsets of bxxt_boot_init1 *)
(* return, section by section, exactly what bxxt_boot_pack_all appended.   *)
ReadBack ==
  pc \in {"p_check", "p_write", "p_writing"} =>
    /\ KernelOf(img) = hist.parts.kernel
    /\ RamdiskOf(img) = hist.parts.ramdisk
    /\ SecondOf(img) = hist.parts.second
    /\ RecoveryDtboOf(img) = hist.parts.recovery_dtbo
    /\ DtbOf(img) = hist.parts.dtb

(* An image that a run of pack completed carries the id of its own         *)
(* sections: unless a section is over the limits of base_check, the full   *)
(* check of bxxt_boot_init1 accepts it.                                    *)
PackedAccepted ==
  out.st = "whole" =>
    /\ bxxt_boot_img_compat_check(out.img, FALSE)
    /\ bxxt_boot_img_base_check(out.img.hdr) => bxxt_boot_init1(out.img, TRUE, FALSE)

(* The images bxxt can carry through a round trip: a kernel compressed     *)
(* once, followed by device trees, or a plain one without; a cpio ramdisk; *)
(* a dtb section of device trees.                                          *)
AllDtb(section, n) == \A i \in (n + 1)..Len(section) : IsDtb(section[i])

Entries(section) == {section[i].id : i \in 1..Len(section)}

Repackable(f) ==
  /\ LET k == KernelOf(f) IN
       \/ \E n \in 1..Len(k) :
            /\ IsGzipRun(k, n) /\ AllDtb(k, n)
            /\ k[1].z = 1
       \/ /\ bxxt_boot_detect_kernel_compression(k) = NONE
          /\ NoMoreDtb(k, 0)
  /\ \A i \in 1..f.hdr.ramdisk_size : IsCpioEntry(RamdiskOf(f), i)
  /\ AllDtb(DtbOf(f), 0)
  /\ f.hdr.dtb_addr < Word

(* Unpacking into an empty directory and packing it again gives an image   *)
(* with the same header fields, the same sections, and the same files in   *)
(* the ramdisk, whatever commands ran before.                              *)
RoundTrip ==
  LET f == hist.made_from
      g == out.img
  IN  (out.st = "whole" /\ f # NoImage /\ Repackable(f)) =>
        /\ g.hdr.page_size = f.hdr.page_size
        /\ g.hdr.header_version = f.hdr.header_version
        /\ g.hdr.attrs = f.hdr.attrs /\ g.hdr.dtb_addr = f.hdr.dtb_addr
        /\ KernelOf(g) = KernelOf(f) /\ SecondOf(g) = SecondOf(f)
        /\ RecoveryDtboOf(g) = RecoveryDtboOf(f) /\ DtbOf(g) = DtbOf(f)
        /\ Entries(RamdiskOf(g)) = Entries(RamdiskOf(f))

(* The second round trip: an image that bxxt packed, without trailing      *)
(* data, comes back byte for byte.                                         *)
SecondRoundTrip ==
  LET f == hist.made_from
  IN  (out.st = "whole" /\ f # NoImage /\ hist.made_packed
        /\ Repackable(f) /\ PadOf(f) = << >>) => out.img = f

(* METADATA is emptied first and written last: an image is never packed    *)
(* from a directory in which an unpack was interrupted.                    *)
NoPackOfPartialUnpack == out.st = "whole" => hist.made_complete

(* Success is reported for a finished image only, and a command that is    *)
(* refused, or that dies in the device tree compiler, leaves the image of  *)
(* an earlier run as it was.                                               *)
OutputSafe ==
  exit.op = "pack" =>
    /\ exit.how = "return" /\ exit.r = SUCCESS => out.st = "whole"
    /\ (exit.how = "return" /\ exit.r = FAILED) \/ exit.how = "die"
         => out = hist.before

(* Each of the three ways to replace the kernel puts the new kernel,       *)
(* compressed once, and the device trees of the directory into the image.  *)
DtsCells(files) ==
  LET n == CHOOSE n \in 0..MaxDtb :
             LastDts(files, n) /\ \A i \in 0..(n - 1) : ~LastDts(files, i)
  IN  [i \in 1..n |-> MkCell("dtb", files[i - 1])]

ReplacedKernelPacked ==
  (exit.op = "pack" /\ exit.how = "return" /\ exit.r = SUCCESS) =>
    LET k == KernelOf(out.img)
        dts == DtsCells(dir.kernel_dts)
        z == IF dir.meta.kernel_compression = GZIP THEN 1 ELSE 0
    IN  /\ hist.recipe = "Image.gz-dtb" => k = NewImage(1) \o <<MkCell("dtb", NewId)>>
        /\ hist.recipe = "Image.gz" => k = NewImage(1) \o dts
        /\ hist.recipe = "Image" => k = NewImage(z) \o dts

(* A command ends: no loop of pack or unpack runs forever.                 *)
RunEnds == (pc # "idle") ~> (pc = "idle")

-----------------------------------------------------------------------------
(* What the documentation says and the code does not do.                   *)

(* README.md: the unrecognised trailing data is appended when packing.     *)
ExtraDataKept ==
  LET f == hist.made_from
      pad == PadOf(f)
  IN  (out.st = "whole" /\ f # NoImage /\ ~opts.skip) =>
        \A i \in 1..Len(pad) :
          pad[i] # Zero => i <= Len(PadOf(out.img)) /\ PadOf(out.img)[i] = pad[i]

(* boot.c: an image whose id is not the digest of its sections fails the   *)
(* signature check, which -n turns off.                                    *)
SignatureChecked ==
  (pc = "u_kernel" /\ ~opts.force) => bxxt_boot_img_compat_check(boot, FALSE)

(* boot.h: recovery_dtbo_offset is the section's offset in the image.      *)
RecoveryDtboOffsetRight ==
  (out.st = "whole" /\ out.img.hdr.recovery_dtbo_size > 0) =>
    out.img.hdr.recovery_dtbo_offset = B_RE_o(out.img.hdr)

(* README.md: the kernel file is the kernel, the .dts files its device     *)
(* trees: every device tree of the image is packed once.                   *)
KernelDtbsKept ==
  LET f == hist.made_from
  IN  (out.st = "whole" /\ f # NoImage
        /\ bxxt_boot_detect_kernel_compression(KernelOf(f)) # LZMA)
        => out.img.hdr.kernel_size = f.hdr.kernel_size

(* boot.c logs "failed" for every r other than BXXT_SUCCESS: the command's *)
(* exit status says so too.                                                *)
ExitStatusTellsFailure ==
  (exit.op = "pack" /\ exit.how = "return" /\ exit.r # SUCCESS)
    => exit.r % ExitMod # 0

=============================================================================
