------------------------------ MODULE BootLayout ------------------------------
(***************************************************************************)
(* The boot image format as boot.c writes and reads it: the growing buffer *)
(* of util.c that bxxt_boot_pack_all appends to, and the offsets, checks   *)
(* and trailing-data rule of bxxt_boot_init1, which the unpacker uses.     *)
(*                                                                         *)
(* Data is a sequence of CELLS.  A cell stands for one unit of content and *)
(* takes one unit of space: `kind' says what the bytes are, `id' which of  *)
(* them, and `z' in how many layers of gzip they are wrapped.              *)
(***************************************************************************)
EXTENDS Integers, Sequences

CONSTANTS
  HdrSize,      (* sizeof(struct boot_img_hdr)                             *)
  Word,         (* 2^32: the first value an unsigned int cannot hold       *)
  MaxSection,   (* 0x4000000: largest kernel and ramdisk that are accepted *)
  MaxPageSize   (* 0xffff: largest page size that is accepted              *)

ASSUME LayoutAssumption ==
  /\ HdrSize \in Nat \ {0}
  /\ Word \in Nat \ {0}
  /\ MaxSection \in Nat
  /\ MaxPageSize \in Nat

-----------------------------------------------------------------------------

Kinds == {"zero", "hdr", "kernel", "lzma", "dtb", "cpio", "byte"}

Cell == [kind : Kinds, id : Nat, z : Nat]

MkCell(kind, id) == [kind |-> kind, id |-> id, z |-> 0]

Zero == MkCell("zero", 0)

(* struct boot_img_hdr.  `magic' says whether the first eight bytes are    *)
(* BOOT_MAGIC; `attrs' stands for the load addresses, the OS version and   *)
(* the strings, which pack and unpack copy and never interpret.            *)
Hdr ==
  [magic : BOOLEAN, header_version : Nat, page_size : Nat \ {0},
   kernel_size : Nat, ramdisk_size : Nat, second_size : Nat,
   recovery_dtbo_size : Nat, dtb_size : Nat,
   recovery_dtbo_offset : Nat, dtb_addr : Nat, attrs : Nat,
   id : Seq(Seq(Cell))]

(* An image, in a file or in memory: its header's fields and its cells,    *)
(* the first HdrSize of which are the header's own space.                  *)
Image == [hdr : Hdr, data : Seq(Cell)]

NoHdr ==
  [magic |-> FALSE, header_version |-> 0, page_size |-> 1,
   kernel_size |-> 0, ramdisk_size |-> 0, second_size |-> 0,
   recovery_dtbo_size |-> 0, dtb_size |-> 0,
   recovery_dtbo_offset |-> 0, dtb_addr |-> 0, attrs |-> 0, id |-> << >>]

NoImage == [hdr |-> NoHdr, data |-> << >>]

-----------------------------------------------------------------------------
(* The writer: bxxt_buffer_align and the pad_data macro.                   *)

Cells(n, c) == [i \in 1..n |-> c]

(* Mutant: a full page of padding where the data already ends on a page.   *)
Mut_AlignExtra(page_size, n) == page_size - (n % page_size)

AlignExtra(page_size, n) == (page_size - (n % page_size)) % page_size

bxxt_buffer_align(buff, page_size) ==
  buff \o Cells(AlignExtra(page_size, Len(buff)), Zero)

pad_data(buff, section, page_size) ==
  bxxt_buffer_align(buff \o section, page_size)

-----------------------------------------------------------------------------
(* The reader: the B_..._o macros of bxxt_boot_init1.                      *)

B_ps(ps, bs) == ((bs + ps - 1) \div ps) * ps

B_KE_o(h)  == h.page_size
B_RA_o(h)  == B_KE_o(h) + B_ps(h.page_size, h.kernel_size)
B_SE_o(h)  == B_RA_o(h) + B_ps(h.page_size, h.ramdisk_size)
B_RE_o(h)  == B_SE_o(h) + B_ps(h.page_size, h.second_size)
B_DT_o(h)  == B_RE_o(h) + B_ps(h.page_size, h.recovery_dtbo_size)
B_PAD_o(h) == B_DT_o(h) + B_ps(h.page_size, h.dtb_size)

ReadAt(data, offset, size) == SubSeq(data, offset + 1, offset + size)

KernelOf(f)       == ReadAt(f.data, B_KE_o(f.hdr), f.hdr.kernel_size)
RamdiskOf(f)      == ReadAt(f.data, B_RA_o(f.hdr), f.hdr.ramdisk_size)
SecondOf(f)       == ReadAt(f.data, B_SE_o(f.hdr), f.hdr.second_size)
RecoveryDtboOf(f) == ReadAt(f.data, B_RE_o(f.hdr), f.hdr.recovery_dtbo_size)
DtbOf(f)          == ReadAt(f.data, B_DT_o(f.hdr), f.hdr.dtb_size)
PadOf(f)          == SubSeq(f.data, B_PAD_o(f.hdr) + 1, Len(f.data))

(* The loop that drops the zero bytes after the last section: ts walks     *)
(* down from the last index, stops on the first byte that is not zero (or  *)
(* on index 0), and becomes the size of the trailing data.                 *)
IsTrimmedSize(pad, ts) ==
  \/ pad = << >> /\ ts = 0
  \/ /\ pad # << >>
     /\ ts \in 0..(Len(pad) - 1)
     /\ ts = 0 \/ pad[ts + 1] # Zero
     /\ \A i \in (ts + 1)..(Len(pad) - 1) : pad[i + 1] = Zero

-----------------------------------------------------------------------------
(* The reader's checks.                                                    *)

bxxt_boot_img_version_check(h) == h.magic /\ h.header_version <= 2

bxxt_boot_img_base_check(h) ==
  /\ h.page_size # 0 /\ h.kernel_size # 0
  /\ h.ramdisk_size <= MaxSection
  /\ h.kernel_size <= MaxSection
  /\ h.page_size <= MaxPageSize

(* The digest, by what goes into it.                                       *)
bxxt_boot_img_signature(f) ==
  <<KernelOf(f), RamdiskOf(f), SecondOf(f)>>
    \o (IF f.hdr.header_version > 0 THEN <<RecoveryDtboOf(f)>> ELSE << >>)
    \o (IF f.hdr.header_version > 1 THEN <<DtbOf(f)>> ELSE << >>)

bxxt_boot_img_compat_check(f, force_no_compat_check) ==
  force_no_compat_check \/ bxxt_boot_img_signature(f) = f.hdr.id

(* bxxt_boot_init1 as a predicate: BXXT_SUCCESS or BXXT_FAILED.            *)
bxxt_boot_init1(f, check, force_no_compat_check) ==
  /\ bxxt_boot_img_version_check(f.hdr)
  /\ bxxt_boot_img_base_check(f.hdr)
  /\ check => bxxt_boot_img_compat_check(f, force_no_compat_check)

-----------------------------------------------------------------------------
(* Kernel compression.                                                     *)

NONE == 0
GZIP == 1
LZMA == 3
Compressions == {NONE, GZIP, LZMA}

bxxt_boot_detect_kernel_compression(section) ==
  IF section # << >> /\ section[1].z > 0 THEN GZIP
  ELSE IF section # << >> /\ section[1].kind = "lzma" THEN LZMA
  ELSE NONE

(* libarchive puts one gzip reader on the other as long as the data starts *)
(* with gzip; each decodes the members at the start of its input and stops *)
(* without an error where the input is no longer gzip.  n cells come out,  *)
(* less the layers of the first.                                           *)
IsGzipRun(section, n) ==
  /\ n \in 0..Len(section)
  /\ \A i \in 1..n : section[i].z >= section[1].z
  /\ n < Len(section) => section[n + 1].z < section[1].z

Gunzip(section, n) ==
  [i \in 1..n |-> [section[i] EXCEPT !.z = @ - section[1].z]]

(* The output buffer of bxxt_boot_compress_from_file is as large as the    *)
(* input: what gzip cannot make smaller does not fit, and libarchive drops *)
(* the block that would overrun the buffer.                                *)
Gzip(content) ==
  LET fits == \E i \in 1..Len(content) : content[i].z = 0
      n == IF fits THEN Len(content) ELSE Len(content) - 1
  IN  [i \in 1..n |-> [content[i] EXCEPT !.z = @ + 1]]

IsDtb(c) == c.kind = "dtb" /\ c.z = 0

=============================================================================
