----------------------------- MODULE MCBootImage -----------------------------
(* Instances of BootImage: small images of every shape the tool meets.     *)
EXTENDS BootRefinement

K(id)  == [MkCell("kernel", id) EXCEPT !.z = 1]
R(id)  == [MkCell("cpio", id) EXCEPT !.z = 1]
D(id)  == MkCell("dtb", id)
B(id)  == MkCell("byte", id)

(* mkbootimg: every section on its own pages, then trailing data.  It is   *)
(* not part of this repository.                                            *)
MkImage(hdr, kernel, ramdisk, second, recovery, dtb, extra) ==
  LET h == [NoHdr EXCEPT !.magic = TRUE,
              !.header_version = hdr.version, !.page_size = hdr.page_size,
              !.attrs = 7, !.dtb_addr = 1,
              !.kernel_size = Len(kernel), !.ramdisk_size = Len(ramdisk),
              !.second_size = Len(second), !.recovery_dtbo_size = Len(recovery),
              !.dtb_size = Len(dtb)]
      p == hdr.page_size
      d0 == bxxt_buffer_align(Cells(HdrSize, MkCell("hdr", 0)), p)
      d == pad_data(pad_data(pad_data(pad_data(pad_data(d0,
             kernel, p), ramdisk, p), second, p), recovery, p), dtb, p) \o extra
      offset == IF recovery = << >> THEN 0 ELSE B_RE_o(h)
      f == [hdr |-> [h EXCEPT !.recovery_dtbo_offset = offset], data |-> d]
  IN  [f EXCEPT !.hdr.id = bxxt_boot_img_signature(f)]

V(version, page_size) == [version |-> version, page_size |-> page_size]

(* v0: gzip kernel with two device trees, ramdisk out of order.            *)
Gz0 == MkImage(V(0, 2), <<K(1), K(2), K(3), D(4), D(5)>>, <<R(2), R(1)>>,
               << >>, << >>, << >>, << >>)
(* v1: recovery_dtbo and second, no device tree, zeros at the end.         *)
Gz1 == MkImage(V(1, 3), <<K(1)>>, <<R(1)>>, <<B(1)>>, <<B(2), B(3)>>,
               << >>, <<Zero, Zero>>)
(* v2: a dtb section of two, plain kernel, empty ramdisk.                  *)
Raw2 == MkImage(V(2, 3), <<MkCell("kernel", 1), MkCell("kernel", 2)>>, << >>,
                << >>, << >>, <<D(4), D(5)>>, << >>)
(* v0, a plain kernel with a device tree.                                  *)
RawDtb == MkImage(V(0, 2), <<MkCell("kernel", 1), D(4)>>, <<R(1)>>,
                  << >>, << >>, << >>, << >>)
(* v0 with a signature block after the image.                              *)
Signed == MkImage(V(0, 2), <<K(1)>>, <<R(1)>>, << >>, << >>, << >>,
                  <<B(8), Zero, B(9), Zero>>)
(* A kernel compressed with LZMA; a ramdisk that is not gzip.              *)
Lzma == MkImage(V(0, 2), <<MkCell("lzma", 1)>>, <<MkCell("byte", 1)>>,
                << >>, << >>, << >>, << >>)
(* The id is not the digest; an unsupported version; not an image.         *)
BadId == [Gz1 EXCEPT !.hdr.id = << >>]
V3    == [Gz1 EXCEPT !.hdr.header_version = 3]
NoMagic == [Gz1 EXCEPT !.hdr.magic = FALSE]
(* A name that fills its field.                                            *)
LongName == [Raw2 EXCEPT !.hdr.attrs = 8]

CycleImages == {Gz0, Gz1, Raw2, RawDtb}
FaultImages == {Gz0, Raw2, Signed, Lzma, BadId, V3, NoMagic, LongName}
SignedImages == {Signed}
RecoveryImages == {Gz1}
RawImages == {RawDtb}
BadIdImages == {BadId}

=============================================================================
