---------------------------- MODULE BootImageProofs ----------------------------
(***************************************************************************)
(* Proofs about BootImage: the type invariant, the agreement of the packer *)
(* and the unpacker on where a section lies, and what is read back from a  *)
(* packed image, for all images, page sizes and directories.               *)
(***************************************************************************)
EXTENDS BootImage, BootLayoutProofs

-----------------------------------------------------------------------------
(* The packer's buffer.                                                    *)

(* The header's sizes are those of the parts, and reading at the offsets   *)
(* of bxxt_boot_init1 returns the parts.                                   *)
Recorded(f, p) ==
  /\ f.hdr.kernel_size = Len(p.kernel) /\ KernelOf(f) = p.kernel
  /\ f.hdr.ramdisk_size = Len(p.ramdisk) /\ RamdiskOf(f) = p.ramdisk
  /\ f.hdr.second_size = Len(p.second) /\ SecondOf(f) = p.second
  /\ f.hdr.recovery_dtbo_size = Len(p.recovery_dtbo)
  /\ RecoveryDtboOf(f) = p.recovery_dtbo
  /\ f.hdr.dtb_size = Len(p.dtb) /\ DtbOf(f) = p.dtb

(* The buffer ends, on a page boundary, where the trailing data would.     *)
PageEnd(f) ==
  /\ Len(f.data) = B_PAD_o(f.hdr)
  /\ Len(f.data) % f.hdr.page_size = 0

(* A section appended to an image, and noted among the parts.              *)
Appended(f, size, s) ==
  [hdr |-> [f.hdr EXCEPT ![size] = Len(s)],
   data |-> pad_data(f.data, s, f.hdr.page_size)]

WithPart(p, part, s) == [p EXCEPT ![part] = s]

(* An empty section reads as nothing.                                      *)
LEMMA ReadEmpty ==
  ASSUME NEW data \in Seq(Cell), NEW o \in Nat
  PROVE  ReadAt(data, o, 0) = << >>
  BY SubSeqEmpty DEF ReadAt

(* A section of length 0 is the empty one.                                 *)
LEMMA EmptyLen ==
  ASSUME NEW s \in Seq(Cell), Len(s) = 0
  PROVE  s = << >>
  BY EmptySeq

(* pad_data of the kernel: it is read back, the buffer again ends where    *)
(* the next section will be looked for, and the empty sections stay empty. *)
LEMMA AddKernel ==
  ASSUME NEW f \in Image, NEW p \in Parts, NEW s \in Seq(Cell), NEW g, NEW p2,
         Recorded(f, p), PageEnd(f),
         /\ f.hdr.kernel_size = 0 /\ f.hdr.ramdisk_size = 0
         /\ f.hdr.second_size = 0 /\ f.hdr.recovery_dtbo_size = 0
         /\ f.hdr.dtb_size = 0,
         g = Appended(f, "kernel_size", s), p2 = WithPart(p, "kernel", s)
  PROVE  /\ g \in Image /\ p2 \in Parts
         /\ Recorded(g, p2) /\ PageEnd(g)
<1> DEFINE h == f.hdr
           d == f.data
           ps == f.hdr.page_size
           n == Len(s)
<1>0. /\ g = [hdr |-> [f.hdr EXCEPT !.kernel_size = Len(s)],
              data |-> pad_data(f.data, s, f.hdr.page_size)]
      /\ p2 = [p EXCEPT !.kernel = s]
  BY DEF Appended, WithPart
<1> USE <1>0
<1>1. /\ f.hdr \in Hdr /\ d \in Seq(Cell) /\ ps \in Nat \ {0} /\ n \in Nat
      /\ Len(d) \in Nat /\ Len(d) % ps = 0
      /\ h.kernel_size \in Nat /\ h.ramdisk_size \in Nat /\ h.second_size \in Nat
      /\ h.recovery_dtbo_size \in Nat /\ h.dtb_size \in Nat
  BY LenProperties DEF Image, Hdr, PageEnd
<1>2. /\ g.hdr \in Hdr /\ g.hdr = [f.hdr EXCEPT !.kernel_size = n]
      /\ g.data = pad_data(d, s, ps)
  <2>1. g.hdr = [f.hdr EXCEPT !.kernel_size = n] /\ g.data = pad_data(d, s, ps)
    BY <1>0
  <2>2. [f.hdr EXCEPT !.kernel_size = n] \in Hdr
    BY ONLY <1>1 DEF Hdr
  <2> QED BY <2>1, <2>2
<1>3. /\ g.hdr.page_size = ps /\ g.hdr.kernel_size = n
      /\ g.hdr.ramdisk_size = h.ramdisk_size
      /\ g.hdr.second_size = h.second_size
      /\ g.hdr.recovery_dtbo_size = h.recovery_dtbo_size
      /\ g.hdr.dtb_size = h.dtb_size
  BY <1>1, <1>2 DEF Hdr
<1>4. /\ pad_data(d, s, ps) \in Seq(Cell)
      /\ Len(pad_data(d, s, ps)) = Len(d) + B_ps(ps, n)
      /\ Len(pad_data(d, s, ps)) % ps = 0
      /\ ReadAt(pad_data(d, s, ps), Len(d), n) = s
      /\ \A o \in Nat : \A m \in Nat : o + m <= Len(d) =>
            ReadAt(pad_data(d, s, ps), o, m) = ReadAt(d, o, m)
  BY <1>1, PadData
<1>5. g \in Image /\ p2 \in Parts
  <2>1. g \in Image
    BY <1>2, <1>4 DEF Image
  <2>2. p2 \in Parts
    BY DEF Parts
  <2> QED BY <2>1, <2>2
<1>6. /\ B_KE_o(h) \in Nat /\ B_RA_o(h) \in Nat /\ B_SE_o(h) \in Nat
      /\ B_RE_o(h) \in Nat /\ B_DT_o(h) \in Nat /\ B_PAD_o(h) \in Nat
  BY <1>1, Offsets
<1>7. /\ B_ps(ps, 0) = 0 /\ B_ps(ps, n) \in Nat
  BY <1>1, RoundUpFacts
<1>8. B_KE_o(h) = Len(d) /\ B_KE_o(g.hdr) = Len(d)
  <2>1. B_KE_o(h) = Len(d)
    BY <1>1, <1>6, <1>7 DEF PageEnd, B_KE_o, B_RA_o, B_SE_o, B_RE_o, B_DT_o, B_PAD_o
  <2> QED BY <2>1, <1>3 DEF B_KE_o, B_RA_o, B_SE_o, B_RE_o, B_DT_o
<1>9. B_PAD_o(g.hdr) = Len(d) + B_ps(ps, n)
  BY <1>1, <1>3, <1>6, <1>7, <1>8 DEF B_KE_o, B_RA_o, B_SE_o, B_RE_o, B_DT_o, B_PAD_o
<1>10. PageEnd(g)
  BY <1>2, <1>3, <1>4, <1>9 DEF PageEnd
<1>11. KernelOf(g) = s
  BY <1>2, <1>3, <1>4, <1>8 DEF KernelOf
<1>12. RamdiskOf(g) = << >> /\ p.ramdisk = << >>
  <2>1. B_RA_o(g.hdr) \in Nat
    BY <1>2, Offsets
  <2>2. p.ramdisk \in Seq(Cell) /\ Len(p.ramdisk) = 0
    BY DEF Recorded, Parts
  <2> QED BY <2>1, <2>2, <1>2, <1>3, <1>4, ReadEmpty, EmptyLen DEF RamdiskOf
<1>13. SecondOf(g) = << >> /\ p.second = << >>
  <2>1. B_SE_o(g.hdr) \in Nat
    BY <1>2, Offsets
  <2>2. p.second \in Seq(Cell) /\ Len(p.second) = 0
    BY DEF Recorded, Parts
  <2> QED BY <2>1, <2>2, <1>2, <1>3, <1>4, ReadEmpty, EmptyLen DEF SecondOf
<1>14. RecoveryDtboOf(g) = << >> /\ p.recovery_dtbo = << >>
  <2>1. B_RE_o(g.hdr) \in Nat
    BY <1>2, Offsets
  <2>2. p.recovery_dtbo \in Seq(Cell) /\ Len(p.recovery_dtbo) = 0
    BY DEF Recorded, Parts
  <2> QED BY <2>1, <2>2, <1>2, <1>3, <1>4, ReadEmpty, EmptyLen DEF RecoveryDtboOf
<1>15. DtbOf(g) = << >> /\ p.dtb = << >>
  <2>1. B_DT_o(g.hdr) \in Nat
    BY <1>2, Offsets
  <2>2. p.dtb \in Seq(Cell) /\ Len(p.dtb) = 0
    BY DEF Recorded, Parts
  <2> QED BY <2>1, <2>2, <1>2, <1>3, <1>4, ReadEmpty, EmptyLen DEF DtbOf
<1>16. Recorded(g, p2)
  BY <1>3, <1>11, <1>12, <1>13, <1>14, <1>15 DEF Recorded, Parts
<1> QED BY <1>5, <1>10, <1>16

(* pad_data of the ramdisk: it is read back, and so is the kernel before   *)
(* it.                                                                     *)
LEMMA AddRamdisk ==
  ASSUME NEW f \in Image, NEW p \in Parts, NEW s \in Seq(Cell), NEW g, NEW p2,
         Recorded(f, p), PageEnd(f),
         /\ f.hdr.ramdisk_size = 0 /\ f.hdr.second_size = 0
         /\ f.hdr.recovery_dtbo_size = 0 /\ f.hdr.dtb_size = 0,
         g = Appended(f, "ramdisk_size", s), p2 = WithPart(p, "ramdisk", s)
  PROVE  /\ g \in Image /\ p2 \in Parts
         /\ Recorded(g, p2) /\ PageEnd(g)
<1> DEFINE h == f.hdr
           d == f.data
           ps == f.hdr.page_size
           n == Len(s)
<1>0. /\ g = [hdr |-> [f.hdr EXCEPT !.ramdisk_size = Len(s)],
              data |-> pad_data(f.data, s, f.hdr.page_size)]
      /\ p2 = [p EXCEPT !.ramdisk = s]
  BY DEF Appended, WithPart
<1> USE <1>0
<1>1. /\ f.hdr \in Hdr /\ d \in Seq(Cell) /\ ps \in Nat \ {0} /\ n \in Nat
      /\ Len(d) \in Nat /\ Len(d) % ps = 0
      /\ h.kernel_size \in Nat /\ h.ramdisk_size \in Nat /\ h.second_size \in Nat
      /\ h.recovery_dtbo_size \in Nat /\ h.dtb_size \in Nat
  BY LenProperties DEF Image, Hdr, PageEnd
<1>2. /\ g.hdr \in Hdr /\ g.hdr = [f.hdr EXCEPT !.ramdisk_size = n]
      /\ g.data = pad_data(d, s, ps)
  <2>1. g.hdr = [f.hdr EXCEPT !.ramdisk_size = n] /\ g.data = pad_data(d, s, ps)
    BY <1>0
  <2>2. [f.hdr EXCEPT !.ramdisk_size = n] \in Hdr
    BY ONLY <1>1 DEF Hdr
  <2> QED BY <2>1, <2>2
<1>3. /\ g.hdr.page_size = ps /\ g.hdr.ramdisk_size = n
      /\ g.hdr.kernel_size = h.kernel_size
      /\ g.hdr.second_size = h.second_size
      /\ g.hdr.recovery_dtbo_size = h.recovery_dtbo_size
      /\ g.hdr.dtb_size = h.dtb_size
  BY <1>1, <1>2 DEF Hdr
<1>4. /\ pad_data(d, s, ps) \in Seq(Cell)
      /\ Len(pad_data(d, s, ps)) = Len(d) + B_ps(ps, n)
      /\ Len(pad_data(d, s, ps)) % ps = 0
      /\ ReadAt(pad_data(d, s, ps), Len(d), n) = s
      /\ \A o \in Nat : \A m \in Nat : o + m <= Len(d) =>
            ReadAt(pad_data(d, s, ps), o, m) = ReadAt(d, o, m)
  BY <1>1, PadData
<1>5. g \in Image /\ p2 \in Parts
  <2>1. g \in Image
    BY <1>2, <1>4 DEF Image
  <2>2. p2 \in Parts
    BY DEF Parts
  <2> QED BY <2>1, <2>2
<1>6. /\ B_KE_o(h) \in Nat /\ B_RA_o(h) \in Nat /\ B_SE_o(h) \in Nat
      /\ B_RE_o(h) \in Nat /\ B_DT_o(h) \in Nat /\ B_PAD_o(h) \in Nat
  BY <1>1, Offsets
<1>7. /\ B_ps(ps, 0) = 0 /\ B_ps(ps, n) \in Nat
  BY <1>1, RoundUpFacts
<1>8. B_RA_o(h) = Len(d) /\ B_RA_o(g.hdr) = Len(d)
  <2>1. B_RA_o(h) = Len(d)
    BY <1>1, <1>6, <1>7 DEF PageEnd, B_KE_o, B_RA_o, B_SE_o, B_RE_o, B_DT_o, B_PAD_o
  <2> QED BY <2>1, <1>3 DEF B_KE_o, B_RA_o, B_SE_o, B_RE_o, B_DT_o
<1>9. B_PAD_o(g.hdr) = Len(d) + B_ps(ps, n)
  BY <1>1, <1>3, <1>6, <1>7, <1>8 DEF B_KE_o, B_RA_o, B_SE_o, B_RE_o, B_DT_o, B_PAD_o
<1>10. PageEnd(g)
  BY <1>2, <1>3, <1>4, <1>9 DEF PageEnd
<1>11. RamdiskOf(g) = s
  BY <1>2, <1>3, <1>4, <1>8 DEF RamdiskOf
<1>12. /\ B_KE_o(h) + h.kernel_size <= Len(d) /\ B_RA_o(h) + h.ramdisk_size <= Len(d)
       /\ B_SE_o(h) + h.second_size <= Len(d)
       /\ B_RE_o(h) + h.recovery_dtbo_size <= Len(d)
  BY <1>1, OffsetsBelow DEF PageEnd
<1>13. KernelOf(g) = KernelOf(f)
  <2>1. B_KE_o(g.hdr) = B_KE_o(h)
    BY <1>3 DEF B_KE_o, B_RA_o, B_SE_o, B_RE_o, B_DT_o
  <2> QED BY <2>1, <1>1, <1>2, <1>3, <1>4, <1>6, <1>12 DEF KernelOf
<1>14. SecondOf(g) = << >> /\ p.second = << >>
  <2>1. B_SE_o(g.hdr) \in Nat
    BY <1>2, Offsets
  <2>2. p.second \in Seq(Cell) /\ Len(p.second) = 0
    BY DEF Recorded, Parts
  <2> QED BY <2>1, <2>2, <1>2, <1>3, <1>4, ReadEmpty, EmptyLen DEF SecondOf
<1>15. RecoveryDtboOf(g) = << >> /\ p.recovery_dtbo = << >>
  <2>1. B_RE_o(g.hdr) \in Nat
    BY <1>2, Offsets
  <2>2. p.recovery_dtbo \in Seq(Cell) /\ Len(p.recovery_dtbo) = 0
    BY DEF Recorded, Parts
  <2> QED BY <2>1, <2>2, <1>2, <1>3, <1>4, ReadEmpty, EmptyLen DEF RecoveryDtboOf
<1>16. DtbOf(g) = << >> /\ p.dtb = << >>
  <2>1. B_DT_o(g.hdr) \in Nat
    BY <1>2, Offsets
  <2>2. p.dtb \in Seq(Cell) /\ Len(p.dtb) = 0
    BY DEF Recorded, Parts
  <2> QED BY <2>1, <2>2, <1>2, <1>3, <1>4, ReadEmpty, EmptyLen DEF DtbOf
<1>17. Recorded(g, p2)
  BY <1>3, <1>11, <1>13, <1>14, <1>15, <1>16 DEF Recorded, Parts
<1> QED BY <1>5, <1>10, <1>17

(* pad_data of the second stage: it and the sections before it are read    *)
(* back.                                                                   *)
LEMMA AddSecond ==
  ASSUME NEW f \in Image, NEW p \in Parts, NEW s \in Seq(Cell), NEW g, NEW p2,
         Recorded(f, p), PageEnd(f),
         /\ f.hdr.second_size = 0 /\ f.hdr.recovery_dtbo_size = 0
         /\ f.hdr.dtb_size = 0,
         g = Appended(f, "second_size", s), p2 = WithPart(p, "second", s)
  PROVE  /\ g \in Image /\ p2 \in Parts
         /\ Recorded(g, p2) /\ PageEnd(g)
<1> DEFINE h == f.hdr
           d == f.data
           ps == f.hdr.page_size
           n == Len(s)
<1>0. /\ g = [hdr |-> [f.hdr EXCEPT !.second_size = Len(s)],
              data |-> pad_data(f.data, s, f.hdr.page_size)]
      /\ p2 = [p EXCEPT !.second = s]
  BY DEF Appended, WithPart
<1> USE <1>0
<1>1. /\ f.hdr \in Hdr /\ d \in Seq(Cell) /\ ps \in Nat \ {0} /\ n \in Nat
      /\ Len(d) \in Nat /\ Len(d) % ps = 0
      /\ h.kernel_size \in Nat /\ h.ramdisk_size \in Nat /\ h.second_size \in Nat
      /\ h.recovery_dtbo_size \in Nat /\ h.dtb_size \in Nat
  BY LenProperties DEF Image, Hdr, PageEnd
<1>2. /\ g.hdr \in Hdr /\ g.hdr = [f.hdr EXCEPT !.second_size = n]
      /\ g.data = pad_data(d, s, ps)
  <2>1. g.hdr = [f.hdr EXCEPT !.second_size = n] /\ g.data = pad_data(d, s, ps)
    BY <1>0
  <2>2. [f.hdr EXCEPT !.second_size = n] \in Hdr
    BY ONLY <1>1 DEF Hdr
  <2> QED BY <2>1, <2>2
<1>3. /\ g.hdr.page_size = ps /\ g.hdr.second_size = n
      /\ g.hdr.kernel_size = h.kernel_size
      /\ g.hdr.ramdisk_size = h.ramdisk_size
      /\ g.hdr.recovery_dtbo_size = h.recovery_dtbo_size
      /\ g.hdr.dtb_size = h.dtb_size
  BY <1>1, <1>2 DEF Hdr
<1>4. /\ pad_data(d, s, ps) \in Seq(Cell)
      /\ Len(pad_data(d, s, ps)) = Len(d) + B_ps(ps, n)
      /\ Len(pad_data(d, s, ps)) % ps = 0
      /\ ReadAt(pad_data(d, s, ps), Len(d), n) = s
      /\ \A o \in Nat : \A m \in Nat : o + m <= Len(d) =>
            ReadAt(pad_data(d, s, ps), o, m) = ReadAt(d, o, m)
  BY <1>1, PadData
<1>5. g \in Image /\ p2 \in Parts
  <2>1. g \in Image
    BY <1>2, <1>4 DEF Image
  <2>2. p2 \in Parts
    BY DEF Parts
  <2> QED BY <2>1, <2>2
<1>6. /\ B_KE_o(h) \in Nat /\ B_RA_o(h) \in Nat /\ B_SE_o(h) \in Nat
      /\ B_RE_o(h) \in Nat /\ B_DT_o(h) \in Nat /\ B_PAD_o(h) \in Nat
  BY <1>1, Offsets
<1>7. /\ B_ps(ps, 0) = 0 /\ B_ps(ps, n) \in Nat
  BY <1>1, RoundUpFacts
<1>8. B_SE_o(h) = Len(d) /\ B_SE_o(g.hdr) = Len(d)
  <2>1. B_SE_o(h) = Len(d)
    BY <1>1, <1>6, <1>7 DEF PageEnd, B_KE_o, B_RA_o, B_SE_o, B_RE_o, B_DT_o, B_PAD_o
  <2> QED BY <2>1, <1>3 DEF B_KE_o, B_RA_o, B_SE_o, B_RE_o, B_DT_o
<1>9. B_PAD_o(g.hdr) = Len(d) + B_ps(ps, n)
  BY <1>1, <1>3, <1>6, <1>7, <1>8 DEF B_KE_o, B_RA_o, B_SE_o, B_RE_o, B_DT_o, B_PAD_o
<1>10. PageEnd(g)
  BY <1>2, <1>3, <1>4, <1>9 DEF PageEnd
<1>11. SecondOf(g) = s
  BY <1>2, <1>3, <1>4, <1>8 DEF SecondOf
<1>12. /\ B_KE_o(h) + h.kernel_size <= Len(d) /\ B_RA_o(h) + h.ramdisk_size <= Len(d)
       /\ B_SE_o(h) + h.second_size <= Len(d)
       /\ B_RE_o(h) + h.recovery_dtbo_size <= Len(d)
  BY <1>1, OffsetsBelow DEF PageEnd
<1>13. KernelOf(g) = KernelOf(f)
  <2>1. B_KE_o(g.hdr) = B_KE_o(h)
    BY <1>3 DEF B_KE_o, B_RA_o, B_SE_o, B_RE_o, B_DT_o
  <2> QED BY <2>1, <1>1, <1>2, <1>3, <1>4, <1>6, <1>12 DEF KernelOf
<1>14. RamdiskOf(g) = RamdiskOf(f)
  <2>1. B_RA_o(g.hdr) = B_RA_o(h)
    BY <1>3 DEF B_KE_o, B_RA_o, B_SE_o, B_RE_o, B_DT_o
  <2> QED BY <2>1, <1>1, <1>2, <1>3, <1>4, <1>6, <1>12 DEF RamdiskOf
<1>15. RecoveryDtboOf(g) = << >> /\ p.recovery_dtbo = << >>
  <2>1. B_RE_o(g.hdr) \in Nat
    BY <1>2, Offsets
  <2>2. p.recovery_dtbo \in Seq(Cell) /\ Len(p.recovery_dtbo) = 0
    BY DEF Recorded, Parts
  <2> QED BY <2>1, <2>2, <1>2, <1>3, <1>4, ReadEmpty, EmptyLen DEF RecoveryDtboOf
<1>16. DtbOf(g) = << >> /\ p.dtb = << >>
  <2>1. B_DT_o(g.hdr) \in Nat
    BY <1>2, Offsets
  <2>2. p.dtb \in Seq(Cell) /\ Len(p.dtb) = 0
    BY DEF Recorded, Parts
  <2> QED BY <2>1, <2>2, <1>2, <1>3, <1>4, ReadEmpty, EmptyLen DEF DtbOf
<1>17. Recorded(g, p2)
  BY <1>3, <1>11, <1>13, <1>14, <1>15, <1>16 DEF Recorded, Parts
<1> QED BY <1>5, <1>10, <1>17

(* pad_data of the recovery dtbo: it and the sections before it are read   *)
(* back.                                                                   *)
LEMMA AddRecoveryDtbo ==
  ASSUME NEW f \in Image, NEW p \in Parts, NEW s \in Seq(Cell), NEW g, NEW p2,
         Recorded(f, p), PageEnd(f),
         f.hdr.recovery_dtbo_size = 0 /\ f.hdr.dtb_size = 0,
         g = Appended(f, "recovery_dtbo_size", s), p2 = WithPart(p, "recovery_dtbo", s)
  PROVE  /\ g \in Image /\ p2 \in Parts
         /\ Recorded(g, p2) /\ PageEnd(g)
<1> DEFINE h == f.hdr
           d == f.data
           ps == f.hdr.page_size
           n == Len(s)
<1>0. /\ g = [hdr |-> [f.hdr EXCEPT !.recovery_dtbo_size = Len(s)],
              data |-> pad_data(f.data, s, f.hdr.page_size)]
      /\ p2 = [p EXCEPT !.recovery_dtbo = s]
  BY DEF Appended, WithPart
<1> USE <1>0
<1>1. /\ f.hdr \in Hdr /\ d \in Seq(Cell) /\ ps \in Nat \ {0} /\ n \in Nat
      /\ Len(d) \in Nat /\ Len(d) % ps = 0
      /\ h.kernel_size \in Nat /\ h.ramdisk_size \in Nat /\ h.second_size \in Nat
      /\ h.recovery_dtbo_size \in Nat /\ h.dtb_size \in Nat
  BY LenProperties DEF Image, Hdr, PageEnd
<1>2. /\ g.hdr \in Hdr /\ g.hdr = [f.hdr EXCEPT !.recovery_dtbo_size = n]
      /\ g.data = pad_data(d, s, ps)
  <2>1. g.hdr = [f.hdr EXCEPT !.recovery_dtbo_size = n] /\ g.data = pad_data(d, s, ps)
    BY <1>0
  <2>2. [f.hdr EXCEPT !.recovery_dtbo_size = n] \in Hdr
    BY ONLY <1>1 DEF Hdr
  <2> QED BY <2>1, <2>2
<1>3. /\ g.hdr.page_size = ps /\ g.hdr.recovery_dtbo_size = n
      /\ g.hdr.kernel_size = h.kernel_size
      /\ g.hdr.ramdisk_size = h.ramdisk_size
      /\ g.hdr.second_size = h.second_size
      /\ g.hdr.dtb_size = h.dtb_size
  BY <1>1, <1>2 DEF Hdr
<1>4. /\ pad_data(d, s, ps) \in Seq(Cell)
      /\ Len(pad_data(d, s, ps)) = Len(d) + B_ps(ps, n)
      /\ Len(pad_data(d, s, ps)) % ps = 0
      /\ ReadAt(pad_data(d, s, ps), Len(d), n) = s
      /\ \A o \in Nat : \A m \in Nat : o + m <= Len(d) =>
            ReadAt(pad_data(d, s, ps), o, m) = ReadAt(d, o, m)
  BY <1>1, PadData
<1>5. g \in Image /\ p2 \in Parts
  <2>1. g \in Image
    BY <1>2, <1>4 DEF Image
  <2>2. p2 \in Parts
    BY DEF Parts
  <2> QED BY <2>1, <2>2
<1>6. /\ B_KE_o(h) \in Nat /\ B_RA_o(h) \in Nat /\ B_SE_o(h) \in Nat
      /\ B_RE_o(h) \in Nat /\ B_DT_o(h) \in Nat /\ B_PAD_o(h) \in Nat
  BY <1>1, Offsets
<1>7. /\ B_ps(ps, 0) = 0 /\ B_ps(ps, n) \in Nat
  BY <1>1, RoundUpFacts
<1>8. B_RE_o(h) = Len(d) /\ B_RE_o(g.hdr) = Len(d)
  <2>1. B_RE_o(h) = Len(d)
    BY <1>1, <1>6, <1>7 DEF PageEnd, B_KE_o, B_RA_o, B_SE_o, B_RE_o, B_DT_o, B_PAD_o
  <2> QED BY <2>1, <1>3 DEF B_KE_o, B_RA_o, B_SE_o, B_RE_o, B_DT_o
<1>9. B_PAD_o(g.hdr) = Len(d) + B_ps(ps, n)
  <2>1. B_DT_o(g.hdr) = Len(d) + B_ps(ps, n)
    BY <1>3, <1>8 DEF B_DT_o
  <2>2. B_PAD_o(g.hdr) = B_DT_o(g.hdr) + B_ps(ps, 0)
    BY <1>3 DEF B_PAD_o
  <2> QED BY <1>1, <1>7, <2>1, <2>2
<1>10. PageEnd(g)
  BY <1>2, <1>3, <1>4, <1>9 DEF PageEnd
<1>11. RecoveryDtboOf(g) = s
  BY <1>2, <1>3, <1>4, <1>8 DEF RecoveryDtboOf
<1>12. /\ B_KE_o(h) + h.kernel_size <= Len(d) /\ B_RA_o(h) + h.ramdisk_size <= Len(d)
       /\ B_SE_o(h) + h.second_size <= Len(d)
       /\ B_RE_o(h) + h.recovery_dtbo_size <= Len(d)
  BY <1>1, OffsetsBelow DEF PageEnd
<1>13. KernelOf(g) = KernelOf(f)
  <2>1. B_KE_o(g.hdr) = B_KE_o(h)
    BY <1>3 DEF B_KE_o, B_RA_o, B_SE_o, B_RE_o, B_DT_o
  <2> QED BY <2>1, <1>1, <1>2, <1>3, <1>4, <1>6, <1>12 DEF KernelOf
<1>14. RamdiskOf(g) = RamdiskOf(f)
  <2>1. B_RA_o(g.hdr) = B_RA_o(h)
    BY <1>3 DEF B_KE_o, B_RA_o, B_SE_o, B_RE_o, B_DT_o
  <2> QED BY <2>1, <1>1, <1>2, <1>3, <1>4, <1>6, <1>12 DEF RamdiskOf
<1>15. SecondOf(g) = SecondOf(f)
  <2>1. B_SE_o(g.hdr) = B_SE_o(h)
    BY <1>3 DEF B_KE_o, B_RA_o, B_SE_o, B_RE_o, B_DT_o
  <2> QED BY <2>1, <1>1, <1>2, <1>3, <1>4, <1>6, <1>12 DEF SecondOf
<1>16. DtbOf(g) = << >> /\ p.dtb = << >>
  <2>1. B_DT_o(g.hdr) \in Nat
    BY <1>2, Offsets
  <2>2. p.dtb \in Seq(Cell) /\ Len(p.dtb) = 0
    BY DEF Recorded, Parts
  <2> QED BY <2>1, <2>2, <1>2, <1>3, <1>4, ReadEmpty, EmptyLen DEF DtbOf
<1>17. Recorded(g, p2)
  BY <1>3, <1>11, <1>13, <1>14, <1>15, <1>16 DEF Recorded, Parts
<1> QED BY <1>5, <1>10, <1>17

(* pad_data of the device trees: they and the sections before them are     *)
(* read back.                                                              *)
LEMMA AddDtb ==
  ASSUME NEW f \in Image, NEW p \in Parts, NEW s \in Seq(Cell), NEW g, NEW p2,
         Recorded(f, p), PageEnd(f),
         f.hdr.dtb_size = 0,
         g = Appended(f, "dtb_size", s), p2 = WithPart(p, "dtb", s)
  PROVE  /\ g \in Image /\ p2 \in Parts
         /\ Recorded(g, p2) /\ PageEnd(g)
<1> DEFINE h == f.hdr
           d == f.data
           ps == f.hdr.page_size
           n == Len(s)
<1>0. /\ g = [hdr |-> [f.hdr EXCEPT !.dtb_size = Len(s)],
              data |-> pad_data(f.data, s, f.hdr.page_size)]
      /\ p2 = [p EXCEPT !.dtb = s]
  BY DEF Appended, WithPart
<1> USE <1>0
<1>1. /\ f.hdr \in Hdr /\ d \in Seq(Cell) /\ ps \in Nat \ {0} /\ n \in Nat
      /\ Len(d) \in Nat /\ Len(d) % ps = 0
      /\ h.kernel_size \in Nat /\ h.ramdisk_size \in Nat /\ h.second_size \in Nat
      /\ h.recovery_dtbo_size \in Nat /\ h.dtb_size \in Nat
  BY LenProperties DEF Image, Hdr, PageEnd
<1>2. /\ g.hdr \in Hdr /\ g.hdr = [f.hdr EXCEPT !.dtb_size = n]
      /\ g.data = pad_data(d, s, ps)
  <2>1. g.hdr = [f.hdr EXCEPT !.dtb_size = n] /\ g.data = pad_data(d, s, ps)
    BY <1>0
  <2>2. [f.hdr EXCEPT !.dtb_size = n] \in Hdr
    BY ONLY <1>1 DEF Hdr
  <2> QED BY <2>1, <2>2
<1>3. /\ g.hdr.page_size = ps /\ g.hdr.dtb_size = n
      /\ g.hdr.kernel_size = h.kernel_size
      /\ g.hdr.ramdisk_size = h.ramdisk_size
      /\ g.hdr.second_size = h.second_size
      /\ g.hdr.recovery_dtbo_size = h.recovery_dtbo_size
  BY <1>1, <1>2 DEF Hdr
<1>4. /\ pad_data(d, s, ps) \in Seq(Cell)
      /\ Len(pad_data(d, s, ps)) = Len(d) + B_ps(ps, n)
      /\ Len(pad_data(d, s, ps)) % ps = 0
      /\ ReadAt(pad_data(d, s, ps), Len(d), n) = s
      /\ \A o \in Nat : \A m \in Nat : o + m <= Len(d) =>
            ReadAt(pad_data(d, s, ps), o, m) = ReadAt(d, o, m)
  BY <1>1, PadData
<1>5. g \in Image /\ p2 \in Parts
  <2>1. g \in Image
    BY <1>2, <1>4 DEF Image
  <2>2. p2 \in Parts
    BY DEF Parts
  <2> QED BY <2>1, <2>2
<1>6. /\ B_KE_o(h) \in Nat /\ B_RA_o(h) \in Nat /\ B_SE_o(h) \in Nat
      /\ B_RE_o(h) \in Nat /\ B_DT_o(h) \in Nat /\ B_PAD_o(h) \in Nat
  BY <1>1, Offsets
<1>7. /\ B_ps(ps, 0) = 0 /\ B_ps(ps, n) \in Nat
  BY <1>1, RoundUpFacts
<1>8. B_DT_o(h) = Len(d) /\ B_DT_o(g.hdr) = Len(d)
  <2>1. B_DT_o(h) = Len(d)
    BY <1>1, <1>6, <1>7 DEF PageEnd, B_KE_o, B_RA_o, B_SE_o, B_RE_o, B_DT_o, B_PAD_o
  <2> QED BY <2>1, <1>3 DEF B_KE_o, B_RA_o, B_SE_o, B_RE_o, B_DT_o
<1>9. B_PAD_o(g.hdr) = Len(d) + B_ps(ps, n)
  BY <1>1, <1>3, <1>6, <1>7, <1>8 DEF B_KE_o, B_RA_o, B_SE_o, B_RE_o, B_DT_o, B_PAD_o
<1>10. PageEnd(g)
  BY <1>2, <1>3, <1>4, <1>9 DEF PageEnd
<1>11. DtbOf(g) = s
  BY <1>2, <1>3, <1>4, <1>8 DEF DtbOf
<1>12. /\ B_KE_o(h) + h.kernel_size <= Len(d) /\ B_RA_o(h) + h.ramdisk_size <= Len(d)
       /\ B_SE_o(h) + h.second_size <= Len(d)
       /\ B_RE_o(h) + h.recovery_dtbo_size <= Len(d)
  BY <1>1, OffsetsBelow DEF PageEnd
<1>13. KernelOf(g) = KernelOf(f)
  <2>1. B_KE_o(g.hdr) = B_KE_o(h) /\ g.hdr.kernel_size = h.kernel_size
    BY <1>3 DEF B_KE_o
  <2>2. h.kernel_size \in Nat /\ B_KE_o(h) \in Nat /\ B_KE_o(h) + h.kernel_size <= Len(d)
    BY <1>1, <1>6, <1>12
  <2> QED BY <2>1, <2>2, <1>2, <1>4 DEF KernelOf
<1>14. RamdiskOf(g) = RamdiskOf(f)
  <2>1. B_RA_o(g.hdr) = B_RA_o(h)
    BY <1>3 DEF B_KE_o, B_RA_o, B_SE_o, B_RE_o, B_DT_o
  <2> QED BY <2>1, <1>1, <1>2, <1>3, <1>4, <1>6, <1>12 DEF RamdiskOf
<1>15. SecondOf(g) = SecondOf(f)
  <2>1. B_SE_o(g.hdr) = B_SE_o(h)
    BY <1>3 DEF B_KE_o, B_RA_o, B_SE_o, B_RE_o, B_DT_o
  <2> QED BY <2>1, <1>1, <1>2, <1>3, <1>4, <1>6, <1>12 DEF SecondOf
<1>16. RecoveryDtboOf(g) = RecoveryDtboOf(f)
  <2>1. B_RE_o(g.hdr) = B_RE_o(h)
    BY <1>3 DEF B_KE_o, B_RA_o, B_SE_o, B_RE_o, B_DT_o
  <2> QED BY <2>1, <1>1, <1>2, <1>3, <1>4, <1>6, <1>12 DEF RecoveryDtboOf
<1>17. Recorded(g, p2)
  BY <1>3, <1>11, <1>13, <1>14, <1>15, <1>16 DEF Recorded, Parts
<1> QED BY <1>5, <1>10, <1>17

-----------------------------------------------------------------------------
(* The inductive invariant.                                                *)

Building ==
  {"p_kernel", "p_kernel_dts", "p_ramdisk", "p_cpio", "p_second",
   "p_recovery_dtbo", "p_dtb", "p_extra"}

Finished == {"p_check", "p_write", "p_writing"}

(* The image to unpack, the page size in METADATA and the size of the      *)
(* trailing data are such that every section can be read.                  *)
Fits ==
  /\ boot.hdr.page_size >= HdrSize /\ B_PAD_o(boot.hdr) <= Len(boot.data)
  /\ dir.meta_ok => dir.meta.page_size >= HdrSize
  /\ pc \in UnpackPc \ {"u_open"} => b.pad_size <= Len(PadOf(boot))

(* The sections that have not been appended have size 0.                   *)
Unwritten ==
  LET h == img.hdr IN
  /\ pc \in {"p_kernel", "p_kernel_dts"} => h.kernel_size = 0
  /\ pc \in {"p_kernel", "p_kernel_dts", "p_ramdisk", "p_cpio"} => h.ramdisk_size = 0
  /\ pc \in Building \ {"p_recovery_dtbo", "p_dtb", "p_extra"} => h.second_size = 0
  /\ pc \in Building \ {"p_dtb", "p_extra"} => h.recovery_dtbo_size = 0
  /\ pc \in Building \ {"p_extra"} => h.dtb_size = 0

Packing ==
  /\ pc \in Building \union Finished => Recorded(img, hist.parts)
  /\ pc \in Building => PageEnd(img)
  /\ pc \in Finished => B_PAD_o(img.hdr) <= Len(img.data)
  /\ Unwritten

IInv == TypeOK /\ Fits /\ Packing

(* The part of the invariant about the image in memory is void where       *)
(* bxxt_boot_pack_all holds none.                                          *)
LEMMA PackingOutside ==
  ASSUME pc' \notin Building \union Finished
  PROVE  Packing'
  BY DEF Packing, Unwritten, Building, Finished

(* The values before anything was read or written have their types.        *)
LEMMA NoValues ==
  /\ NoHdr \in Hdr /\ NoImage \in Image /\ NoMeta \in Meta /\ NoParts \in Parts
  /\ NoDts \in [DtIndex -> Dts] /\ EmptyDir \in Dir /\ NoOut \in Out
  /\ NoB \in BootT /\ NoCur \in Cur /\ NoExit \in Exit /\ NoHist \in Hist
<1>1. NoHdr \in Hdr
  BY DEF NoHdr, Hdr
<1>2. NoImage \in Image
  BY <1>1 DEF NoImage, Image
<1>3. NoMeta \in Meta
  BY DEF NoMeta, Meta, Compressions, NONE
<1>4. NoParts \in Parts
  BY DEF NoParts, Parts
<1>5. NoDts \in [DtIndex -> Dts]
  BY DEF NoDts, Dts
<1>6. EmptyDir \in Dir
  BY <1>3, <1>5 DEF EmptyDir, Dir
<1>7. NoOut \in Out
  BY <1>2 DEF NoOut, Out
<1>8. NoB \in BootT /\ NoCur \in Cur /\ NoExit \in Exit
  BY DEF NoB, BootT, NoCur, Cur, NoExit, Exit
<1>9. NoHist \in Hist
  BY <1>2, <1>4, <1>7 DEF NoHist, Hist, Recipes
<1> QED BY <1>1, <1>2, <1>3, <1>4, <1>5, <1>6, <1>7, <1>8, <1>9

(* When the process ends its memory holds typed values.                    *)
LEMMA LeaveType ==
  ASSUME TypeOK, NEW how \in {"return", "die", "kill"}, NEW r \in Int, Leave(how, r)
  PROVE  /\ pc' = "idle" /\ exit' \in Exit /\ b' \in BootT /\ cur' \in Cur
         /\ img' \in Image
  BY NoValues DEF TypeOK, Leave, Exit

(* The invariant holds before the first command.                           *)
LEMMA InitIInv == Init => IInv
<1> SUFFICES ASSUME Init PROVE IInv
  OBVIOUS
<1>1. boot \in Image /\ boot.hdr.page_size >= HdrSize /\ B_PAD_o(boot.hdr) <= Len(boot.data)
  BY BootAssumption DEF Init, WellFormed
<1>2. opts \in Opts /\ used \in Used
  BY DEF Init, Opts, Used
<1>3. TypeOK
  BY <1>1, <1>2, NoValues DEF Init, TypeOK
<1>4. Fits
  BY <1>1 DEF Init, Fits, EmptyDir, UnpackPc
<1>5. Packing
  BY DEF Init, Packing, Unwritten, Building, Finished
<1> QED BY <1>3, <1>4, <1>5 DEF IInv

(* UnpackStart preserves the invariant.                                    *)
LEMMA UnpackStartStep ==
  ASSUME IInv, NEW o \in BOOLEAN, UnpackStart(o)
  PROVE  IInv'
<1>1. dir' \in Dir /\ dir'.meta_ok = FALSE
  BY NoValues DEF IInv, TypeOK, UnpackStart, Dir
<1>0. hist \in Hist /\ out \in Out /\ NoImage \in Image
  BY NoValues DEF IInv, TypeOK
<1>2. hist' \in Hist
  <2> DEFINE H(e) == [hist EXCEPT !.fresh = e, !.complete = FALSE, !.from = NoImage,
                                  !.recipe = "none", !.before = out]
  <2>1. H(TRUE) \in Hist /\ H(FALSE) \in Hist
    BY <1>0 DEF Hist, Recipes
  <2>2. hist' = H(dir = EmptyDir)
    BY DEF UnpackStart
  <2>3. (dir = EmptyDir) = TRUE \/ (dir = EmptyDir) = FALSE
    OBVIOUS
  <2> HIDE DEF H
  <2> QED BY <2>1, <2>2, <2>3, Zenon
<1>3. opts' \in Opts /\ exit' \in Exit /\ used' \in Used
  BY DEF IInv, TypeOK, UnpackStart, Opts, Exit, Used
<1>4. TypeOK'
  BY <1>1, <1>2, <1>3 DEF IInv, TypeOK, UnpackStart, mem, UnpackPc
<1>5. Fits'
  BY <1>1 DEF IInv, Fits, UnpackStart, UnpackPc
<1>6. Packing'
  BY PackingOutside DEF UnpackStart, Building, Finished
<1> QED BY <1>4, <1>5, <1>6 DEF IInv

(* PackStart preserves the invariant.                                      *)
LEMMA PackStartStep ==
  ASSUME IInv, NEW o \in BOOLEAN, PackStart(o)
  PROVE  IInv'
<1>1. hist \in Hist /\ out \in Out /\ NoParts \in Parts
  BY NoValues DEF IInv, TypeOK
<1>2. hist' \in Hist
  BY <1>1 DEF PackStart, Hist
<1>3. opts' \in Opts /\ exit' \in Exit /\ used' \in Used
  BY DEF IInv, TypeOK, PackStart, Opts, Exit, Used
<1>4. TypeOK'
  BY <1>2, <1>3 DEF IInv, TypeOK, PackStart, disk, mem, PackPc
<1>5. Fits'
  BY DEF IInv, Fits, PackStart, UnpackPc, disk
<1>6. Packing'
  BY PackingOutside DEF PackStart, Building, Finished
<1> QED BY <1>4, <1>5, <1>6 DEF IInv

(* UnpackOpen preserves the invariant.                                     *)
LEMMA UnpackOpenStep ==
  ASSUME IInv, UnpackOpen
  PROVE  IInv'
<1>1. CASE Leave("return", FAILED)
  <2>1. TypeOK'
    BY <1>1, LeaveType DEF IInv, TypeOK, UnpackOpen, disk, FAILED
  <2>2. Fits' /\ Packing'
    BY <1>1, PackingOutside DEF IInv, Fits, UnpackOpen, Leave, disk, Building, Finished, UnpackPc
  <2> QED BY <2>1, <2>2 DEF IInv
<1>2. CASE ~Leave("return", FAILED)
  <2>1. PadOf(boot) \in Seq(Cell) /\ Len(PadOf(boot)) \in Nat
    BY SectionTypes, LenProperties DEF IInv, TypeOK, Fits
  <2>2. PICK ts \in 0..Len(PadOf(boot)) : b' = [b EXCEPT !.pad_size = ts]
    BY <1>2 DEF UnpackOpen
  <2>3. /\ pc' = "u_scan_kernel"
        /\ UNCHANGED <<boot, dir, out, opts, cur, img, exit, used, hist>>
    BY <1>2 DEF UnpackOpen, Goto, disk
  <2>4. b' \in BootT /\ b'.pad_size = ts
    <3>1. b \in BootT /\ ts \in Nat
      BY <2>1, <2>2 DEF IInv, TypeOK
    <3> QED BY <3>1, <2>2 DEF BootT
  <2>5. TypeOK'
    BY <2>3, <2>4 DEF IInv, TypeOK, UnpackPc
  <2>6. Fits'
    BY <2>1, <2>3, <2>4 DEF IInv, Fits
  <2>7. Packing'
    BY <2>3, PackingOutside DEF Building, Finished
  <2> QED BY <2>5, <2>6, <2>7 DEF IInv
<1> QED BY <1>1, <1>2

(* UnpackScanKernel preserves the invariant.                               *)
LEMMA UnpackScanKernelStep ==
  ASSUME IInv, UnpackScanKernel
  PROVE  IInv'
<1>1. /\ KernelOf(boot) \in Seq(Cell) /\ Len(KernelOf(boot)) \in Nat
      /\ KernelOf(boot) \in [1..Len(KernelOf(boot)) -> Cell]
  BY SectionTypes, LenProperties DEF IInv, TypeOK, Fits
<1>2. b' \in BootT /\ b'.pad_size = b.pad_size /\ cur' \in Cur
  <2>1. CASE \E i \in 1..Len(KernelOf(boot)) :
               /\ b' = [b EXCEPT !.kernel_dtb = Append(@, KernelOf(boot)[i].id)]
               /\ cur' = [cur EXCEPT !.base = i]
    <3>1. PICK i \in 1..Len(KernelOf(boot)) :
               /\ b' = [b EXCEPT !.kernel_dtb = Append(@, KernelOf(boot)[i].id)]
               /\ cur' = [cur EXCEPT !.base = i]
      BY <2>1
    <3>2. KernelOf(boot)[i].id \in Nat
      BY <1>1 DEF Cell
    <3>3. Append(b.kernel_dtb, KernelOf(boot)[i].id) \in Seq(Nat)
      BY <3>2, AppendProperties DEF IInv, TypeOK, BootT
    <3>4. cur' \in Cur
      BY <3>1, <1>1 DEF IInv, TypeOK, Cur
    <3>5. b' \in BootT /\ b'.pad_size = b.pad_size
      BY <3>1, <3>3 DEF IInv, TypeOK, BootT
    <3> QED BY <3>4, <3>5
  <2>2. CASE cur' = NoCur /\ UNCHANGED b
    BY <2>2, NoValues DEF IInv, TypeOK
  <2> QED BY <2>1, <2>2 DEF UnpackScanKernel
<1>3. /\ pc' \in {"u_scan_kernel", "u_scan_dtb", "u_kernel"}
      /\ UNCHANGED <<boot, dir, out, opts, img, exit, used, hist>>
  BY DEF UnpackScanKernel, Goto, disk
<1>4. TypeOK'
  BY <1>2, <1>3 DEF IInv, TypeOK, UnpackPc
<1>5. Fits'
  BY <1>2, <1>3 DEF IInv, Fits, UnpackScanKernel, UnpackPc
<1>6. Packing'
  BY <1>3, PackingOutside DEF Building, Finished
<1> QED BY <1>4, <1>5, <1>6 DEF IInv

(* UnpackScanDtb preserves the invariant.                                  *)
LEMMA UnpackScanDtbStep ==
  ASSUME IInv, UnpackScanDtb
  PROVE  IInv'
<1>1. /\ DtbOf(boot) \in Seq(Cell) /\ Len(DtbOf(boot)) \in Nat
      /\ DtbOf(boot) \in [1..Len(DtbOf(boot)) -> Cell]
  BY SectionTypes, LenProperties DEF IInv, TypeOK, Fits
<1>2. b' \in BootT /\ b'.pad_size = b.pad_size /\ cur' \in Cur
  <2>1. CASE \E i \in 1..Len(DtbOf(boot)) :
               /\ b' = [b EXCEPT !.dtb = Append(@, DtbOf(boot)[i].id)]
               /\ cur' = [cur EXCEPT !.base = i]
    <3>1. PICK i \in 1..Len(DtbOf(boot)) :
               /\ b' = [b EXCEPT !.dtb = Append(@, DtbOf(boot)[i].id)]
               /\ cur' = [cur EXCEPT !.base = i]
      BY <2>1
    <3>2. DtbOf(boot)[i].id \in Nat
      BY <1>1 DEF Cell
    <3>3. Append(b.dtb, DtbOf(boot)[i].id) \in Seq(Nat)
      BY <3>2, AppendProperties DEF IInv, TypeOK, BootT
    <3>4. cur' \in Cur
      BY <3>1, <1>1 DEF IInv, TypeOK, Cur
    <3>5. b' \in BootT /\ b'.pad_size = b.pad_size
      BY <3>1, <3>3 DEF IInv, TypeOK, BootT
    <3> QED BY <3>4, <3>5
  <2>2. CASE cur' = NoCur /\ UNCHANGED b
    BY <2>2, NoValues DEF IInv, TypeOK
  <2> QED BY <2>1, <2>2 DEF UnpackScanDtb
<1>3. /\ pc' \in {"u_scan_kernel", "u_scan_dtb", "u_kernel"}
      /\ UNCHANGED <<boot, dir, out, opts, img, exit, used, hist>>
  BY DEF UnpackScanDtb, Goto, disk
<1>4. TypeOK'
  BY <1>2, <1>3 DEF IInv, TypeOK, UnpackPc
<1>5. Fits'
  BY <1>2, <1>3 DEF IInv, Fits, UnpackScanDtb, UnpackPc
<1>6. Packing'
  BY <1>3, PackingOutside DEF Building, Finished
<1> QED BY <1>4, <1>5, <1>6 DEF IInv

(* The steps of unpack after the checks: what is left to show for each.    *)
LEMMA UnpackFrame ==
  ASSUME IInv, pc \in UnpackPc \ {"u_open"}, pc' \in UnpackPc \ {"u_open"},
         dir' \in Dir, dir'.meta_ok => dir'.meta.page_size >= HdrSize,
         cur' \in Cur, used' \in Used, hist' \in Hist,
         UNCHANGED <<boot, out, opts, b, img, exit>>
  PROVE  IInv'
<1>1. TypeOK'
  BY DEF IInv, TypeOK
<1>2. Fits'
  BY DEF IInv, Fits
<1>3. Packing'
  BY PackingOutside DEF UnpackPc, Building, Finished
<1> QED BY <1>1, <1>2, <1>3 DEF IInv

(* A short write during unpack only counts as an I/O error.                *)
LEMMA DiskWriteType ==
  ASSUME IInv, NEW n, NEW len, DiskWrite(n, len)
  PROVE  used' \in Used /\ hist' \in Hist
<1>1. used \in Used /\ hist \in Hist
  BY DEF IInv, TypeOK
<1>2. used' \in Used
  BY <1>1 DEF DiskWrite, Used
<1>3. hist' \in Hist
  BY <1>1 DEF DiskWrite, Hist
<1> QED BY <1>2, <1>3

(* The invariant makes every section of the image to unpack readable.      *)
LEMMA BootSections ==
  ASSUME IInv
  PROVE  /\ boot \in Image /\ boot.hdr \in Hdr
         /\ KernelOf(boot) \in Seq(Cell) /\ RamdiskOf(boot) \in Seq(Cell)
         /\ SecondOf(boot) \in Seq(Cell) /\ Len(SecondOf(boot)) = boot.hdr.second_size
         /\ RecoveryDtboOf(boot) \in Seq(Cell)
         /\ Len(RecoveryDtboOf(boot)) = boot.hdr.recovery_dtbo_size
         /\ DtbOf(boot) \in Seq(Cell) /\ PadOf(boot) \in Seq(Cell)
<1>1. boot \in Image /\ B_PAD_o(boot.hdr) <= Len(boot.data)
  BY DEF IInv, TypeOK, Fits
<1>2. boot.hdr \in Hdr
  BY <1>1 DEF Image
<1> QED BY <1>1, <1>2, SectionTypes

(* bxxt_boot_decompress_to_file yields as many cells as it decoded.        *)
LEMMA DecodedType ==
  ASSUME NEW section \in Seq(Cell), NEW n \in 0..Len(section), IsDecoded(section, n)
  PROVE  Decoded(section, n) \in Seq(Cell) /\ Len(Decoded(section, n)) = n
<1>1. n \in Nat
  BY LenProperties
<1>2. CASE bxxt_boot_detect_kernel_compression(section) = GZIP
  <2>1. IsGzipRun(section, n)
    BY <1>2 DEF IsDecoded, GZIP, NONE
  <2> QED BY <1>1, <1>2, <2>1, GunzipType DEF Decoded
<1>3. CASE bxxt_boot_detect_kernel_compression(section) # GZIP
  BY <1>3, Prefix DEF Decoded
<1> QED BY <1>2, <1>3

(* A file written without O_TRUNC holds cells.                             *)
LEMMA WriteOverType ==
  ASSUME NEW old \in Seq(Cell), NEW new \in Seq(Cell)
  PROVE  WriteOver(old, new) \in Seq(Cell)
<1>1. Len(new) \in Nat
  BY LenProperties
<1>2. SubSeq(old, Len(new) + 1, Len(old)) \in Seq(Cell)
  BY <1>1, Suffix
<1> QED BY <1>2, ConcatProperties DEF WriteOver

(* UnpackKernel preserves the invariant.                                   *)
LEMMA UnpackKernelStep ==
  ASSUME IInv, UnpackKernel
  PROVE  IInv'
<1> DEFINE section == KernelOf(boot)
<1>0. PICK n \in 0..Len(section) : \E got \in 0..n :
        /\ IsDecoded(section, n) /\ DiskWrite(got, n)
        /\ dir' = [dir EXCEPT !.kernel =
                     WriteOver(@, SubSeq(Decoded(section, n), 1, got))]
  BY DEF UnpackKernel
<1>1. PICK got \in 0..n :
        /\ IsDecoded(section, n) /\ DiskWrite(got, n)
        /\ dir' = [dir EXCEPT !.kernel =
                     WriteOver(@, SubSeq(Decoded(section, n), 1, got))]
  BY <1>0
<1>2. section \in Seq(Cell)
  BY BootSections
<1>3. Decoded(section, n) \in Seq(Cell) /\ Len(Decoded(section, n)) = n
  BY <1>1, <1>2, DecodedType
<1> HIDE DEF section
<1>4. SubSeq(Decoded(section, n), 1, got) \in Seq(Cell)
  BY <1>3, Prefix
<1>5. dir \in Dir /\ dir.kernel \in Seq(Cell)
  BY DEF IInv, TypeOK, Dir
<1>6. WriteOver(dir.kernel, SubSeq(Decoded(section, n), 1, got)) \in Seq(Cell)
  BY <1>4, <1>5, WriteOverType
<1>7. dir' \in Dir /\ dir'.meta_ok = dir.meta_ok /\ dir'.meta = dir.meta
  BY <1>1, <1>5, <1>6 DEF Dir
<1>8. used' \in Used /\ hist' \in Hist
  BY <1>1, DiskWriteType
<1>9. cur' \in Cur /\ UNCHANGED <<boot, out, opts, b, img, exit>>
  BY DEF IInv, TypeOK, UnpackKernel, Goto, mem
<1>10. dir'.meta_ok => dir'.meta.page_size >= HdrSize
  BY <1>7 DEF IInv, Fits
<1>11. pc \in UnpackPc \ {"u_open"} /\ pc' \in UnpackPc \ {"u_open"}
  BY DEF UnpackKernel, Goto, UnpackPc
<1> QED BY <1>7, <1>8, <1>9, <1>10, <1>11, UnpackFrame

(* UnpackRecoveryDtbo preserves the invariant.                             *)
LEMMA UnpackRecoveryDtboStep ==
  ASSUME IInv, UnpackRecoveryDtbo
  PROVE  IInv'
<1>1. dir \in Dir /\ used \in Used /\ hist \in Hist
  BY DEF IInv, TypeOK
<1>2. /\ dir' \in Dir /\ dir'.meta_ok = dir.meta_ok /\ dir'.meta = dir.meta
      /\ used' \in Used /\ hist' \in Hist
  <2>1. CASE boot.hdr.recovery_dtbo_size # 0
    <3>1. PICK got \in 0..boot.hdr.recovery_dtbo_size :
            /\ DiskWrite(got, boot.hdr.recovery_dtbo_size)
            /\ dir' = [dir EXCEPT !.recovery_dtbo = SubSeq(RecoveryDtboOf(boot), 1, got)]
      BY <2>1 DEF UnpackRecoveryDtbo
    <3>2. RecoveryDtboOf(boot) \in Seq(Cell) /\ Len(RecoveryDtboOf(boot)) \in Nat
          /\ got \in 0..Len(RecoveryDtboOf(boot))
      BY <3>1, BootSections, LenProperties
        DEF UnpackRecoveryDtbo, IInv, TypeOK, BootT, Fits, UnpackPc
    <3>3. SubSeq(RecoveryDtboOf(boot), 1, got) \in Seq(Cell)
      BY <3>2, Prefix
    <3>4. dir' \in Dir /\ dir'.meta_ok = dir.meta_ok /\ dir'.meta = dir.meta
      BY <1>1, <3>1, <3>3 DEF Dir
    <3>5. used' \in Used /\ hist' \in Hist
      BY <3>1, DiskWriteType
    <3> QED BY <3>4, <3>5
  <2>2. CASE boot.hdr.recovery_dtbo_size = 0
    <3>1. UNCHANGED <<dir, used, hist>>
      BY <2>2 DEF UnpackRecoveryDtbo
    <3> QED BY <3>1, <1>1
  <2> QED BY <2>1, <2>2
<1>3. cur' \in Cur /\ UNCHANGED <<boot, out, opts, b, img, exit>>
  BY DEF IInv, TypeOK, UnpackRecoveryDtbo, Goto, mem
<1>4. dir'.meta_ok => dir'.meta.page_size >= HdrSize
  BY <1>2 DEF IInv, Fits
<1>5. pc \in UnpackPc \ {"u_open"} /\ pc' \in UnpackPc \ {"u_open"}
  BY DEF UnpackRecoveryDtbo, Goto, UnpackPc
<1> QED BY <1>2, <1>3, <1>4, <1>5, UnpackFrame

(* UnpackSecond preserves the invariant.                                   *)
LEMMA UnpackSecondStep ==
  ASSUME IInv, UnpackSecond
  PROVE  IInv'
<1>1. dir \in Dir /\ used \in Used /\ hist \in Hist
  BY DEF IInv, TypeOK
<1>2. /\ dir' \in Dir /\ dir'.meta_ok = dir.meta_ok /\ dir'.meta = dir.meta
      /\ used' \in Used /\ hist' \in Hist
  <2>1. CASE boot.hdr.second_size # 0
    <3>1. PICK got \in 0..boot.hdr.second_size :
            /\ DiskWrite(got, boot.hdr.second_size)
            /\ dir' = [dir EXCEPT !.second = SubSeq(SecondOf(boot), 1, got)]
      BY <2>1 DEF UnpackSecond
    <3>2. SecondOf(boot) \in Seq(Cell) /\ Len(SecondOf(boot)) \in Nat
          /\ got \in 0..Len(SecondOf(boot))
      BY <3>1, BootSections, LenProperties
        DEF UnpackSecond, IInv, TypeOK, BootT, Fits, UnpackPc
    <3>3. SubSeq(SecondOf(boot), 1, got) \in Seq(Cell)
      BY <3>2, Prefix
    <3>4. dir' \in Dir /\ dir'.meta_ok = dir.meta_ok /\ dir'.meta = dir.meta
      BY <1>1, <3>1, <3>3 DEF Dir
    <3>5. used' \in Used /\ hist' \in Hist
      BY <3>1, DiskWriteType
    <3> QED BY <3>4, <3>5
  <2>2. CASE boot.hdr.second_size = 0
    <3>1. UNCHANGED <<dir, used, hist>>
      BY <2>2 DEF UnpackSecond
    <3> QED BY <3>1, <1>1
  <2> QED BY <2>1, <2>2
<1>3. cur' \in Cur /\ UNCHANGED <<boot, out, opts, b, img, exit>>
  BY DEF IInv, TypeOK, UnpackSecond, Goto, mem
<1>4. dir'.meta_ok => dir'.meta.page_size >= HdrSize
  BY <1>2 DEF IInv, Fits
<1>5. pc \in UnpackPc \ {"u_open"} /\ pc' \in UnpackPc \ {"u_open"}
  BY DEF UnpackSecond, Goto, UnpackPc
<1> QED BY <1>2, <1>3, <1>4, <1>5, UnpackFrame

(* UnpackExtra preserves the invariant.                                    *)
LEMMA UnpackExtraStep ==
  ASSUME IInv, UnpackExtra
  PROVE  IInv'
<1>1. dir \in Dir /\ used \in Used /\ hist \in Hist
  BY DEF IInv, TypeOK
<1>2. /\ dir' \in Dir /\ dir'.meta_ok = dir.meta_ok /\ dir'.meta = dir.meta
      /\ used' \in Used /\ hist' \in Hist
  <2>1. CASE b.pad_size # 0
    <3>1. PICK got \in 0..b.pad_size :
            /\ DiskWrite(got, b.pad_size)
            /\ dir' = [dir EXCEPT !.extra = SubSeq(PadOf(boot), 1, got)]
      BY <2>1 DEF UnpackExtra
    <3>2. PadOf(boot) \in Seq(Cell) /\ Len(PadOf(boot)) \in Nat
          /\ got \in 0..Len(PadOf(boot))
      BY <3>1, BootSections, LenProperties
        DEF UnpackExtra, IInv, TypeOK, BootT, Fits, UnpackPc
    <3>3. SubSeq(PadOf(boot), 1, got) \in Seq(Cell)
      BY <3>2, Prefix
    <3>4. dir' \in Dir /\ dir'.meta_ok = dir.meta_ok /\ dir'.meta = dir.meta
      BY <1>1, <3>1, <3>3 DEF Dir
    <3>5. used' \in Used /\ hist' \in Hist
      BY <3>1, DiskWriteType
    <3> QED BY <3>4, <3>5
  <2>2. CASE b.pad_size = 0
    <3>1. UNCHANGED <<dir, used, hist>>
      BY <2>2 DEF UnpackExtra
    <3> QED BY <3>1, <1>1
  <2> QED BY <2>1, <2>2
<1>3. cur' \in Cur /\ UNCHANGED <<boot, out, opts, b, img, exit>>
  BY DEF IInv, TypeOK, UnpackExtra, Goto, mem
<1>4. dir'.meta_ok => dir'.meta.page_size >= HdrSize
  BY <1>2 DEF IInv, Fits
<1>5. pc \in UnpackPc \ {"u_open"} /\ pc' \in UnpackPc \ {"u_open"}
  BY DEF UnpackExtra, Goto, UnpackPc
<1> QED BY <1>2, <1>3, <1>4, <1>5, UnpackFrame

(* UnpackKernelDts preserves the invariant.                                *)
LEMMA UnpackKernelDtsStep ==
  ASSUME IInv, UnpackKernelDts
  PROVE  IInv'
<1>1. dir \in Dir /\ cur \in Cur /\ used \in Used /\ hist \in Hist
  BY DEF IInv, TypeOK
<1>2. dir' \in Dir /\ dir'.meta_ok = dir.meta_ok /\ dir'.meta = dir.meta
  <2>1. CASE dir' = [dir EXCEPT !.kernel_dts[cur.base] = UNFLUSHED]
    <3>1. [dir.kernel_dts EXCEPT ![cur.base] = UNFLUSHED] \in [DtIndex -> Dts]
      <4>1. dir.kernel_dts \in [DtIndex -> Dts] /\ UNFLUSHED \in Dts
        BY <1>1 DEF Dir, Dts
      <4> QED BY <4>1
    <3> QED BY <2>1, <3>1, <1>1 DEF Dir
  <2>2. CASE UNCHANGED dir
    BY <2>2, <1>1
  <2> QED BY <2>1, <2>2 DEF UnpackKernelDts
<1>3. cur' \in Cur
  BY <1>1, NoValues DEF UnpackKernelDts, Cur
<1>4. /\ used' \in Used /\ hist' \in Hist
      /\ UNCHANGED <<boot, out, opts, b, img, exit>>
  BY <1>1 DEF UnpackKernelDts, Goto
<1>5. dir'.meta_ok => dir'.meta.page_size >= HdrSize
  BY <1>2 DEF IInv, Fits
<1>6. pc \in UnpackPc \ {"u_open"} /\ pc' \in UnpackPc \ {"u_open"}
  BY DEF UnpackKernelDts, Goto, UnpackPc
<1> QED BY <1>2, <1>3, <1>4, <1>5, <1>6, UnpackFrame

(* UnpackDtDts preserves the invariant.                                    *)
LEMMA UnpackDtDtsStep ==
  ASSUME IInv, UnpackDtDts
  PROVE  IInv'
<1>1. dir \in Dir /\ cur \in Cur /\ used \in Used /\ hist \in Hist
  BY DEF IInv, TypeOK
<1>2. dir' \in Dir /\ dir'.meta_ok = dir.meta_ok /\ dir'.meta = dir.meta
  <2>1. CASE dir' = [dir EXCEPT !.dt_dts[cur.base] = UNFLUSHED]
    <3>1. [dir.dt_dts EXCEPT ![cur.base] = UNFLUSHED] \in [DtIndex -> Dts]
      <4>1. dir.dt_dts \in [DtIndex -> Dts] /\ UNFLUSHED \in Dts
        BY <1>1 DEF Dir, Dts
      <4> QED BY <4>1
    <3> QED BY <2>1, <3>1, <1>1 DEF Dir
  <2>2. CASE UNCHANGED dir
    BY <2>2, <1>1
  <2> QED BY <2>1, <2>2 DEF UnpackDtDts
<1>3. cur' \in Cur
  BY <1>1, NoValues DEF UnpackDtDts, Cur
<1>4. /\ used' \in Used /\ hist' \in Hist
      /\ UNCHANGED <<boot, out, opts, b, img, exit>>
  BY <1>1 DEF UnpackDtDts, Goto
<1>5. dir'.meta_ok => dir'.meta.page_size >= HdrSize
  BY <1>2 DEF IInv, Fits
<1>6. pc \in UnpackPc \ {"u_open"} /\ pc' \in UnpackPc \ {"u_open"}
  BY DEF UnpackDtDts, Goto, UnpackPc
<1> QED BY <1>2, <1>3, <1>4, <1>5, <1>6, UnpackFrame

(* UnpackMkdir preserves the invariant.                                    *)
LEMMA UnpackMkdirStep ==
  ASSUME IInv, UnpackMkdir
  PROVE  IInv'
<1>1. dir \in Dir /\ cur \in Cur /\ used \in Used /\ hist \in Hist
  BY DEF IInv, TypeOK
<1>2. dir' \in Dir /\ dir'.meta_ok = dir.meta_ok /\ dir'.meta = dir.meta
  BY <1>1 DEF UnpackMkdir, Dir
<1>3. /\ cur' \in Cur /\ used' \in Used /\ hist' \in Hist
      /\ UNCHANGED <<boot, out, opts, b, img, exit>>
  BY <1>1 DEF UnpackMkdir, Goto, mem
<1>4. dir'.meta_ok => dir'.meta.page_size >= HdrSize
  BY <1>2 DEF IInv, Fits
<1>5. pc \in UnpackPc \ {"u_open"} /\ pc' \in UnpackPc \ {"u_open"}
  BY DEF UnpackMkdir, Goto, UnpackPc
<1> QED BY <1>2, <1>3, <1>4, <1>5, UnpackFrame

(* UnpackRamdisk preserves the invariant.                                  *)
LEMMA UnpackRamdiskStep ==
  ASSUME IInv, UnpackRamdisk
  PROVE  IInv'
<1> DEFINE section == RamdiskOf(boot)
           i == cur.base + 1
<1>1. dir \in Dir /\ cur \in Cur /\ used \in Used /\ hist \in Hist
  BY DEF IInv, TypeOK
<1>2. section \in Seq(Cell) /\ section \in [1..Len(section) -> Cell]
  BY BootSections, LenProperties
<1>3. /\ dir' \in Dir /\ dir'.meta_ok = dir.meta_ok /\ dir'.meta = dir.meta
      /\ cur' \in Cur
  <2>1. CASE /\ IsCpioEntry(section, i)
             /\ dir' = [dir EXCEPT !.ramdisk = @ \union {section[i].id}]
             /\ cur' = [cur EXCEPT !.base = i]
    <3>1. i \in Nat \ {0} /\ i <= Len(section)
      BY <1>1, <2>1 DEF Cur, IsCpioEntry
    <3> HIDE DEF section, i
    <3>2. section[i].id \in Nat
      BY <3>1, <1>2 DEF Cell
    <3>3. dir.ramdisk \union {section[i].id} \in SUBSET Nat
      BY <3>2, <1>1 DEF Dir
    <3>4. dir' \in Dir /\ dir'.meta_ok = dir.meta_ok /\ dir'.meta = dir.meta
      BY <2>1, <3>3, <1>1 DEF Dir
    <3>5. cur' \in Cur
      BY <2>1, <3>1, <1>1 DEF Cur
    <3> QED BY <3>4, <3>5
  <2>2. CASE cur' = NoCur /\ UNCHANGED dir
    BY <2>2, <1>1, NoValues
  <2> QED BY <2>1, <2>2 DEF UnpackRamdisk
<1>4. /\ used' \in Used /\ hist' \in Hist
      /\ UNCHANGED <<boot, out, opts, b, img, exit>>
  BY <1>1 DEF UnpackRamdisk, Goto
<1>5. dir'.meta_ok => dir'.meta.page_size >= HdrSize
  BY <1>3 DEF IInv, Fits
<1>6. pc \in UnpackPc \ {"u_open"} /\ pc' \in UnpackPc \ {"u_open"}
  BY DEF UnpackRamdisk, Goto, UnpackPc
<1> QED BY <1>3, <1>4, <1>5, <1>6, UnpackFrame

(* UnpackMeta preserves the invariant.                                     *)
LEMMA UnpackMetaStep ==
  ASSUME IInv, UnpackMeta
  PROVE  IInv'
<1>1. dir \in Dir /\ cur \in Cur /\ used \in Used /\ hist \in Hist
  BY DEF IInv, TypeOK
<1>2. MetaOf(boot) \in Meta /\ MetaOf(boot).page_size = boot.hdr.page_size
  <2>1. boot.hdr \in Hdr
    BY BootSections
  <2>2. bxxt_boot_detect_kernel_compression(KernelOf(boot)) \in Compressions
    BY DEF bxxt_boot_detect_kernel_compression, Compressions, NONE, GZIP, LZMA
  <2> QED BY <2>1, <2>2 DEF MetaOf, Meta, Hdr
<1>3. dir' \in Dir /\ dir'.meta = MetaOf(boot)
  BY <1>1, <1>2 DEF UnpackMeta, Dir
<1>4. hist' \in Hist
  <2> DEFINE H(e) == [hist EXCEPT !.complete = e]
  <2>1. H(TRUE) \in Hist /\ H(FALSE) \in Hist
    BY <1>1 DEF Hist
  <2>2. hist' = H(b.kernel_dtb = << >> /\ b.dtb = << >>)
    BY DEF UnpackMeta
  <2>3. \/ (b.kernel_dtb = << >> /\ b.dtb = << >>) = TRUE
        \/ (b.kernel_dtb = << >> /\ b.dtb = << >>) = FALSE
    OBVIOUS
  <2> HIDE DEF H
  <2> QED BY <2>1, <2>2, <2>3, Zenon
<1>5. /\ cur' \in Cur /\ used' \in Used
      /\ UNCHANGED <<boot, out, opts, b, img, exit>>
  BY <1>1 DEF UnpackMeta, Goto, mem
<1>6. dir'.meta_ok => dir'.meta.page_size >= HdrSize
  BY <1>2, <1>3 DEF IInv, Fits
<1>7. pc \in UnpackPc \ {"u_open"} /\ pc' \in UnpackPc \ {"u_open"}
  BY DEF UnpackMeta, Goto, UnpackPc
<1> QED BY <1>3, <1>4, <1>5, <1>6, <1>7, UnpackFrame

-----------------------------------------------------------------------------
(* The process ends.                                                       *)

(* The process ends: what is left to show for a step that ends it.         *)
LEMMA LeaveFrame ==
  ASSUME IInv, NEW how \in {"return", "die", "kill"}, NEW r \in Int, Leave(how, r),
         dir' \in Dir, dir'.meta_ok => dir'.meta.page_size >= HdrSize,
         out' \in Out, used' \in Used, hist' \in Hist, UNCHANGED <<boot, opts>>
  PROVE  IInv'
<1>1. /\ pc' = "idle" /\ exit' \in Exit /\ b' \in BootT /\ cur' \in Cur
      /\ img' \in Image
  BY LeaveType DEF IInv
<1>2. TypeOK'
  BY <1>1 DEF IInv, TypeOK
<1>3. Fits'
  BY <1>1 DEF IInv, Fits, UnpackPc
<1>4. Packing'
  BY <1>1, PackingOutside DEF Building, Finished
<1> QED BY <1>2, <1>3, <1>4 DEF IInv

(* The process ends and leaves the disk as it is.                          *)
LEMMA LeaveSame ==
  ASSUME IInv, NEW how \in {"return", "die", "kill"}, NEW r \in Int, Leave(how, r),
         used' \in Used, UNCHANGED <<boot, dir, out, opts, hist>>
  PROVE  IInv'
<1>1. dir' \in Dir /\ out' \in Out /\ hist' \in Hist
  BY DEF IInv, TypeOK
<1>2. dir'.meta_ok => dir'.meta.page_size >= HdrSize
  BY DEF IInv, Fits
<1> QED BY <1>1, <1>2, LeaveFrame

(* The .dts files after exit() flushed them hold device trees.             *)
LEMMA FlushedType ==
  ASSUME NEW files \in [DtIndex -> Dts], NEW dtb \in Seq(Nat)
  PROVE  Flushed(files, dtb) \in [DtIndex -> Dts]
<1>1. Len(dtb) \in Nat /\ dtb \in [1..Len(dtb) -> Nat]
  BY LenProperties
<1>2. \A i \in DtIndex : (IF i < Len(dtb) THEN dtb[i + 1] ELSE files[i]) \in Dts
  BY <1>1, DirAssumption DEF DtIndex, Dts
<1> QED BY <1>2 DEF Flushed

(* UnpackExit preserves the invariant.                                     *)
LEMMA UnpackExitStep ==
  ASSUME IInv, UnpackExit
  PROVE  IInv'
<1>1. /\ dir \in Dir /\ hist \in Hist /\ b \in BootT /\ boot \in Image
      /\ NoImage \in Image
  BY NoValues DEF IInv, TypeOK
<1>2. /\ Flushed(dir.kernel_dts, b.kernel_dtb) \in [DtIndex -> Dts]
      /\ Flushed(dir.dt_dts, b.dtb) \in [DtIndex -> Dts]
  <2>1. dir.kernel_dts \in [DtIndex -> Dts] /\ dir.dt_dts \in [DtIndex -> Dts]
    BY <1>1 DEF Dir
  <2>2. b.kernel_dtb \in Seq(Nat) /\ b.dtb \in Seq(Nat)
    BY <1>1 DEF BootT
  <2> QED BY <2>1, <2>2, FlushedType
<1>3. dir' \in Dir /\ dir'.meta_ok = dir.meta_ok /\ dir'.meta = dir.meta
  BY <1>1, <1>2 DEF UnpackExit, Dir
<1>4. hist' \in Hist
  <2> DEFINE H(e) == [hist EXCEPT !.complete = TRUE, !.from = e]
  <2>1. H(boot) \in Hist /\ H(NoImage) \in Hist
    BY <1>1 DEF Hist
  <2>2. hist' = H(IF hist.fresh THEN boot ELSE NoImage)
    BY DEF UnpackExit
  <2>3. \/ (IF hist.fresh THEN boot ELSE NoImage) = boot
        \/ (IF hist.fresh THEN boot ELSE NoImage) = NoImage
    OBVIOUS
  <2> HIDE DEF H
  <2> QED BY <2>1, <2>2, <2>3, Zenon
<1>5. dir'.meta_ok => dir'.meta.page_size >= HdrSize
  BY <1>3 DEF IInv, Fits
<1>6. /\ Leave("return", 0) /\ UNCHANGED <<boot, opts>>
      /\ out' \in Out /\ used' \in Used
  BY DEF UnpackExit, SUCCESS, IInv, TypeOK
<1> QED BY <1>3, <1>4, <1>5, <1>6, LeaveFrame

(* A kill at any point preserves the invariant.                            *)
LEMMA KillStep ==
  ASSUME IInv, Kill
  PROVE  IInv'
<1>1. used' \in Used
  BY DEF Kill, IInv, TypeOK, Used
<1>2. Leave("kill", 0) /\ UNCHANGED <<boot, dir, out, opts, hist>>
  BY DEF Kill, disk
<1> QED BY <1>1, <1>2, LeaveSame

-----------------------------------------------------------------------------
(* The steps of pack.                                                      *)

(* The steps of pack that do not end the process: what is left to show for *)
(* each.                                                                   *)
LEMMA PackFrame ==
  ASSUME IInv, pc' \in PackPc, UNCHANGED <<boot, dir, opts, b, exit>>,
         out' \in Out, used' \in Used, cur' \in Cur, img' \in Image, hist' \in Hist,
         Packing'
  PROVE  IInv'
<1>1. TypeOK'
  BY DEF IInv, TypeOK
<1>2. Fits'
  BY DEF IInv, Fits, PackPc, UnpackPc
<1> QED BY <1>1, <1>2 DEF IInv

(* A header that fits the page takes exactly one page.                     *)
LEMMA OnePage ==
  ASSUME NEW ps \in Nat \ {0}, NEW n \in Nat \ {0}, n <= ps
  PROVE  B_ps(ps, n) = ps /\ ps % ps = 0
<1>1. n - 1 \in 0..(ps - 1) /\ n + ps - 1 = ps * 1 + (n - 1)
  OBVIOUS
<1>2. (n + ps - 1) \div ps = 1
  BY <1>1, DivUnique
<1>3. ps = ps * 1 + 0 /\ 0 \in 0..(ps - 1)
  OBVIOUS
<1>4. ps % ps = 0
  BY <1>3, DivUnique
<1> QED BY <1>2, <1>4 DEF B_ps

(* bxxt_boot_hdr_from_metadata yields a header whose sections are all      *)
(* empty.                                                                  *)
LEMMA HdrFromMetadata ==
  ASSUME NEW meta \in Meta
  PROVE  LET h == bxxt_boot_hdr_from_metadata(meta) IN
         /\ h \in Hdr /\ h.page_size = meta.page_size
         /\ h.kernel_size = 0 /\ h.ramdisk_size = 0 /\ h.second_size = 0
         /\ h.recovery_dtbo_size = 0 /\ h.dtb_size = 0
<1>1. meta.recovery_dtbo_offset % Word \in Nat /\ meta.dtb_addr % Word \in Nat
  <2>1. meta.recovery_dtbo_offset \in Nat /\ meta.dtb_addr \in Nat
        /\ Word \in Nat \ {0}
    BY LayoutAssumption DEF Meta
  <2> QED BY <2>1, DivMod
<1>2. bxxt_boot_hdr_from_metadata(meta) =
        [magic |-> TRUE, header_version |-> meta.header_version,
         page_size |-> meta.page_size, kernel_size |-> 0, ramdisk_size |-> 0,
         second_size |-> 0, recovery_dtbo_size |-> 0, dtb_size |-> 0,
         recovery_dtbo_offset |-> meta.recovery_dtbo_offset % Word,
         dtb_addr |-> meta.dtb_addr % Word, attrs |-> meta.attrs, id |-> << >>]
  BY DEF bxxt_boot_hdr_from_metadata
<1>3. /\ meta.header_version \in Nat /\ meta.page_size \in Nat \ {0}
      /\ meta.attrs \in Nat
  BY DEF Meta
<1>4. << >> \in Seq(Seq(Cell))
  OBVIOUS
<1>5. bxxt_boot_hdr_from_metadata(meta) \in Hdr
  BY <1>1, <1>2, <1>3, <1>4 DEF Hdr
<1> QED BY <1>2, <1>5

(* The buffer that holds only the header is one page.                      *)
LEMMA EmptyImage ==
  ASSUME NEW f, f.hdr \in Hdr, f.hdr.page_size >= HdrSize,
         f = [hdr |-> f.hdr,
              data |-> bxxt_buffer_align(Cells(HdrSize, MkCell("hdr", 0)),
                                         f.hdr.page_size)],
         f.hdr.kernel_size = 0, f.hdr.ramdisk_size = 0, f.hdr.second_size = 0,
         f.hdr.recovery_dtbo_size = 0, f.hdr.dtb_size = 0
  PROVE  f \in Image /\ Recorded(f, NoParts) /\ PageEnd(f)
<1> DEFINE ps == f.hdr.page_size
           c == Cells(HdrSize, MkCell("hdr", 0))
<1>1. ps \in Nat \ {0} /\ HdrSize \in Nat \ {0} /\ HdrSize <= ps
  BY LayoutAssumption DEF Hdr
<1>2. c \in Seq(Cell) /\ Len(c) = HdrSize
  <2>1. MkCell("hdr", 0) \in Cell
    BY DEF MkCell, Cell, Kinds
  <2> QED BY <2>1, <1>1, CellsType
<1>3. f.data \in Seq(Cell) /\ Len(f.data) = ps /\ ps % ps = 0
  <2>1. /\ bxxt_buffer_align(c, ps) \in Seq(Cell)
        /\ Len(bxxt_buffer_align(c, ps)) = B_ps(ps, HdrSize)
    BY <1>1, <1>2, AlignedBuffer
  <2>2. f.data = bxxt_buffer_align(c, ps)
    OBVIOUS
  <2> QED BY <2>1, <2>2, <1>1, OnePage
<1>4. f \in Image
  BY <1>3 DEF Image
<1>5. B_PAD_o(f.hdr) = ps
  <2>1. B_ps(ps, 0) = 0
    BY <1>1, RoundUpFacts
  <2> QED BY <2>1, <1>1 DEF B_PAD_o, B_DT_o, B_RE_o, B_SE_o, B_RA_o, B_KE_o
<1>6. /\ B_KE_o(f.hdr) \in Nat /\ B_RA_o(f.hdr) \in Nat /\ B_SE_o(f.hdr) \in Nat
      /\ B_RE_o(f.hdr) \in Nat /\ B_DT_o(f.hdr) \in Nat
  BY Offsets
<1>7. /\ KernelOf(f) = << >> /\ RamdiskOf(f) = << >> /\ SecondOf(f) = << >>
      /\ RecoveryDtboOf(f) = << >> /\ DtbOf(f) = << >>
  BY <1>3, <1>6, ReadEmpty DEF KernelOf, RamdiskOf, SecondOf, RecoveryDtboOf, DtbOf
<1>8. Recorded(f, NoParts)
  BY <1>7 DEF Recorded, NoParts
<1> QED BY <1>3, <1>4, <1>5, <1>8 DEF PageEnd

(* PackMeta preserves the invariant.                                       *)
LEMMA PackMetaStep ==
  ASSUME IInv, PackMeta
  PROVE  IInv'
<1>1. CASE ~MetaReads(dir)
  <2>1. Leave("return", FAILED) /\ UNCHANGED <<boot, dir, out, opts, hist>>
    BY <1>1 DEF PackMeta, disk
  <2>2. FAILED \in Int /\ used' \in Used
    BY DEF FAILED, PackMeta, IInv, TypeOK
  <2> QED BY <2>1, <2>2, LeaveSame
<1>2. CASE MetaReads(dir)
  <2> DEFINE h == bxxt_boot_hdr_from_metadata(dir.meta)
  <2>1. dir.meta \in Meta /\ dir.meta.page_size >= HdrSize
    BY <1>2 DEF IInv, TypeOK, Fits, Dir, MetaReads
  <2>2. /\ img' = [hdr |-> h,
                   data |-> bxxt_buffer_align(Cells(HdrSize, MkCell("hdr", 0)),
                                              dir.meta.page_size)]
        /\ hist' = [hist EXCEPT !.parts = NoParts]
        /\ pc' = "p_kernel" /\ UNCHANGED <<boot, dir, out, opts, b, cur, exit, used>>
    BY <1>2 DEF PackMeta, Goto, disk
  <2>3. /\ h \in Hdr /\ h.page_size = dir.meta.page_size
        /\ h.kernel_size = 0 /\ h.ramdisk_size = 0 /\ h.second_size = 0
        /\ h.recovery_dtbo_size = 0 /\ h.dtb_size = 0
    BY <2>1, HdrFromMetadata
  <2> HIDE DEF h
  <2>4. img'.hdr = h
    BY <2>2
  <2>5. img' \in Image /\ Recorded(img', NoParts) /\ PageEnd(img')
    <3>1. img' = [hdr |-> img'.hdr,
                  data |-> bxxt_buffer_align(Cells(HdrSize, MkCell("hdr", 0)),
                                             img'.hdr.page_size)]
      BY <2>2, <2>3, <2>4
    <3>2. img'.hdr \in Hdr /\ img'.hdr.page_size >= HdrSize
      BY <2>1, <2>3, <2>4
    <3> QED BY <3>1, <3>2, <2>3, <2>4, EmptyImage
  <2>6. hist' \in Hist /\ hist'.parts = NoParts
    <3>1. hist \in Hist /\ NoParts \in Parts
      BY NoValues DEF IInv, TypeOK
    <3> QED BY <3>1, <2>2 DEF Hist
  <2>7. Packing'
    BY <2>2, <2>3, <2>4, <2>5, <2>6 DEF Packing, Unwritten, Building, Finished
  <2>8. pc' \in PackPc /\ out' \in Out /\ used' \in Used /\ cur' \in Cur
    BY <2>2 DEF PackPc, IInv, TypeOK
  <2> QED BY <2>2, <2>5, <2>6, <2>7, <2>8, PackFrame
<1> QED BY <1>1, <1>2

(* bxxt_boot_compress_from_file yields cells.                              *)
LEMMA CompressedType ==
  ASSUME NEW content \in Seq(Cell), content # << >>, NEW c \in Compressions
  PROVE  Compressed(content, c) \in Seq(Cell)
<1>1. CASE c = GZIP
  <2>1. Compressed(content, c) = Gzip(content)
    BY <1>1 DEF Compressed, GZIP, NONE
  <2> QED BY <2>1, GzipType
<1>2. CASE c = NONE
  BY <1>2 DEF Compressed, GZIP, NONE
<1>3. CASE c # GZIP /\ c # NONE
  BY <1>3 DEF Compressed
<1> QED BY <1>1, <1>2, <1>3

(* PackKernel preserves the invariant.                                     *)
LEMMA PackKernelStep ==
  ASSUME IInv, PackKernel
  PROVE  IInv'
<1>1. CASE dir.kernel = << >>
  <2>1. Leave("return", FAILED) /\ UNCHANGED <<boot, dir, out, opts, hist>>
    BY <1>1 DEF PackKernel, disk
  <2>2. FAILED \in Int /\ used' \in Used
    BY DEF FAILED, PackKernel, IInv, TypeOK
  <2> QED BY <2>1, <2>2, LeaveSame
<1>2. CASE dir.kernel # << >>
  <2> DEFINE z == Compressed(dir.kernel, dir.meta.kernel_compression)
  <2>1. /\ cur' = [NoCur EXCEPT !.tmp = z] /\ pc' = "p_kernel_dts"
        /\ UNCHANGED <<boot, dir, out, opts, b, img, exit, used, hist>>
    BY <1>2 DEF PackKernel, Goto, disk
  <2>2. dir.kernel \in Seq(Cell) /\ dir.meta.kernel_compression \in Compressions
    BY DEF IInv, TypeOK, Dir, Meta
  <2>3. z \in Seq(Cell)
    BY <1>2, <2>2, CompressedType
  <2> HIDE DEF z
  <2>4. cur' \in Cur
    BY <2>1, <2>3 DEF NoCur, Cur
  <2>5. Packing'
    BY <2>1 DEF PackKernel, IInv, Packing, Unwritten, Building, Finished
  <2>6. pc' \in PackPc /\ out' \in Out /\ used' \in Used /\ img' \in Image /\ hist' \in Hist
    BY <2>1 DEF PackPc, IInv, TypeOK
  <2> QED BY <2>1, <2>4, <2>5, <2>6, PackFrame
<1> QED BY <1>1, <1>2

(* PackRamdisk preserves the invariant.                                    *)
LEMMA PackRamdiskStep ==
  ASSUME IInv, PackRamdisk
  PROVE  IInv'
<1>1. CASE ~dir.ramdisk_dir
  <2>1. Leave("return", FAILED) /\ UNCHANGED <<boot, dir, out, opts, hist>>
    BY <1>1 DEF PackRamdisk, disk
  <2>2. FAILED \in Int /\ used' \in Used
    BY DEF FAILED, PackRamdisk, IInv, TypeOK
  <2> QED BY <2>1, <2>2, LeaveSame
<1>2. CASE dir.ramdisk_dir
  <2>1. /\ cur' = [NoCur EXCEPT !.todo = dir.ramdisk] /\ pc' = "p_cpio"
        /\ UNCHANGED <<boot, dir, out, opts, b, img, exit, used, hist>>
    BY <1>2 DEF PackRamdisk, Goto, disk
  <2>2. cur' \in Cur
    <3>1. dir.ramdisk \in SUBSET Nat
      BY DEF IInv, TypeOK, Dir
    <3> QED BY <2>1, <3>1, NoValues DEF Cur
  <2>3. Packing'
    BY <2>1 DEF PackRamdisk, IInv, Packing, Unwritten, Building, Finished
  <2>4. pc' \in PackPc /\ out' \in Out /\ used' \in Used /\ img' \in Image /\ hist' \in Hist
    BY <2>1 DEF PackPc, IInv, TypeOK
  <2> QED BY <2>1, <2>2, <2>3, <2>4, PackFrame
<1> QED BY <1>1, <1>2

(* PackCpioEntry preserves the invariant.                                  *)
LEMMA PackCpioEntryStep ==
  ASSUME IInv, PackCpioEntry
  PROVE  IInv'
<1>1. PICK e \in cur.todo :
        cur' = [cur EXCEPT !.todo = @ \ {e},
                           !.tmp = Append(@, [MkCell("cpio", e) EXCEPT !.z = 1])]
  BY DEF PackCpioEntry
<1>2. cur \in Cur /\ cur.tmp \in Seq(Cell) /\ e \in Nat
  BY DEF IInv, TypeOK, Cur
<1>3. [MkCell("cpio", e) EXCEPT !.z = 1] \in Cell
  BY <1>2 DEF MkCell, Cell, Kinds
<1>4. Append(cur.tmp, [MkCell("cpio", e) EXCEPT !.z = 1]) \in Seq(Cell)
  BY <1>2, <1>3, AppendProperties
<1>5. cur' \in Cur
  BY <1>1, <1>2, <1>4 DEF Cur
<1>6. pc' = "p_cpio" /\ UNCHANGED <<boot, dir, out, opts, b, img, exit, used, hist>>
  BY DEF PackCpioEntry, Goto, disk
<1>7. Packing'
  BY <1>6 DEF PackCpioEntry, IInv, Packing, Unwritten, Building, Finished
<1>8. pc' \in PackPc /\ out' \in Out /\ used' \in Used /\ img' \in Image /\ hist' \in Hist
  BY <1>6 DEF PackPc, IInv, TypeOK
<1> QED BY <1>5, <1>6, <1>7, <1>8, PackFrame

(* Each iteration of bxxt_boot_compile_fs2blob preserves the invariant.    *)
LEMMA CompileDtsStep ==
  ASSUME IInv, pc \in PackPc, NEW files \in [DtIndex -> Dts], CompileDts(files)
  PROVE  IInv'
<1>1. UNCHANGED <<boot, dir, out, opts, used, hist>>
  BY DEF CompileDts, disk
<1>2. CASE Leave("die", 1)
  <2>1. used' \in Used
    BY <1>1 DEF IInv, TypeOK
  <2> QED BY <1>1, <1>2, <2>1, LeaveSame
<1>3. CASE ~Leave("die", 1)
  <2>1. /\ GoodDts(files, cur.base)
        /\ cur' = [cur EXCEPT !.base = @ + 1,
                              !.tmp = Append(@, MkCell("dtb", files[cur.base]))]
        /\ UNCHANGED <<pc, exit, b, img>>
    BY <1>3 DEF CompileDts
  <2>2. cur \in Cur /\ cur.tmp \in Seq(Cell) /\ cur.base \in DtIndex
    BY <2>1, DirAssumption DEF IInv, TypeOK, Cur, GoodDts, DtIndex
  <2>3. MkCell("dtb", files[cur.base]) \in Cell
    <3>1. files[cur.base] \in Nat
      BY <2>1, <2>2 DEF GoodDts, Dts
    <3> QED BY <3>1 DEF MkCell, Cell, Kinds
  <2>4. Append(cur.tmp, MkCell("dtb", files[cur.base])) \in Seq(Cell)
    BY <2>2, <2>3, AppendProperties
  <2>5. cur' \in Cur
    <3>1. cur.base + 1 \in Nat
      BY <2>2 DEF Cur
    <3> QED BY <2>1, <2>2, <2>4, <3>1 DEF Cur
  <2>6. Packing'
    BY <1>1, <2>1 DEF IInv, Packing, Unwritten, Building, Finished
  <2>7. pc' \in PackPc /\ out' \in Out /\ used' \in Used /\ img' \in Image /\ hist' \in Hist
    BY <1>1, <2>1 DEF IInv, TypeOK
  <2> QED BY <1>1, <2>1, <2>5, <2>6, <2>7, PackFrame
<1> QED BY <1>2, <1>3

(* PackCompileKernelDts preserves the invariant.                           *)
LEMMA PackCompileKernelDtsStep ==
  ASSUME IInv, PackCompileKernelDts
  PROVE  IInv'
<1>1. dir.kernel_dts \in [DtIndex -> Dts] /\ pc \in PackPc
  BY DEF IInv, TypeOK, Dir, PackCompileKernelDts, PackPc
<1> QED BY <1>1, CompileDtsStep DEF PackCompileKernelDts

(* PackCompileDtDts preserves the invariant.                               *)
LEMMA PackCompileDtDtsStep ==
  ASSUME IInv, PackCompileDtDts
  PROVE  IInv'
<1>1. dir.dt_dts \in [DtIndex -> Dts] /\ pc \in PackPc
  BY DEF IInv, TypeOK, Dir, PackCompileDtDts, PackPc
<1> QED BY <1>1, CompileDtsStep DEF PackCompileDtDts

(* The state that a section is added to.                                   *)
LEMMA AddFrom ==
  ASSUME IInv, pc \in Building
  PROVE  /\ img \in Image /\ img.hdr \in Hdr /\ hist \in Hist /\ hist.parts \in Parts
         /\ Recorded(img, hist.parts) /\ PageEnd(img)
<1>1. img \in Image /\ hist \in Hist /\ Recorded(img, hist.parts) /\ PageEnd(img)
  BY DEF IInv, TypeOK, Packing
<1> QED BY <1>1 DEF Image, Hist

(* The state after a section was added.                                    *)
LEMMA AddTo ==
  ASSUME IInv, pc' \in Building, cur' \in Cur, hist' \in Hist,
         UNCHANGED <<boot, dir, out, opts, b, exit, used>>,
         img' \in Image, Recorded(img', hist'.parts), PageEnd(img'), Unwritten'
  PROVE  IInv'
<1>1. Packing'
  BY DEF Packing, Building, Finished
<1>2. pc' \in PackPc /\ out' \in Out /\ used' \in Used
  BY DEF IInv, TypeOK, Building, PackPc
<1> QED BY <1>1, <1>2, PackFrame

(* PackAddKernel preserves the invariant.                                  *)
LEMMA PackAddKernelStep ==
  ASSUME IInv, PackAddKernel
  PROVE  IInv'
<1>1. /\ img \in Image /\ img.hdr \in Hdr /\ hist \in Hist /\ hist.parts \in Parts
      /\ Recorded(img, hist.parts) /\ PageEnd(img)
  BY AddFrom DEF PackAddKernel, Building
<1>2. /\ img.hdr.kernel_size = 0 /\ img.hdr.ramdisk_size = 0
      /\ img.hdr.second_size = 0 /\ img.hdr.recovery_dtbo_size = 0
      /\ img.hdr.dtb_size = 0
  BY DEF PackAddKernel, IInv, Packing, Unwritten, Building
<1>3. cur.tmp \in Seq(Cell)
  BY DEF IInv, TypeOK, Cur
<1>4. /\ img' = [hdr |-> [img.hdr EXCEPT !.kernel_size = Len(cur.tmp)],
                  data |-> pad_data(img.data, cur.tmp, img.hdr.page_size)]
      /\ hist' = [hist EXCEPT !.parts.kernel = cur.tmp]
  <2>1. [img.hdr EXCEPT !.kernel_size = Len(cur.tmp)].page_size = img.hdr.page_size
    BY <1>1 DEF Hdr
  <2> QED BY <2>1 DEF PackAddKernel, AddSection
<1>5. hist' \in Hist /\ hist'.parts = [hist.parts EXCEPT !.kernel = cur.tmp]
  <2>1. [hist.parts EXCEPT !.kernel = cur.tmp] \in Parts
    BY <1>1, <1>3 DEF Parts
  <2> QED BY <1>1, <1>4, <2>1 DEF Hist
<1>6. img' \in Image /\ Recorded(img', hist'.parts) /\ PageEnd(img')
  <2>1. img' = Appended(img, "kernel_size", cur.tmp)
    BY <1>4 DEF Appended
  <2>2. hist'.parts = WithPart(hist.parts, "kernel", cur.tmp)
    BY <1>5 DEF WithPart
  <2> QED BY <1>1, <1>2, <1>3, <2>1, <2>2, AddKernel
<1>7. /\ img'.hdr.ramdisk_size = 0 /\ img'.hdr.second_size = 0
      /\ img'.hdr.recovery_dtbo_size = 0 /\ img'.hdr.dtb_size = 0
  BY <1>1, <1>2, <1>4 DEF Hdr
<1>8. /\ pc' = "p_ramdisk" /\ cur' \in Cur
      /\ UNCHANGED <<boot, dir, out, opts, b, exit, used>>
  BY NoValues DEF PackAddKernel, Goto, disk, IInv, TypeOK
<1>9. Unwritten' /\ pc' \in Building
  BY <1>8, <1>7 DEF Unwritten, Building
<1> QED BY <1>5, <1>6, <1>8, <1>9, AddTo

(* PackAddRamdisk preserves the invariant.                                 *)
LEMMA PackAddRamdiskStep ==
  ASSUME IInv, PackAddRamdisk
  PROVE  IInv'
<1>1. /\ img \in Image /\ img.hdr \in Hdr /\ hist \in Hist /\ hist.parts \in Parts
      /\ Recorded(img, hist.parts) /\ PageEnd(img)
  BY AddFrom DEF PackAddRamdisk, Building
<1>2. /\ img.hdr.ramdisk_size = 0 /\ img.hdr.second_size = 0
      /\ img.hdr.recovery_dtbo_size = 0 /\ img.hdr.dtb_size = 0
  BY DEF PackAddRamdisk, IInv, Packing, Unwritten, Building
<1>3. cur.tmp \in Seq(Cell)
  BY DEF IInv, TypeOK, Cur
<1>4. /\ img' = [hdr |-> [img.hdr EXCEPT !.ramdisk_size = Len(cur.tmp)],
                  data |-> pad_data(img.data, cur.tmp, img.hdr.page_size)]
      /\ hist' = [hist EXCEPT !.parts.ramdisk = cur.tmp]
  <2>1. [img.hdr EXCEPT !.ramdisk_size = Len(cur.tmp)].page_size = img.hdr.page_size
    BY <1>1 DEF Hdr
  <2> QED BY <2>1 DEF PackAddRamdisk, AddSection
<1>5. hist' \in Hist /\ hist'.parts = [hist.parts EXCEPT !.ramdisk = cur.tmp]
  <2>1. [hist.parts EXCEPT !.ramdisk = cur.tmp] \in Parts
    BY <1>1, <1>3 DEF Parts
  <2> QED BY <1>1, <1>4, <2>1 DEF Hist
<1>6. img' \in Image /\ Recorded(img', hist'.parts) /\ PageEnd(img')
  <2>1. img' = Appended(img, "ramdisk_size", cur.tmp)
    BY <1>4 DEF Appended
  <2>2. hist'.parts = WithPart(hist.parts, "ramdisk", cur.tmp)
    BY <1>5 DEF WithPart
  <2> QED BY <1>1, <1>2, <1>3, <2>1, <2>2, AddRamdisk
<1>7. /\ img'.hdr.second_size = 0 /\ img'.hdr.recovery_dtbo_size = 0
      /\ img'.hdr.dtb_size = 0
  BY <1>1, <1>2, <1>4 DEF Hdr
<1>8. /\ pc' = "p_second" /\ cur' \in Cur
      /\ UNCHANGED <<boot, dir, out, opts, b, exit, used>>
  BY NoValues DEF PackAddRamdisk, Goto, disk, IInv, TypeOK
<1>9. Unwritten' /\ pc' \in Building
  BY <1>8, <1>7 DEF Unwritten, Building
<1> QED BY <1>5, <1>6, <1>8, <1>9, AddTo

(* PackSecond preserves the invariant.                                     *)
LEMMA PackSecondStep ==
  ASSUME IInv, PackSecond
  PROVE  IInv'
<1>1. /\ img \in Image /\ img.hdr \in Hdr /\ hist \in Hist /\ hist.parts \in Parts
      /\ Recorded(img, hist.parts) /\ PageEnd(img)
  BY AddFrom DEF PackSecond, Building
<1>2. /\ img.hdr.second_size = 0 /\ img.hdr.recovery_dtbo_size = 0
      /\ img.hdr.dtb_size = 0
  BY DEF PackSecond, IInv, Packing, Unwritten, Building
<1>3. dir.second \in Seq(Cell)
  BY DEF IInv, TypeOK, Dir
<1>4. CASE dir.second # << >>
  <2>1. /\ img' = [hdr |-> [img.hdr EXCEPT !.second_size = Len(dir.second)],
                    data |-> pad_data(img.data, dir.second, img.hdr.page_size)]
        /\ hist' = [hist EXCEPT !.parts.second = dir.second]
    <3>1. [img.hdr EXCEPT !.second_size = Len(dir.second)].page_size = img.hdr.page_size
      BY <1>1 DEF Hdr
    <3> QED BY <3>1, <1>4 DEF PackSecond, AddSection
  <2>2. hist' \in Hist /\ hist'.parts = [hist.parts EXCEPT !.second = dir.second]
    <3>1. [hist.parts EXCEPT !.second = dir.second] \in Parts
      BY <1>1, <1>3 DEF Parts
    <3> QED BY <1>1, <2>1, <3>1 DEF Hist
  <2>3. img' \in Image /\ Recorded(img', hist'.parts) /\ PageEnd(img')
    <3>1. img' = Appended(img, "second_size", dir.second)
      BY <2>1 DEF Appended
    <3>2. hist'.parts = WithPart(hist.parts, "second", dir.second)
      BY <2>2 DEF WithPart
    <3> QED BY <1>1, <1>2, <1>3, <3>1, <3>2, AddSecond
  <2>4. img'.hdr.recovery_dtbo_size = 0 /\ img'.hdr.dtb_size = 0
    BY <1>1, <1>2, <2>1 DEF Hdr
  <2>5. /\ pc' = "p_recovery_dtbo" /\ cur' \in Cur
        /\ UNCHANGED <<boot, dir, out, opts, b, exit, used>>
    BY NoValues DEF PackSecond, Goto, disk, IInv, TypeOK
  <2>6. Unwritten' /\ pc' \in Building
    BY <2>5, <2>4 DEF Unwritten, Building
  <2> QED BY <2>2, <2>3, <2>5, <2>6, AddTo
<1>5. CASE dir.second = << >>
  <2>1. pc' = "p_recovery_dtbo" /\ UNCHANGED <<boot, dir, out, opts, b, cur, img, exit, used, hist>>
    BY <1>5 DEF PackSecond, Goto, disk
  <2>2. cur' \in Cur /\ hist' \in Hist /\ img' \in Image
    BY <2>1 DEF IInv, TypeOK
  <2>3. Recorded(img', hist'.parts) /\ PageEnd(img')
    BY <2>1, <1>1
  <2>4. Unwritten' /\ pc' \in Building
    BY <2>1 DEF PackSecond, IInv, Packing, Unwritten, Building
  <2> QED BY <2>1, <2>2, <2>3, <2>4, AddTo
<1> QED BY <1>4, <1>5

(* PackRecoveryDtbo preserves the invariant.                               *)
LEMMA PackRecoveryDtboStep ==
  ASSUME IInv, PackRecoveryDtbo
  PROVE  IInv'
<1>1. /\ img \in Image /\ img.hdr \in Hdr /\ hist \in Hist /\ hist.parts \in Parts
      /\ Recorded(img, hist.parts) /\ PageEnd(img)
  BY AddFrom DEF PackRecoveryDtbo, Building
<1>2. img.hdr.recovery_dtbo_size = 0 /\ img.hdr.dtb_size = 0
  BY DEF PackRecoveryDtbo, IInv, Packing, Unwritten, Building
<1>3. dir.recovery_dtbo \in Seq(Cell)
  BY DEF IInv, TypeOK, Dir
<1>4. CASE dir.recovery_dtbo # << >>
  <2>1. /\ img' = [hdr |-> [img.hdr EXCEPT !.recovery_dtbo_size = Len(dir.recovery_dtbo)],
                    data |-> pad_data(img.data, dir.recovery_dtbo, img.hdr.page_size)]
        /\ hist' = [hist EXCEPT !.parts.recovery_dtbo = dir.recovery_dtbo]
    <3>1. [img.hdr EXCEPT !.recovery_dtbo_size = Len(dir.recovery_dtbo)].page_size = img.hdr.page_size
      BY <1>1 DEF Hdr
    <3> QED BY <3>1, <1>4 DEF PackRecoveryDtbo, AddSection
  <2>2. hist' \in Hist /\ hist'.parts = [hist.parts EXCEPT !.recovery_dtbo = dir.recovery_dtbo]
    <3>1. [hist.parts EXCEPT !.recovery_dtbo = dir.recovery_dtbo] \in Parts
      BY <1>1, <1>3 DEF Parts
    <3> QED BY <1>1, <2>1, <3>1 DEF Hist
  <2>3. img' \in Image /\ Recorded(img', hist'.parts) /\ PageEnd(img')
    <3>1. img' = Appended(img, "recovery_dtbo_size", dir.recovery_dtbo)
      BY <2>1 DEF Appended
    <3>2. hist'.parts = WithPart(hist.parts, "recovery_dtbo", dir.recovery_dtbo)
      BY <2>2 DEF WithPart
    <3> QED BY <1>1, <1>2, <1>3, <3>1, <3>2, AddRecoveryDtbo
  <2>4. img'.hdr.dtb_size = 0
    BY <1>1, <1>2, <2>1 DEF Hdr
  <2>5. /\ pc' = "p_dtb" /\ cur' \in Cur
        /\ UNCHANGED <<boot, dir, out, opts, b, exit, used>>
    BY NoValues DEF PackRecoveryDtbo, Goto, disk, IInv, TypeOK
  <2>6. Unwritten' /\ pc' \in Building
    BY <2>5, <2>4 DEF Unwritten, Building
  <2> QED BY <2>2, <2>3, <2>5, <2>6, AddTo
<1>5. CASE dir.recovery_dtbo = << >>
  <2>1. pc' = "p_dtb" /\ UNCHANGED <<boot, dir, out, opts, b, cur, img, exit, used, hist>>
    BY <1>5 DEF PackRecoveryDtbo, Goto, disk
  <2>2. cur' \in Cur /\ hist' \in Hist /\ img' \in Image
    BY <2>1 DEF IInv, TypeOK
  <2>3. Recorded(img', hist'.parts) /\ PageEnd(img')
    BY <2>1, <1>1
  <2>4. Unwritten' /\ pc' \in Building
    BY <2>1 DEF PackRecoveryDtbo, IInv, Packing, Unwritten, Building
  <2> QED BY <2>1, <2>2, <2>3, <2>4, AddTo
<1> QED BY <1>4, <1>5

(* PackAddDtb preserves the invariant.                                     *)
LEMMA PackAddDtbStep ==
  ASSUME IInv, PackAddDtb
  PROVE  IInv'
<1>1. /\ img \in Image /\ img.hdr \in Hdr /\ hist \in Hist /\ hist.parts \in Parts
      /\ Recorded(img, hist.parts) /\ PageEnd(img)
  BY AddFrom DEF PackAddDtb, Building
<1>2. img.hdr.dtb_size = 0
  BY DEF PackAddDtb, IInv, Packing, Unwritten, Building
<1>3. cur.tmp \in Seq(Cell)
  BY DEF IInv, TypeOK, Cur
<1>4. /\ img' = [hdr |-> [img.hdr EXCEPT !.dtb_size = Len(cur.tmp)],
                  data |-> pad_data(img.data, cur.tmp, img.hdr.page_size)]
      /\ hist' = [hist EXCEPT !.parts.dtb = cur.tmp]
  <2>1. [img.hdr EXCEPT !.dtb_size = Len(cur.tmp)].page_size = img.hdr.page_size
    BY <1>1 DEF Hdr
  <2> QED BY <2>1 DEF PackAddDtb, AddSection
<1>5. hist' \in Hist /\ hist'.parts = [hist.parts EXCEPT !.dtb = cur.tmp]
  <2>1. [hist.parts EXCEPT !.dtb = cur.tmp] \in Parts
    BY <1>1, <1>3 DEF Parts
  <2> QED BY <1>1, <1>4, <2>1 DEF Hist
<1>6. img' \in Image /\ Recorded(img', hist'.parts) /\ PageEnd(img')
  <2>1. img' = Appended(img, "dtb_size", cur.tmp)
    BY <1>4 DEF Appended
  <2>2. hist'.parts = WithPart(hist.parts, "dtb", cur.tmp)
    BY <1>5 DEF WithPart
  <2> QED BY <1>1, <1>2, <1>3, <2>1, <2>2, AddDtb
<1>8. /\ pc' = "p_extra" /\ cur' \in Cur
      /\ UNCHANGED <<boot, dir, out, opts, b, exit, used>>
  BY NoValues DEF PackAddDtb, Goto, disk, IInv, TypeOK
<1>9. Unwritten' /\ pc' \in Building
  BY <1>8 DEF Unwritten, Building
<1> QED BY <1>5, <1>6, <1>8, <1>9, AddTo

(* Trailing data after the last section leaves the sections as they are.   *)
LEMMA AddExtra ==
  ASSUME NEW f \in Image, NEW p \in Parts, NEW s \in Seq(Cell), NEW g,
         Recorded(f, p), PageEnd(f),
         g = [hdr |-> f.hdr, data |-> pad_data(f.data, s, f.hdr.page_size)]
  PROVE  g \in Image /\ Recorded(g, p) /\ B_PAD_o(g.hdr) <= Len(g.data)
<1> DEFINE h == f.hdr
           d == f.data
           ps == f.hdr.page_size
<1>1. /\ f.hdr \in Hdr /\ d \in Seq(Cell) /\ ps \in Nat \ {0} /\ Len(s) \in Nat
      /\ Len(d) \in Nat /\ Len(d) % ps = 0 /\ B_PAD_o(h) = Len(d)
      /\ h.kernel_size \in Nat /\ h.ramdisk_size \in Nat /\ h.second_size \in Nat
      /\ h.recovery_dtbo_size \in Nat /\ h.dtb_size \in Nat
  BY LenProperties DEF Image, Hdr, PageEnd
<1>2. g.hdr = h /\ g.data = pad_data(d, s, ps)
  OBVIOUS
<1>3. /\ pad_data(d, s, ps) \in Seq(Cell)
      /\ Len(pad_data(d, s, ps)) = Len(d) + B_ps(ps, Len(s))
      /\ \A o \in Nat : \A m \in Nat : o + m <= Len(d) =>
            ReadAt(pad_data(d, s, ps), o, m) = ReadAt(d, o, m)
  <2>1. ps \in Nat \ {0} /\ d \in Seq(Cell) /\ s \in Seq(Cell) /\ Len(d) % ps = 0
    BY <1>1
  <2> HIDE DEF d, ps
  <2> QED BY ONLY <2>1, PadData
<1>4. g \in Image
  BY <1>1, <1>2, <1>3 DEF Image
<1>5. B_PAD_o(g.hdr) <= Len(g.data)
  <2>1. B_ps(ps, Len(s)) \in Nat
    BY <1>1, RoundUpFacts
  <2> QED BY <2>1, <1>1, <1>2, <1>3
<1>6. /\ B_KE_o(h) \in Nat /\ B_RA_o(h) \in Nat /\ B_SE_o(h) \in Nat
      /\ B_RE_o(h) \in Nat /\ B_DT_o(h) \in Nat /\ B_PAD_o(h) \in Nat
  BY <1>1, Offsets
<1>7. /\ B_KE_o(h) + h.kernel_size <= Len(d) /\ B_RA_o(h) + h.ramdisk_size <= Len(d)
      /\ B_SE_o(h) + h.second_size <= Len(d)
      /\ B_RE_o(h) + h.recovery_dtbo_size <= Len(d)
      /\ B_DT_o(h) + h.dtb_size <= Len(d)
  <2>1. B_PAD_o(h) <= Len(d)
    BY <1>1
  <2> QED BY <2>1, <1>1, OffsetsBelow
<1>8. /\ KernelOf(g) = KernelOf(f) /\ RamdiskOf(g) = RamdiskOf(f)
      /\ SecondOf(g) = SecondOf(f) /\ RecoveryDtboOf(g) = RecoveryDtboOf(f)
      /\ DtbOf(g) = DtbOf(f)
  BY <1>1, <1>2, <1>3, <1>6, <1>7
     DEF KernelOf, RamdiskOf, SecondOf, RecoveryDtboOf, DtbOf
<1>9. Recorded(g, p)
  BY <1>2, <1>8 DEF Recorded
<1> QED BY <1>4, <1>5, <1>9

(* PackExtra preserves the invariant.                                      *)
LEMMA PackExtraStep ==
  ASSUME IInv, PackExtra
  PROVE  IInv'
<1>1. /\ img \in Image /\ img.hdr \in Hdr /\ hist \in Hist /\ hist.parts \in Parts
      /\ Recorded(img, hist.parts) /\ PageEnd(img)
  BY AddFrom DEF PackExtra, Building
<1>2. pc' = "p_check" /\ UNCHANGED <<boot, dir, out, opts, b, cur, exit, used, hist>>
  BY DEF PackExtra, Goto, disk
<1>3. img' \in Image /\ Recorded(img', hist.parts) /\ B_PAD_o(img'.hdr) <= Len(img'.data)
  <2>1. CASE AddSection(img.hdr, dir.extra)
    <3>1. dir.extra \in Seq(Cell)
      BY DEF IInv, TypeOK, Dir
    <3>2. img' = [hdr |-> img.hdr, data |-> pad_data(img.data, dir.extra, img.hdr.page_size)]
      BY <2>1 DEF AddSection
    <3> QED BY <1>1, <3>1, <3>2, AddExtra
  <2>2. CASE UNCHANGED img
    <3>1. B_PAD_o(img.hdr) = Len(img.data) /\ Len(img.data) \in Nat
      BY <1>1, LenProperties DEF PageEnd, Image
    <3> QED BY <2>2, <1>1, <3>1
  <2> QED BY <2>1, <2>2 DEF PackExtra
<1>4. Packing'
  BY <1>2, <1>3 DEF Packing, Unwritten, Building, Finished
<1>5. pc' \in PackPc /\ out' \in Out /\ used' \in Used /\ cur' \in Cur /\ hist' \in Hist
  BY <1>2 DEF PackPc, IInv, TypeOK
<1> QED BY <1>2, <1>3, <1>4, <1>5, PackFrame

(* The id that bxxt_boot_pack_all copies into the header.                  *)
WithId(f, id) == [f EXCEPT !.hdr.id = id]

(* The id is no part of the layout.                                        *)
LEMMA NewIdKeeps ==
  ASSUME NEW f \in Image, NEW p \in Parts, NEW id \in Seq(Seq(Cell)), NEW g,
         Recorded(f, p), g = WithId(f, id)
  PROVE  g \in Image /\ Recorded(g, p) /\ B_PAD_o(g.hdr) = B_PAD_o(f.hdr) /\ g.data = f.data
<1>0. g = [f EXCEPT !.hdr.id = id]
  BY DEF WithId
<1>1. f.hdr \in Hdr /\ g.hdr = [f.hdr EXCEPT !.id = id] /\ g.data = f.data
  BY <1>0 DEF Image
<1>2. [f.hdr EXCEPT !.id = id] \in Hdr /\ g.hdr \in Hdr
  <2>1. [f.hdr EXCEPT !.id = id] \in Hdr
    BY ONLY <1>1, id \in Seq(Seq(Cell)) DEF Hdr
  <2> QED BY <2>1, <1>1
<1>3. /\ g.hdr.page_size = f.hdr.page_size
      /\ g.hdr.kernel_size = f.hdr.kernel_size
      /\ g.hdr.ramdisk_size = f.hdr.ramdisk_size
      /\ g.hdr.second_size = f.hdr.second_size
      /\ g.hdr.recovery_dtbo_size = f.hdr.recovery_dtbo_size
      /\ g.hdr.dtb_size = f.hdr.dtb_size
  BY ONLY <1>1 DEF Hdr
<1>4. g \in Image
  <2>1. g = [hdr |-> g.hdr, data |-> g.data] /\ f.data \in Seq(Cell)
    BY <1>0 DEF Image
  <2> QED BY <2>1, <1>1, <1>2 DEF Image
<1>5. /\ B_KE_o(g.hdr) = B_KE_o(f.hdr) /\ B_RA_o(g.hdr) = B_RA_o(f.hdr)
      /\ B_SE_o(g.hdr) = B_SE_o(f.hdr) /\ B_RE_o(g.hdr) = B_RE_o(f.hdr)
      /\ B_DT_o(g.hdr) = B_DT_o(f.hdr) /\ B_PAD_o(g.hdr) = B_PAD_o(f.hdr)
  BY <1>3 DEF B_KE_o, B_RA_o, B_SE_o, B_RE_o, B_DT_o, B_PAD_o
<1>6. /\ KernelOf(g) = KernelOf(f) /\ RamdiskOf(g) = RamdiskOf(f)
      /\ SecondOf(g) = SecondOf(f) /\ RecoveryDtboOf(g) = RecoveryDtboOf(f)
      /\ DtbOf(g) = DtbOf(f)
  BY <1>1, <1>3, <1>5 DEF KernelOf, RamdiskOf, SecondOf, RecoveryDtboOf, DtbOf
<1>7. Recorded(g, p)
  BY <1>3, <1>6 DEF Recorded
<1> QED BY <1>1, <1>4, <1>5, <1>7

(* PackCheck preserves the invariant.                                      *)
LEMMA PackCheckStep ==
  ASSUME IInv, PackCheck
  PROVE  IInv'
<1>1. /\ img \in Image /\ hist \in Hist /\ hist.parts \in Parts
      /\ Recorded(img, hist.parts) /\ B_PAD_o(img.hdr) <= Len(img.data)
  BY DEF PackCheck, IInv, TypeOK, Packing, Finished, Hist
<1>2. bxxt_boot_img_signature(img) \in Seq(Seq(Cell))
  BY <1>1, SignatureType
<1>3. img' = WithId(img, bxxt_boot_img_signature(img))
  BY DEF PackCheck, WithId
<1>4. /\ img' \in Image /\ Recorded(img', hist.parts)
      /\ B_PAD_o(img'.hdr) = B_PAD_o(img.hdr) /\ img'.data = img.data
  BY <1>1, <1>2, <1>3, NewIdKeeps
<1>5. pc' = "p_write" /\ UNCHANGED <<boot, dir, out, opts, b, cur, exit, used, hist>>
  BY DEF PackCheck, Goto, disk
<1>6. Packing'
  BY <1>1, <1>4, <1>5 DEF Packing, Unwritten, Building, Finished
<1>7. pc' \in PackPc /\ out' \in Out /\ used' \in Used /\ cur' \in Cur /\ hist' \in Hist
  BY <1>5 DEF PackPc, IInv, TypeOK
<1> QED BY <1>4, <1>5, <1>6, <1>7, PackFrame

(* PackOpenOutput preserves the invariant.                                 *)
LEMMA PackOpenOutputStep ==
  ASSUME IInv, PackOpenOutput
  PROVE  IInv'
<1>1. CASE Leave("return", FAILED)
  <2>1. FAILED \in Int /\ used' \in Used
    BY DEF FAILED, PackOpenOutput, IInv, TypeOK, Used
  <2>2. CASE UNCHANGED out
    BY <1>1, <2>1, <2>2, LeaveSame DEF PackOpenOutput
  <2>3. CASE ~UNCHANGED out
    <3>1. pc' = "p_writing"
      BY <2>3 DEF PackOpenOutput, Goto
    <3> QED BY <3>1, <1>1 DEF Leave
  <2> QED BY <2>2, <2>3
<1>2. CASE ~Leave("return", FAILED)
  <2>1. /\ out' = [st |-> "torn", img |-> NoImage] /\ pc' = "p_writing"
        /\ UNCHANGED <<boot, dir, opts, b, cur, img, exit, used, hist>>
    BY <1>2 DEF PackOpenOutput, Goto, mem
  <2>2. out' \in Out
    BY <2>1, NoValues DEF Out
  <2>3. Packing'
    BY <2>1 DEF PackOpenOutput, IInv, Packing, Unwritten, Building, Finished
  <2>4. /\ pc' \in PackPc /\ used' \in Used /\ cur' \in Cur /\ img' \in Image
        /\ hist' \in Hist
    BY <2>1 DEF PackPc, IInv, TypeOK
  <2> QED BY <2>1, <2>2, <2>3, <2>4, PackFrame
<1> QED BY <1>1, <1>2

(* PackWriteOutput preserves the invariant.                                *)
LEMMA PackWriteOutputStep ==
  ASSUME IInv, PackWriteOutput
  PROVE  IInv'
<1>1. /\ dir' \in Dir /\ UNCHANGED <<boot, opts>>
      /\ dir'.meta_ok => dir'.meta.page_size >= HdrSize
  BY DEF PackWriteOutput, IInv, TypeOK, Fits
<1>2. img \in Image /\ out \in Out /\ hist \in Hist /\ used \in Used
  BY DEF IInv, TypeOK
<1>3. CASE /\ out' = [st |-> "whole", img |-> img]
           /\ hist' = [hist EXCEPT !.made_from = hist.from,
                                   !.made_complete = hist.complete,
                                   !.made_packed = hist.packed]
           /\ Leave("return", SUCCESS) /\ UNCHANGED used
  <2>1. out' \in Out
    BY <1>2, <1>3 DEF Out
  <2>2. hist' \in Hist
    <3>1. /\ hist.from \in Image /\ hist.complete \in BOOLEAN
          /\ hist.packed \in BOOLEAN
      BY <1>2 DEF Hist
    <3> QED BY <1>2, <1>3, <3>1 DEF Hist
  <2>3. Leave("return", 0) /\ used' \in Used
    BY <1>2, <1>3 DEF SUCCESS
  <2> QED BY <1>1, <2>1, <2>2, <2>3, LeaveFrame
<1>4. CASE /\ used' = [used EXCEPT !.faults = @ + 1]
           /\ \E n \in 0..(Len(img.data) - 1) :
                Leave("return", IF n = 0 THEN -1 ELSE n)
           /\ UNCHANGED <<out, hist>>
  <2>1. PICK n \in 0..(Len(img.data) - 1) : Leave("return", IF n = 0 THEN -1 ELSE n)
    BY <1>4
  <2>2. (IF n = 0 THEN -1 ELSE n) \in Int
    OBVIOUS
  <2>3. used' \in Used
    BY <1>2, <1>4 DEF Used
  <2>4. out' \in Out /\ hist' \in Hist
    BY <1>2, <1>4
  <2> QED BY <1>1, <2>1, <2>2, <2>3, <2>4, LeaveFrame
<1> QED BY <1>3, <1>4 DEF PackWriteOutput

-----------------------------------------------------------------------------
(* The user's steps.                                                       *)

(* The steps of the user: what is left to show for each.                   *)
LEMMA UserFrame ==
  ASSUME IInv, UserTurn, dir' \in Dir, hist' \in Hist, boot' \in Image,
         boot'.hdr.page_size >= HdrSize, B_PAD_o(boot'.hdr) <= Len(boot'.data),
         dir'.meta_ok => dir'.meta.page_size >= HdrSize
  PROVE  IInv'
<1>1. /\ pc' = "idle" /\ exit' \in Exit /\ used' \in Used
      /\ UNCHANGED <<out, opts, b, cur, img>>
  BY NoValues DEF UserTurn, mem, IInv, TypeOK, Used
<1>2. TypeOK'
  BY <1>1 DEF IInv, TypeOK
<1>3. Fits'
  BY <1>1 DEF Fits, UnpackPc
<1>4. Packing'
  BY <1>1, PackingOutside DEF Building, Finished
<1> QED BY <1>2, <1>3, <1>4 DEF IInv

(* The steps of the user that leave the image to unpack alone.             *)
LEMMA EditFrame ==
  ASSUME IInv, UserTurn, UNCHANGED boot, dir' \in Dir, hist' \in Hist,
         dir'.meta_ok => dir'.meta.page_size >= HdrSize
  PROVE  IInv'
<1>1. /\ boot' \in Image /\ boot'.hdr.page_size >= HdrSize
      /\ B_PAD_o(boot'.hdr) <= Len(boot'.data)
  BY DEF IInv, TypeOK, Fits
<1> QED BY <1>1, UserFrame

(* The kernels the user may copy into the directory are cells.             *)
LEMMA NewCells ==
  /\ NewImage(0) \in Seq(Cell) /\ NewImage(1) \in Seq(Cell)
  /\ NewImage(1) \o <<MkCell("dtb", NewId)>> \in Seq(Cell)
<1>1. NewId \in Nat
  BY BootAssumption
<1>2. /\ [MkCell("kernel", NewId) EXCEPT !.z = 0] \in Cell
      /\ [MkCell("kernel", NewId) EXCEPT !.z = 1] \in Cell
      /\ MkCell("dtb", NewId) \in Cell
  BY <1>1 DEF MkCell, Cell, Kinds
<1>3. NewImage(0) \in Seq(Cell) /\ NewImage(1) \in Seq(Cell)
  BY <1>2 DEF NewImage
<1>4. <<MkCell("dtb", NewId)>> \in Seq(Cell)
  BY <1>2
<1> QED BY <1>3, <1>4, ConcatProperties

(* The edits of ramdisk, device trees and METADATA preserve the invariant. *)
LEMMA EditsStep ==
  ASSUME IInv, AddFile \/ RemoveFile \/ EditDts \/ EditPageSize
  PROVE  IInv'
<1>1. /\ dir \in Dir /\ hist \in Hist /\ NoImage \in Image /\ NewId \in Nat
      /\ dir.meta_ok => dir.meta.page_size >= HdrSize
  BY NoValues, BootAssumption DEF IInv, TypeOK, Fits
<1>2. UserTurn /\ UNCHANGED boot /\ hist' = [hist EXCEPT !.from = NoImage]
  BY DEF AddFile, RemoveFile, EditDts, EditPageSize, Edit
<1>3. hist' \in Hist
  BY <1>1, <1>2 DEF Hist
<1>4. dir' \in Dir /\ (dir'.meta_ok => dir'.meta.page_size >= HdrSize)
  <2>1. CASE AddFile
    BY <2>1, <1>1 DEF AddFile, Dir
  <2>2. CASE RemoveFile
    BY <2>2, <1>1 DEF RemoveFile, Dir
  <2>3. CASE EditDts
    <3>1. PICK i \in DtIndex : dir' = [dir EXCEPT !.kernel_dts[i] = NewId]
      BY <2>3 DEF EditDts
    <3>2. [dir.kernel_dts EXCEPT ![i] = NewId] \in [DtIndex -> Dts]
      <4>1. dir.kernel_dts \in [DtIndex -> Dts] /\ NewId \in Dts
        BY <1>1 DEF Dir, Dts
      <4> QED BY <4>1
    <3> QED BY <3>1, <3>2, <1>1 DEF Dir
  <2>4. CASE EditPageSize
    <3>1. PICK ps \in PageSizes : dir' = [dir EXCEPT !.meta.page_size = ps]
      BY <2>4 DEF EditPageSize
    <3>2. ps \in Nat \ {0} /\ ps >= HdrSize
      BY BootAssumption
    <3>3. dir.meta \in Meta
      BY <1>1 DEF Dir
    <3>4. /\ [dir.meta EXCEPT !.page_size = ps] \in Meta
          /\ [dir.meta EXCEPT !.page_size = ps].page_size = ps
      BY <3>2, <3>3 DEF Meta
    <3>5. dir' \in Dir /\ dir'.meta = [dir.meta EXCEPT !.page_size = ps]
      BY <3>1, <3>4, <1>1 DEF Dir
    <3> QED BY <3>2, <3>4, <3>5
  <2> QED BY <2>1, <2>2, <2>3, <2>4
<1> QED BY <1>2, <1>3, <1>4, EditFrame

(* The three ways of README.md to replace the kernel preserve the          *)
(* invariant.                                                              *)
LEMMA ReplaceKernelStep ==
  ASSUME IInv, ReplaceKernel
  PROVE  IInv'
<1>1. /\ dir \in Dir /\ hist \in Hist /\ NoImage \in Image
      /\ NoDts \in [DtIndex -> Dts] /\ dir.meta \in Meta
      /\ dir.meta_ok => dir.meta.page_size >= HdrSize
  BY NoValues DEF IInv, TypeOK, Fits, Dir
<1>2. UserTurn /\ UNCHANGED boot
  BY DEF ReplaceKernel, Edit
<1>3. /\ [dir.meta EXCEPT !.kernel_compression = NONE] \in Meta
      /\ [dir.meta EXCEPT !.kernel_compression = NONE].page_size = dir.meta.page_size
  BY <1>1 DEF Meta, Compressions, NONE
<1> DEFINE D1 == [dir EXCEPT !.kernel = NewImage(1) \o <<MkCell("dtb", NewId)>>,
                             !.meta.kernel_compression = NONE, !.kernel_dts = NoDts]
           D2 == [dir EXCEPT !.kernel = NewImage(1), !.meta.kernel_compression = NONE]
           D3 == [dir EXCEPT !.kernel = NewImage(0)]
           E(e) == [hist EXCEPT !.from = NoImage, !.recipe = "Image.gz-dtb",
                                !.complete = e]
           c == hist.complete \/ \A i \in DtIndex : dir.dt_dts[i] # UNFLUSHED
<1>4. /\ D1 \in Dir /\ D1.meta = [dir.meta EXCEPT !.kernel_compression = NONE]
      /\ D1.meta_ok = dir.meta_ok
  BY <1>1, <1>3, NewCells DEF Dir
<1>5. /\ D2 \in Dir /\ D2.meta = [dir.meta EXCEPT !.kernel_compression = NONE]
      /\ D2.meta_ok = dir.meta_ok
  BY <1>1, <1>3, NewCells DEF Dir
<1>6. D3 \in Dir /\ D3.meta = dir.meta /\ D3.meta_ok = dir.meta_ok
  BY <1>1, NewCells DEF Dir
<1>7. dir' \in {D1, D2, D3}
  BY DEF ReplaceKernel
<1>8. dir' \in Dir /\ (dir'.meta_ok => dir'.meta.page_size >= HdrSize)
  <2> HIDE DEF D1, D2, D3
  <2> QED BY <1>1, <1>3, <1>4, <1>5, <1>6, <1>7
<1>9. hist' \in Hist
  <2>1. E(TRUE) \in Hist /\ E(FALSE) \in Hist
    BY <1>1 DEF Hist, Recipes
  <2>2. c = TRUE \/ c = FALSE
    OBVIOUS
  <2>3. E(c) \in Hist
    <3> HIDE DEF E, c
    <3> QED BY <2>1, <2>2, Zenon
  <2>4. /\ [hist EXCEPT !.from = NoImage, !.recipe = "Image.gz"] \in Hist
        /\ [hist EXCEPT !.from = NoImage, !.recipe = "Image"] \in Hist
    BY <1>1 DEF Hist, Recipes
  <2>5. \/ hist' = E(c)
        \/ hist' = [hist EXCEPT !.from = NoImage, !.recipe = "Image.gz"]
        \/ hist' = [hist EXCEPT !.from = NoImage, !.recipe = "Image"]
    BY Zenon DEF ReplaceKernel
  <2> QED BY <2>3, <2>4, <2>5, Zenon
<1> QED BY <1>2, <1>8, <1>9, EditFrame

(* Emptying the directory preserves the invariant.                         *)
LEMMA CleanDirStep ==
  ASSUME IInv, CleanDir
  PROVE  IInv'
<1>1. hist \in Hist /\ NoImage \in Image /\ EmptyDir \in Dir /\ ~EmptyDir.meta_ok
  BY NoValues DEF IInv, TypeOK, EmptyDir
<1>2. hist' \in Hist
  BY <1>1 DEF CleanDir, Hist, Recipes
<1>3. UserTurn /\ UNCHANGED boot /\ dir' = EmptyDir
  BY DEF CleanDir
<1> QED BY <1>1, <1>2, <1>3, EditFrame

(* Unpacking the image just packed preserves the invariant: WellFormed     *)
(* gives the bounds.                                                       *)
LEMMA AdoptStep ==
  ASSUME IInv, Adopt
  PROVE  IInv'
<1>1. hist \in Hist /\ NoImage \in Image /\ dir \in Dir
      /\ (dir.meta_ok => dir.meta.page_size >= HdrSize)
  BY NoValues DEF IInv, TypeOK, Fits
<1>2. hist' \in Hist
  BY <1>1 DEF Adopt, Hist
<1>3. /\ boot' \in Image /\ boot'.hdr.page_size >= HdrSize
      /\ B_PAD_o(boot'.hdr) <= Len(boot'.data)
  BY DEF Adopt, WellFormed
<1>4. UserTurn /\ UNCHANGED dir
  BY DEF Adopt
<1> QED BY <1>1, <1>2, <1>3, <1>4, UserFrame

-----------------------------------------------------------------------------
(* The theorems.                                                           *)

(* Every step, one lemma per action, preserves the invariant.              *)
LEMMA NextIInv == IInv /\ [Next]_vars => IInv'
<1> SUFFICES ASSUME IInv, [Next]_vars PROVE IInv'
  OBVIOUS
<1>1. CASE Unpack
  BY <1>1, UnpackOpenStep, UnpackScanKernelStep, UnpackScanDtbStep, UnpackKernelStep,
     UnpackRecoveryDtboStep, UnpackSecondStep, UnpackExtraStep, UnpackKernelDtsStep,
     UnpackDtDtsStep, UnpackMkdirStep, UnpackRamdiskStep, UnpackMetaStep,
     UnpackExitStep DEF Unpack
<1>2. CASE Pack
  BY <1>2, PackMetaStep, PackKernelStep, PackCompileKernelDtsStep, PackAddKernelStep,
     PackRamdiskStep, PackCpioEntryStep, PackAddRamdiskStep, PackSecondStep,
     PackRecoveryDtboStep, PackCompileDtDtsStep, PackAddDtbStep, PackExtraStep,
     PackCheckStep, PackOpenOutputStep, PackWriteOutputStep DEF Pack
<1>3. CASE User
  BY <1>3, UnpackStartStep, PackStartStep, EditsStep, ReplaceKernelStep, CleanDirStep,
     AdoptStep DEF User
<1>4. CASE Kill
  BY <1>4, KillStep
<1>5. CASE UNCHANGED vars
  <2>1. UNCHANGED <<boot, dir, out, pc, opts, b, cur, img, exit, used, hist>>
    BY <1>5 DEF vars
  <2>2. TypeOK' /\ Fits'
    BY <2>1 DEF IInv, TypeOK, Fits
  <2>3. Packing'
    BY <2>1 DEF IInv, Packing, Unwritten
  <2> QED BY <2>2, <2>3 DEF IInv
<1> QED BY <1>1, <1>2, <1>3, <1>4, <1>5 DEF Next

(* For all images, page sizes and directories, whatever the user does and  *)
(* wherever a command fails or is killed, every variable keeps its type.   *)
THEOREM TypeCorrect == Spec => []TypeOK
<1>1. IInv => TypeOK
  BY DEF IInv
<1> QED BY <1>1, InitIInv, NextIInv, PTL DEF Spec

(* At every stage bxxt_boot_pack_all has written up to the offset at which *)
(* the macros of bxxt_boot_init1 will look for the next section.           *)
THEOREM WriterAgreesWithReader == Spec => []LayoutAgree
<1>1. IInv => LayoutAgree
  <2> SUFFICES ASSUME IInv PROVE LayoutAgree
    OBVIOUS
  <2>1. CASE pc \notin Building
    BY <2>1 DEF LayoutAgree, Building
  <2>2. CASE pc \in Building
    <3>1. img.hdr \in Hdr /\ Len(img.data) = B_PAD_o(img.hdr) /\ Unwritten
      BY <2>2, AddFrom DEF PageEnd, IInv, Packing
    <3>2. img.hdr.page_size \in Nat \ {0}
      BY <3>1 DEF Hdr
    <3>3. B_ps(img.hdr.page_size, 0) = 0
      BY <3>2, RoundUpFacts
    <3>4. /\ B_KE_o(img.hdr) \in Nat /\ B_RA_o(img.hdr) \in Nat
          /\ B_SE_o(img.hdr) \in Nat /\ B_RE_o(img.hdr) \in Nat
          /\ B_DT_o(img.hdr) \in Nat
      BY <3>1, Offsets
    <3>5. /\ img.hdr.kernel_size = 0 => B_RA_o(img.hdr) = B_KE_o(img.hdr)
          /\ img.hdr.ramdisk_size = 0 => B_SE_o(img.hdr) = B_RA_o(img.hdr)
          /\ img.hdr.second_size = 0 => B_RE_o(img.hdr) = B_SE_o(img.hdr)
          /\ img.hdr.recovery_dtbo_size = 0 => B_DT_o(img.hdr) = B_RE_o(img.hdr)
          /\ img.hdr.dtb_size = 0 => B_PAD_o(img.hdr) = B_DT_o(img.hdr)
      BY <3>3, <3>4 DEF B_RA_o, B_SE_o, B_RE_o, B_DT_o, B_PAD_o
    <3> QED BY <3>1, <3>5 DEF LayoutAgree, Unwritten, Building
  <2> QED BY <2>1, <2>2
<1> QED BY <1>1, InitIInv, NextIInv, PTL DEF Spec

(* From a finished image the offsets of bxxt_boot_init1 return, section by *)
(* section, what bxxt_boot_pack_all appended, with and without trailing    *)
(* data.                                                                   *)
THEOREM SectionsReadBack == Spec => []ReadBack
<1>1. IInv => ReadBack
  BY DEF IInv, Packing, Recorded, ReadBack, Building, Finished
<1> QED BY <1>1, InitIInv, NextIInv, PTL DEF Spec

=============================================================================
