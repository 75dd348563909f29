--------------------------- MODULE BootLayoutProofs ---------------------------
(***************************************************************************)
(* What the offsets of bxxt_boot_init1 and the padding of bxxt_buffer_align*)
(* do, for every page size and every size of a section.                    *)
(***************************************************************************)
EXTENDS BootLayout, SequenceTheorems, TLAPS

(* Division with remainder by a page size.                                 *)
LEMMA DivMod ==
  ASSUME NEW a \in Nat, NEW p \in Nat \ {0}
  PROVE  /\ a \div p \in Nat /\ a % p \in 0..(p - 1)
         /\ a = p * (a \div p) + (a % p)
  OBVIOUS

(* Quotient and remainder are determined by the product and the rest.      *)
LEMMA DivUnique ==
  ASSUME NEW p \in Nat \ {0}, NEW q \in Nat, NEW r \in 0..(p - 1)
  PROVE  (p * q + r) \div p = q /\ (p * q + r) % p = r
  OBVIOUS

(* bxxt_buffer_align appends a natural number of cells.                    *)
LEMMA AlignExtraType ==
  ASSUME NEW ps \in Nat \ {0}, NEW n \in Nat
  PROVE  AlignExtra(ps, n) \in Nat
  BY DivMod DEF AlignExtra

(* The writer and the reader pad alike: what bxxt_buffer_align adds to n   *)
(* bytes brings them to the B_ps of bxxt_boot_init1.                       *)
LEMMA AlignIsRoundUp ==
  ASSUME NEW ps \in Nat \ {0}, NEW n \in Nat
  PROVE  n + AlignExtra(ps, n) = B_ps(ps, n)
<1> DEFINE q == n \div ps
           r == n % ps
<1>1. q \in Nat /\ r \in 0..(ps - 1) /\ n = ps * q + r
  BY DivMod
<1> HIDE DEF q, r
<1>2. CASE r = 0
  <2>1. AlignExtra(ps, n) = 0
    <3>1. n % ps = 0
      BY <1>2 DEF r
    <3>2. ps - 0 = ps * 1 + 0 /\ 0 \in 0..(ps - 1)
      OBVIOUS
    <3>3. (ps - 0) % ps = 0
      BY <3>2, DivUnique
    <3> QED BY <3>1, <3>3 DEF AlignExtra
  <2>2. (n + ps - 1) \div ps = q
    <3>1. n + ps - 1 = ps * q + (ps - 1)
      BY <1>1, <1>2
    <3>2. ps - 1 \in 0..(ps - 1)
      OBVIOUS
    <3> QED BY <3>1, <3>2, <1>1, DivUnique
  <2> QED BY <2>1, <2>2, <1>1, <1>2 DEF B_ps
<1>3. CASE r # 0
  <2>1. AlignExtra(ps, n) = ps - r
    <3>1. ps - r \in 0..(ps - 1) /\ ps - r = ps * 0 + (ps - r)
      BY <1>1, <1>3
    <3>2. (ps - r) % ps = ps - r
      BY <3>1, DivUnique
    <3> QED BY <3>2 DEF AlignExtra, r
  <2>2. (n + ps - 1) \div ps = q + 1
    <3>1. r - 1 \in 0..(ps - 1) /\ n + ps - 1 = ps * (q + 1) + (r - 1)
      BY <1>1, <1>3
    <3> QED BY <3>1, <1>1, DivUnique
  <2> QED BY <2>1, <2>2, <1>1, <1>3 DEF B_ps
<1> QED BY <1>2, <1>3

(* B_ps never shrinks a section, and an empty section takes no page.       *)
LEMMA RoundUpFacts ==
  ASSUME NEW ps \in Nat \ {0}, NEW n \in Nat
  PROVE  /\ B_ps(ps, n) \in Nat
         /\ n <= B_ps(ps, n)
         /\ B_ps(ps, 0) = 0
  <1>1. AlignExtra(ps, n) \in Nat
    BY AlignExtraType
  <1>2. B_ps(ps, 0) = 0
    <2>1. 0 + ps - 1 = ps * 0 + (ps - 1) /\ ps - 1 \in 0..(ps - 1)
      OBVIOUS
    <2>2. (0 + ps - 1) \div ps = 0
      BY <2>1, DivUnique
    <2> QED BY <2>2 DEF B_ps
  <1> QED BY <1>1, <1>2, AlignIsRoundUp

(* From a page boundary, alignment adds the same as from 0, and ends on a  *)
(* page boundary.                                                          *)
LEMMA AlignFrom ==
  ASSUME NEW ps \in Nat \ {0}, NEW a \in Nat, NEW n \in Nat, a % ps = 0
  PROVE  /\ AlignExtra(ps, a + n) = AlignExtra(ps, n)
         /\ (a + n + AlignExtra(ps, n)) % ps = 0
<1> DEFINE q == a \div ps
           m == n \div ps
           r == n % ps
<1>1. q \in Nat /\ a = ps * q
  BY DivMod
<1>2. m \in Nat /\ r \in 0..(ps - 1) /\ n = ps * m + r
  BY DivMod
<1>3. (a + n) % ps = r
  <2> HIDE DEF q, m, r
  <2>1. a + n = ps * (q + m) + r
    BY <1>1, <1>2
  <2> QED BY <2>1, <1>1, <1>2, DivUnique
<1>4. AlignExtra(ps, a + n) = AlignExtra(ps, n)
  BY <1>3 DEF AlignExtra
<1>5. (a + n + AlignExtra(ps, n)) % ps = 0
  <2> DEFINE k == (n + ps - 1) \div ps
  <2>1. n + AlignExtra(ps, n) = k * ps
    BY AlignIsRoundUp DEF B_ps
  <2>2. k \in Nat
    BY DivMod
  <2> HIDE DEF q, m, r, k
  <2>3. AlignExtra(ps, n) \in Nat
    BY AlignExtraType
  <2>4. a + n + AlignExtra(ps, n) = ps * (q + k) + 0
    BY <2>1, <2>2, <2>3, <1>1
  <2>5. q + k \in Nat /\ 0 \in 0..(ps - 1)
    BY <2>2, <1>1
  <2>6. (ps * (q + k) + 0) % ps = 0
    BY <2>5, DivUnique
  <2> QED BY <2>4, <2>6
<1> QED BY <1>4, <1>5

(* A run of n cells is a sequence of length n.                             *)
LEMMA CellsType ==
  ASSUME NEW n \in Nat, NEW c \in Cell
  PROVE  Cells(n, c) \in Seq(Cell) /\ Len(Cells(n, c)) = n
  BY IsASeq, LenProperties DEF Cells

(* The padding byte is a cell.                                             *)
LEMMA ZeroIsCell == Zero \in Cell
  BY DEF Zero, MkCell, Cell, Kinds

(* bxxt_buffer_align keeps the buffer, appends to it, and makes it as long *)
(* as B_ps says.                                                           *)
LEMMA AlignedBuffer ==
  ASSUME NEW ps \in Nat \ {0}, NEW buff \in Seq(Cell)
  PROVE  /\ bxxt_buffer_align(buff, ps) \in Seq(Cell)
         /\ Len(bxxt_buffer_align(buff, ps)) = B_ps(ps, Len(buff))
         /\ \E t \in Seq(Cell) : bxxt_buffer_align(buff, ps) = buff \o t
<1> DEFINE t == Cells(AlignExtra(ps, Len(buff)), Zero)
<1>1. Len(buff) \in Nat
  BY LenProperties
<1>2. AlignExtra(ps, Len(buff)) \in Nat
  BY <1>1, AlignExtraType
<1>3. t \in Seq(Cell) /\ Len(t) = AlignExtra(ps, Len(buff))
  BY <1>2, ZeroIsCell, CellsType
<1> HIDE DEF t
<1>4. buff \o t \in Seq(Cell) /\ Len(buff \o t) = Len(buff) + Len(t)
  BY <1>3, ConcatProperties
<1>5. bxxt_buffer_align(buff, ps) = buff \o t
  BY DEF bxxt_buffer_align, t
<1> QED BY <1>1, <1>3, <1>4, <1>5, AlignIsRoundUp

(* A read within the buffer returns as many cells as were asked for.       *)
LEMMA ReadAtType ==
  ASSUME NEW data \in Seq(Cell), NEW o \in Nat, NEW n \in Nat,
         o + n <= Len(data)
  PROVE  ReadAt(data, o, n) \in Seq(Cell) /\ Len(ReadAt(data, o, n)) = n
<1>1. Len(data) \in Nat
  BY LenProperties
<1>2. CASE n = 0
  <2>1. SubSeq(data, o + 1, o + n) = << >>
    BY <1>2, SubSeqEmpty
  <2> QED BY <2>1, <1>2 DEF ReadAt
<1>3. CASE n # 0
  <2>1. o + 1 \in 1..Len(data) /\ o + n \in Int /\ o + 1 <= o + n
    BY <1>1, <1>3
  <2> QED BY <2>1, <1>1, SubSeqProperties DEF ReadAt
<1> QED BY <1>2, <1>3

(* What lies within a buffer is read the same after something is appended. *)
LEMMA ReadAtKept ==
  ASSUME NEW data \in Seq(Cell), NEW t \in Seq(Cell), NEW o \in Nat, NEW n \in Nat,
         o + n <= Len(data)
  PROVE  ReadAt(data \o t, o, n) = ReadAt(data, o, n)
<1>1. Len(data) \in Nat
  BY LenProperties
<1> QED BY <1>1, SubSeqOfConcat1 DEF ReadAt

(* A section is read back from where the buffer ended before it.           *)
LEMMA PadData ==
  ASSUME NEW ps \in Nat \ {0}, NEW buff \in Seq(Cell), NEW section \in Seq(Cell),
         Len(buff) % ps = 0
  PROVE  /\ pad_data(buff, section, ps) \in Seq(Cell)
         /\ Len(pad_data(buff, section, ps)) = Len(buff) + B_ps(ps, Len(section))
         /\ Len(pad_data(buff, section, ps)) % ps = 0
         /\ ReadAt(pad_data(buff, section, ps), Len(buff), Len(section)) = section
         /\ \A o \in Nat : \A n \in Nat : o + n <= Len(buff) =>
              ReadAt(pad_data(buff, section, ps), o, n) = ReadAt(buff, o, n)
<1> DEFINE a == Len(buff)
           n == Len(section)
           d == buff \o section
<1>1. a \in Nat /\ n \in Nat /\ a % ps = 0
  BY LenProperties
<1>2. d \in Seq(Cell) /\ Len(d) = a + n
  BY ConcatProperties
<1>3. PICK t \in Seq(Cell) : bxxt_buffer_align(d, ps) = d \o t
  BY <1>2, AlignedBuffer
<1>4. bxxt_buffer_align(d, ps) \in Seq(Cell)
      /\ Len(bxxt_buffer_align(d, ps)) = B_ps(ps, a + n)
  BY <1>2, AlignedBuffer
<1>5. pad_data(buff, section, ps) = bxxt_buffer_align(d, ps)
  BY DEF pad_data
<1>6. ReadAt(d, a, n) = section
  <2>1. SubSeq(section, 1, n) = section
    BY SubSeqFull
  <2>2. SubSeq(d, a + 1, a + n) = section
    <3>1. CASE n = 0
      <4>1. section = << >>
        BY <3>1, <2>1, SubSeqEmpty
      <4>2. SubSeq(d, a + 1, a + n) = << >>
        BY <3>1, <1>1, SubSeqEmpty
      <4> QED BY <4>1, <4>2
    <3>2. CASE n # 0
      <4>1. a + 1 \in Len(buff) + 1 .. Len(buff) + Len(section) + 1
            /\ a + n \in a .. Len(buff) + Len(section)
        BY <1>1, <3>2
      <4>2. SubSeq(d, a + 1, a + n) = SubSeq(section, a + 1 - a, a + n - a)
        BY <4>1, <1>1, SubSeqOfConcat2
      <4> QED BY <4>2, <2>1, <1>1
    <3> QED BY <3>1, <3>2
  <2> QED BY <2>2 DEF ReadAt
<1> HIDE DEF a, n, d
<1>7. ReadAt(d \o t, a, n) = section
  BY <1>1, <1>2, <1>3, <1>6, ReadAtKept
<1>8. \A o \in Nat : \A m \in Nat : o + m <= a =>
        ReadAt(d \o t, o, m) = ReadAt(buff, o, m)
  <2> SUFFICES ASSUME NEW o \in Nat, NEW m \in Nat, o + m <= a
               PROVE  ReadAt(d \o t, o, m) = ReadAt(buff, o, m)
    OBVIOUS
  <2>1. ReadAt(d \o t, o, m) = ReadAt(d, o, m)
    BY <1>1, <1>2, <1>3, ReadAtKept
  <2>2. ReadAt(d, o, m) = ReadAt(buff, o, m)
    BY ReadAtKept DEF d, a
  <2> QED BY <2>1, <2>2
<1>9. B_ps(ps, a + n) = a + B_ps(ps, n) /\ B_ps(ps, a + n) % ps = 0
  <2>0. AlignExtra(ps, n) \in Nat
    BY <1>1, AlignExtraType
  <2>1. a + n \in Nat /\ AlignExtra(ps, n) \in Nat
    BY <1>1, <2>0
  <2>2. a + n + AlignExtra(ps, a + n) = B_ps(ps, a + n)
    BY <2>1, AlignIsRoundUp
  <2>3. n + AlignExtra(ps, n) = B_ps(ps, n)
    BY <1>1, AlignIsRoundUp
  <2>4. AlignExtra(ps, a + n) = AlignExtra(ps, n) /\ (a + n + AlignExtra(ps, n)) % ps = 0
    BY <1>1, AlignFrom
  <2> QED BY <2>1, <2>2, <2>3, <2>4, <1>1
<1> QED BY <1>3, <1>4, <1>5, <1>7, <1>8, <1>9 DEF a, n

(* A prefix of cells is a sequence of cells.                               *)
LEMMA Prefix ==
  ASSUME NEW S, NEW s \in Seq(S), NEW n \in 0..Len(s)
  PROVE  SubSeq(s, 1, n) \in Seq(S) /\ Len(SubSeq(s, 1, n)) = n
<1>1. Len(s) \in Nat
  BY LenProperties
<1>2. CASE n = 0
  <2>1. SubSeq(s, 1, n) = << >>
    BY <1>2, SubSeqEmpty
  <2> QED BY <2>1, <1>2
<1>3. CASE n # 0
  <2>1. 1 \in 1..Len(s) /\ n \in 1..Len(s) /\ 1 <= n
    BY <1>1, <1>3
  <2> QED BY <2>1, <1>1, SubSeqProperties
<1> QED BY <1>2, <1>3

(* A suffix of cells is a sequence of cells.                               *)
LEMMA Suffix ==
  ASSUME NEW S, NEW s \in Seq(S), NEW n \in Nat
  PROVE  SubSeq(s, n + 1, Len(s)) \in Seq(S)
<1>1. Len(s) \in Nat
  BY LenProperties
<1>2. CASE n + 1 > Len(s)
  <2>1. SubSeq(s, n + 1, Len(s)) = << >>
    BY <1>1, <1>2, SubSeqEmpty
  <2> QED BY <2>1
<1>3. CASE n + 1 <= Len(s)
  <2>1. n + 1 \in 1..Len(s) /\ Len(s) \in 1..Len(s)
    BY <1>1, <1>3
  <2> QED BY <2>1, <1>1, SubSeqProperties
<1> QED BY <1>1, <1>2, <1>3

(* The offsets of bxxt_boot_init1 are in order, each section ends before   *)
(* the next begins.                                                        *)
LEMMA Offsets ==
  ASSUME NEW h \in Hdr
  PROVE  /\ B_KE_o(h) \in Nat /\ B_RA_o(h) \in Nat /\ B_SE_o(h) \in Nat
         /\ B_RE_o(h) \in Nat /\ B_DT_o(h) \in Nat /\ B_PAD_o(h) \in Nat
         /\ B_KE_o(h) + h.kernel_size <= B_RA_o(h)
         /\ B_RA_o(h) + h.ramdisk_size <= B_SE_o(h)
         /\ B_SE_o(h) + h.second_size <= B_RE_o(h)
         /\ B_RE_o(h) + h.recovery_dtbo_size <= B_DT_o(h)
         /\ B_DT_o(h) + h.dtb_size <= B_PAD_o(h)
<1> DEFINE ps == h.page_size
<1>1. /\ ps \in Nat \ {0} /\ h.kernel_size \in Nat /\ h.ramdisk_size \in Nat
      /\ h.second_size \in Nat /\ h.recovery_dtbo_size \in Nat /\ h.dtb_size \in Nat
  BY DEF Hdr
<1> HIDE DEF ps
<1>2. /\ B_ps(ps, h.kernel_size) \in Nat /\ h.kernel_size <= B_ps(ps, h.kernel_size)
      /\ B_ps(ps, h.ramdisk_size) \in Nat /\ h.ramdisk_size <= B_ps(ps, h.ramdisk_size)
      /\ B_ps(ps, h.second_size) \in Nat /\ h.second_size <= B_ps(ps, h.second_size)
      /\ B_ps(ps, h.recovery_dtbo_size) \in Nat
      /\ h.recovery_dtbo_size <= B_ps(ps, h.recovery_dtbo_size)
      /\ B_ps(ps, h.dtb_size) \in Nat /\ h.dtb_size <= B_ps(ps, h.dtb_size)
  BY <1>1, RoundUpFacts
<1> QED BY <1>1, <1>2 DEF B_KE_o, B_RA_o, B_SE_o, B_RE_o, B_DT_o, B_PAD_o, ps

(* If the trailing data begins within the file, every section ends within  *)
(* the file: the one bound bxxt_boot_init1 relies on bounds all its reads. *)
LEMMA OffsetsBelow ==
  ASSUME NEW h \in Hdr, NEW limit \in Nat, B_PAD_o(h) <= limit
  PROVE  /\ B_KE_o(h) + h.kernel_size <= limit
         /\ B_RA_o(h) + h.ramdisk_size <= limit
         /\ B_SE_o(h) + h.second_size <= limit
         /\ B_RE_o(h) + h.recovery_dtbo_size <= limit
         /\ B_DT_o(h) + h.dtb_size <= limit
<1> DEFINE o1 == B_KE_o(h)   n1 == h.kernel_size
           o2 == B_RA_o(h)   n2 == h.ramdisk_size
           o3 == B_SE_o(h)   n3 == h.second_size
           o4 == B_RE_o(h)   n4 == h.recovery_dtbo_size
           o5 == B_DT_o(h)   n5 == h.dtb_size
           o6 == B_PAD_o(h)
<1>1. /\ n1 \in Nat /\ n2 \in Nat /\ n3 \in Nat /\ n4 \in Nat /\ n5 \in Nat
  BY DEF Hdr
<1>2. /\ o1 \in Nat /\ o2 \in Nat /\ o3 \in Nat
      /\ o4 \in Nat /\ o5 \in Nat /\ o6 \in Nat
      /\ o1 + n1 <= o2 /\ o2 + n2 <= o3 /\ o3 + n3 <= o4
      /\ o4 + n4 <= o5 /\ o5 + n5 <= o6
  BY Offsets
<1>3. o6 <= limit
  OBVIOUS
<1> HIDE DEF o1, o2, o3, o4, o5, o6, n1, n2, n3, n4, n5
<1>4. /\ o1 + n1 <= limit /\ o2 + n2 <= limit /\ o3 + n3 <= limit
      /\ o4 + n4 <= limit /\ o5 + n5 <= limit
  BY <1>1, <1>2, <1>3
<1> QED BY <1>4 DEF o1, o2, o3, o4, o5, n1, n2, n3, n4, n5

(* In a file that reaches its trailing data every section of               *)
(* bxxt_boot_init1 can be read, with the size of its header field.         *)
LEMMA SectionTypes ==
  ASSUME NEW f \in Image, B_PAD_o(f.hdr) <= Len(f.data)
  PROVE  /\ KernelOf(f) \in Seq(Cell) /\ Len(KernelOf(f)) = f.hdr.kernel_size
         /\ RamdiskOf(f) \in Seq(Cell) /\ Len(RamdiskOf(f)) = f.hdr.ramdisk_size
         /\ SecondOf(f) \in Seq(Cell) /\ Len(SecondOf(f)) = f.hdr.second_size
         /\ RecoveryDtboOf(f) \in Seq(Cell)
         /\ Len(RecoveryDtboOf(f)) = f.hdr.recovery_dtbo_size
         /\ DtbOf(f) \in Seq(Cell) /\ Len(DtbOf(f)) = f.hdr.dtb_size
         /\ PadOf(f) \in Seq(Cell)
<1> DEFINE h == f.hdr
           d == f.data
<1>1. h \in Hdr /\ d \in Seq(Cell)
  BY DEF Image
<1>2. /\ h.kernel_size \in Nat /\ h.ramdisk_size \in Nat /\ h.second_size \in Nat
      /\ h.recovery_dtbo_size \in Nat /\ h.dtb_size \in Nat
  BY <1>1 DEF Hdr
<1> HIDE DEF h, d
<1>3. Len(d) \in Nat /\ B_PAD_o(h) <= Len(d)
  BY <1>1, LenProperties DEF h, d
<1>4. /\ B_KE_o(h) \in Nat /\ B_RA_o(h) \in Nat /\ B_SE_o(h) \in Nat
      /\ B_RE_o(h) \in Nat /\ B_DT_o(h) \in Nat /\ B_PAD_o(h) \in Nat
      /\ B_KE_o(h) + h.kernel_size <= Len(d)
      /\ B_RA_o(h) + h.ramdisk_size <= Len(d)
      /\ B_SE_o(h) + h.second_size <= Len(d)
      /\ B_RE_o(h) + h.recovery_dtbo_size <= Len(d)
      /\ B_DT_o(h) + h.dtb_size <= Len(d)
  <2>1. /\ B_KE_o(h) \in Nat /\ B_RA_o(h) \in Nat /\ B_SE_o(h) \in Nat
        /\ B_RE_o(h) \in Nat /\ B_DT_o(h) \in Nat /\ B_PAD_o(h) \in Nat
    BY <1>1, Offsets
  <2> QED BY <2>1, <1>1, <1>3, OffsetsBelow
<1>5. KernelOf(f) \in Seq(Cell) /\ Len(KernelOf(f)) = h.kernel_size
  BY <1>1, <1>2, <1>4, ReadAtType DEF KernelOf, h, d
<1>6. RamdiskOf(f) \in Seq(Cell) /\ Len(RamdiskOf(f)) = h.ramdisk_size
  BY <1>1, <1>2, <1>4, ReadAtType DEF RamdiskOf, h, d
<1>7. SecondOf(f) \in Seq(Cell) /\ Len(SecondOf(f)) = h.second_size
  BY <1>1, <1>2, <1>4, ReadAtType DEF SecondOf, h, d
<1>8. RecoveryDtboOf(f) \in Seq(Cell) /\ Len(RecoveryDtboOf(f)) = h.recovery_dtbo_size
  BY <1>1, <1>2, <1>4, ReadAtType DEF RecoveryDtboOf, h, d
<1>9. DtbOf(f) \in Seq(Cell) /\ Len(DtbOf(f)) = h.dtb_size
  BY <1>1, <1>2, <1>4, ReadAtType DEF DtbOf, h, d
<1>10. PadOf(f) \in Seq(Cell)
  BY <1>1, <1>4, Suffix DEF PadOf, h, d
<1> QED BY <1>5, <1>6, <1>7, <1>8, <1>9, <1>10 DEF h

(* The digest of bxxt_boot_img_signature is a sequence of sections.        *)
LEMMA SignatureType ==
  ASSUME NEW f \in Image, B_PAD_o(f.hdr) <= Len(f.data)
  PROVE  bxxt_boot_img_signature(f) \in Seq(Seq(Cell))
<1>1. /\ KernelOf(f) \in Seq(Cell) /\ RamdiskOf(f) \in Seq(Cell)
      /\ SecondOf(f) \in Seq(Cell) /\ RecoveryDtboOf(f) \in Seq(Cell)
      /\ DtbOf(f) \in Seq(Cell)
  BY SectionTypes
<1> DEFINE S == Seq(Cell)
           s1 == <<KernelOf(f), RamdiskOf(f), SecondOf(f)>>
           s2 == IF f.hdr.header_version > 0 THEN <<RecoveryDtboOf(f)>> ELSE << >>
           s3 == IF f.hdr.header_version > 1 THEN <<DtbOf(f)>> ELSE << >>
<1>2. s1 \in Seq(S) /\ s2 \in Seq(S) /\ s3 \in Seq(S)
  <2>1. s1 \in Seq(S)
    BY <1>1
  <2>2. s2 \in Seq(S)
    BY <1>1
  <2>3. s3 \in Seq(S)
    BY <1>1
  <2> QED BY <2>1, <2>2, <2>3
<1>3. bxxt_boot_img_signature(f) = (s1 \o s2) \o s3
  BY DEF bxxt_boot_img_signature
<1> HIDE DEF s1, s2, s3
<1>4. s1 \o s2 \in Seq(S)
  BY <1>2, ConcatProperties
<1>5. (s1 \o s2) \o s3 \in Seq(S)
  BY <1>2, <1>4, ConcatProperties
<1> QED BY <1>3, <1>5

(* A cell wrapped in another number of layers is a cell.                   *)
LEMMA Rewrapped ==
  ASSUME NEW c \in Cell
  PROVE  c.z \in Nat /\ \A z \in Nat : [c EXCEPT !.z = z] \in Cell
  BY DEF Cell

(* Decompression of n gzip cells yields n cells.                           *)
LEMMA GunzipType ==
  ASSUME NEW section \in Seq(Cell), NEW n \in Nat, IsGzipRun(section, n)
  PROVE  Gunzip(section, n) \in Seq(Cell) /\ Len(Gunzip(section, n)) = n
<1>1. Len(section) \in Nat /\ section \in [1..Len(section) -> Cell] /\ n <= Len(section)
  BY LenProperties DEF IsGzipRun
<1>2. \A i \in 1..n : [section[i] EXCEPT !.z = @ - section[1].z] \in Cell
  <2> SUFFICES ASSUME NEW i \in 1..n
               PROVE  [section[i] EXCEPT !.z = @ - section[1].z] \in Cell
    OBVIOUS
  <2>1. section[i] \in Cell /\ section[1] \in Cell /\ section[i].z >= section[1].z
    BY <1>1 DEF IsGzipRun
  <2>2. section[i].z - section[1].z \in Nat
    <3>1. section[i].z \in Nat /\ section[1].z \in Nat
      BY <2>1, Rewrapped
    <3> QED BY <2>1, <3>1
  <2> QED BY <2>1, <2>2, Rewrapped
<1>3. Gunzip(section, n) \in [1..n -> Cell]
  BY <1>2 DEF Gunzip
<1> QED BY <1>3

(* Compression of a kernel that is not empty yields cells.                 *)
LEMMA GzipType ==
  ASSUME NEW content \in Seq(Cell), content # << >>
  PROVE  Gzip(content) \in Seq(Cell)
<1>1. Len(content) \in Nat \ {0} /\ content \in [1..Len(content) -> Cell]
  BY EmptySeq, LenProperties
<1> DEFINE n == IF \E i \in 1..Len(content) : content[i].z = 0
                THEN Len(content) ELSE Len(content) - 1
<1>2. n \in Nat /\ n <= Len(content)
  BY <1>1
<1>3. Gzip(content) = [i \in 1..n |-> [content[i] EXCEPT !.z = @ + 1]]
  BY DEF Gzip
<1> HIDE DEF n
<1>4. ASSUME NEW i \in 1..n PROVE [content[i] EXCEPT !.z = @ + 1] \in Cell
  <2>1. content[i] \in Cell
    BY <1>1, <1>2
  <2>2. content[i].z + 1 \in Nat
    BY <2>1, Rewrapped
  <2> QED BY <2>1, <2>2, Rewrapped
<1>5. Gzip(content) \in [1..n -> Cell]
  BY <1>3, <1>4
<1> QED BY <1>2, <1>5

=============================================================================
