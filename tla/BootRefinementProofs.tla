------------------------- MODULE BootRefinementProofs -------------------------
(***************************************************************************)
(* The steps of `bxxt boot' implement BootSpec: an unpack that met no      *)
(* error leaves exactly the directory of the image, every step of either   *)
(* command is a step of BootSpec or none, and what is unpacked and packed  *)
(* again is the image it came from.                                        *)
(***************************************************************************)
EXTENDS BootPackProofs

-----------------------------------------------------------------------------
(* The invariant.                                                          *)

(* The device trees among the first n cells of a section, and what         *)
(* bxxt_boot_parse_dtb_sections has recorded when its cursor is at base:   *)
(* the trees in their order.                                               *)
TreesIn(section, n) == {j \in 1..n : IsDtb(section[j])}
TreeNo(section, j, i) == IsDtb(section[j]) /\ Cardinality(TreesIn(section, j - 1)) = i

Found(section, ids, base) ==
  /\ base <= Len(section)
  /\ Len(ids) = Cardinality(TreesIn(section, base))
  /\ \A i \in 1..Len(ids) : \E j \in 1..base :
       TreeNo(section, j, i - 1) /\ ids[i] = section[j].id

(* The .dts files of an empty directory once n of them are open.           *)
OpenedDts(n) == [i \in DtIndex |-> IF i < n THEN UNFLUSHED ELSE MISSING]

(* The first n entries of an archive.                                      *)
FilesUpto(section, n) == {section[i].id : i \in 1..n}

(* The labels before which unpack has not begun with a file.               *)
BeforeKernel == {"u_open", "u_scan_kernel", "u_scan_dtb", "u_kernel"}
BeforeRecoveryDtbo == BeforeKernel \union {"u_recovery_dtbo"}
BeforeSecond == BeforeRecoveryDtbo \union {"u_second"}
BeforeExtra == BeforeSecond \union {"u_extra"}
BeforeDtDts == BeforeExtra \union {"u_kernel_dts"}
BeforeMkdir == BeforeDtDts \union {"u_dt_dts", "u_mkdir"}

(* The directory's METADATA, and the output while it is written.           *)
FilesInv ==
  /\ dir.meta_ok => dir.ramdisk_dir
  /\ ~dir.meta_ok => dir.meta = NoMeta
  /\ pc \in UnpackPc \ BeforeMkdir => dir.ramdisk_dir
  /\ pc = "p_writing" => out = [st |-> "torn", img |-> NoImage]

(* What the unpacker holds in memory is what the image holds.              *)
ScanInv ==
  /\ pc \in {"idle", "u_open"} => b = NoB /\ cur = NoCur
  /\ pc \in UnpackPc \ {"u_open"} =>
       /\ bxxt_boot_img_version_check(boot.hdr) /\ bxxt_boot_img_base_check(boot.hdr)
       /\ IsTrimmedSize(PadOf(boot), b.pad_size)
  /\ pc = "u_scan_kernel" => Found(KernelOf(boot), b.kernel_dtb, cur.base) /\ b.dtb = << >>
  /\ pc \in UnpackPc \ {"u_open", "u_scan_kernel"} =>
       Found(KernelOf(boot), b.kernel_dtb, Len(KernelOf(boot)))
  /\ pc = "u_scan_dtb" => Found(DtbOf(boot), b.dtb, cur.base)
  /\ pc \in UnpackPc \ {"u_open", "u_scan_kernel", "u_scan_dtb"} =>
       Found(DtbOf(boot), b.dtb, Len(DtbOf(boot)))
  /\ pc = "u_mkdir" => cur = NoCur
  /\ pc = "u_ramdisk" =>
       /\ cur.base <= Len(RamdiskOf(boot))
       /\ \A i \in 1..cur.base : IsCpioEntry(RamdiskOf(boot), i)

(* The end of unpack: METADATA, and whether there is a .dts file to flush. *)
EndInv ==
  /\ pc = "u_open" => (hist.fresh <=> dir = EmptyDir)
  /\ pc \in UnpackPc \ {"u_exit"} => ~hist.complete
  /\ pc = "u_exit" =>
       /\ dir.meta_ok /\ dir.meta = MetaOf(boot)
       /\ hist.complete => b.kernel_dtb = << >> /\ b.dtb = << >>

(* An unpack that began in an empty directory and met no error has written *)
(* its files so far and no other.                                          *)
FreshInv ==
  hist.fresh /\ pc \in UnpackPc =>
    /\ pc \in BeforeKernel => dir.kernel = << >>
    /\ pc \notin BeforeKernel => dir.kernel = Abs!KernelFile(KernelOf(boot))
    /\ pc \in BeforeRecoveryDtbo => dir.recovery_dtbo = << >>
    /\ pc \notin BeforeRecoveryDtbo => dir.recovery_dtbo = RecoveryDtboOf(boot)
    /\ pc \in BeforeSecond => dir.second = << >>
    /\ pc \notin BeforeSecond => dir.second = SecondOf(boot)
    /\ pc \in BeforeExtra => dir.extra = << >>
    /\ pc \notin BeforeExtra => dir.extra = SubSeq(PadOf(boot), 1, b.pad_size)
    /\ pc \in BeforeExtra => dir.kernel_dts = OpenedDts(0)
    /\ pc = "u_kernel_dts" => dir.kernel_dts = OpenedDts(cur.base)
    /\ pc \notin BeforeDtDts => dir.kernel_dts = OpenedDts(Len(b.kernel_dtb))
    /\ pc \in BeforeDtDts => dir.dt_dts = OpenedDts(0)
    /\ pc = "u_dt_dts" => dir.dt_dts = OpenedDts(cur.base)
    /\ pc \in DtsUnpacked => dir.dt_dts = OpenedDts(Len(b.dtb))
    /\ pc \in BeforeMkdir => dir.ramdisk = {}
    /\ pc = "u_ramdisk" => dir.ramdisk = FilesUpto(RamdiskOf(boot), cur.base)
    /\ pc \in {"u_meta", "u_exit"} => dir.ramdisk = Abs!FilesOf(RamdiskOf(boot))

UnpackedInv == FilesInv /\ ScanInv /\ EndInv /\ FreshInv

(* The image made of the parts of directory d, with the trailing data or   *)
(* without; and an image that pack made, in the terms of its own sections. *)
SectionsOf(f) ==
  [kernel |-> KernelOf(f), ramdisk |-> RamdiskOf(f), second |-> SecondOf(f),
   recovery_dtbo |-> RecoveryDtboOf(f), dtb |-> DtbOf(f)]

IsImageOf(f, d) ==
  /\ SectionsOf(f) = PartsOf(d)
  /\ HdrIs(f.hdr, d.meta, PartsOf(d), IdOf(d.meta.header_version, PartsOf(d)))
  /\ \E skip \in BOOLEAN :
       f.data = DataOf(d.meta.page_size, PartsOf(d))
                  \o Page(ExtraOf(d, skip), d.meta.page_size)

IsPacked(f) ==
  /\ f.hdr.magic /\ f.hdr.recovery_dtbo_offset < Word
  /\ f.hdr.id = IdOf(f.hdr.header_version, SectionsOf(f))
  /\ f.data = DataOf(f.hdr.page_size, SectionsOf(f)) \o PadOf(f)
  /\ RamdiskOf(f) = Abs!ArchiveOf(Entries(RamdiskOf(f)))

CanUnpack(f) ==
  WellFormed(f) /\ bxxt_boot_img_version_check(f.hdr) /\ bxxt_boot_img_base_check(f.hdr)

(* The directory holds the image it is said to hold, and the output is the *)
(* image of that directory.                                                *)
TripInv ==
  /\ WellFormed(boot)
  /\ pc \in UnpackPc => hist.from = NoImage
  /\ hist.from # NoImage => CanUnpack(hist.from) /\ dir = Abs!UnpackOf(hist.from)
  /\ hist.packed => IsPacked(boot)
  /\ hist.packed /\ hist.from # NoImage => IsPacked(hist.from)
  /\ out.st = "whole" => IsPacked(out.img)
  /\ out.st = "whole" /\ hist.made_from # NoImage =>
       /\ CanUnpack(hist.made_from)
       /\ IsImageOf(out.img, Abs!UnpackOf(hist.made_from))
       /\ hist.made_packed => IsPacked(hist.made_from)

-----------------------------------------------------------------------------
(* BootSpec's other functions in the words of this module.                 *)

LEMMA AbsDetect ==
  ASSUME NEW section
  PROVE  /\ Abs!bxxt_boot_detect_kernel_compression(section)
              = bxxt_boot_detect_kernel_compression(section)
         /\ Abs!GZIP = GZIP /\ Abs!NONE = NONE /\ Abs!LZMA = LZMA
  BY DEF Abs!bxxt_boot_detect_kernel_compression, bxxt_boot_detect_kernel_compression,
    Abs!GZIP, Abs!NONE, Abs!LZMA, GZIP, NONE, LZMA

LEMMA Detected ==
  ASSUME NEW section
  PROVE  /\ bxxt_boot_detect_kernel_compression(section) \in {NONE, GZIP, LZMA}
         /\ GZIP # NONE /\ LZMA # NONE /\ GZIP # LZMA
  BY DEF bxxt_boot_detect_kernel_compression, GZIP, NONE, LZMA

LEMMA AbsGzip ==
  ASSUME NEW section, NEW n
  PROVE  /\ Abs!IsGzipRun(section, n) <=> IsGzipRun(section, n)
         /\ Abs!Gunzip(section, n) = Gunzip(section, n)
  BY DEF Abs!IsGzipRun, IsGzipRun, Abs!Gunzip, Gunzip

(* The number of cells libarchive decodes is determined.                   *)
LEMMA GzipRunUnique ==
  ASSUME NEW section \in Seq(Cell), NEW m, NEW n,
         IsGzipRun(section, m), IsGzipRun(section, n)
  PROVE  m = n
<1>1. Len(section) \in Nat
  BY LenProperties
<1>2. ASSUME NEW i, NEW j, IsGzipRun(section, i), IsGzipRun(section, j), i < j
      PROVE  FALSE
  <2>1. i \in Nat /\ j \in Nat /\ j <= Len(section)
    BY <1>1, <1>2 DEF IsGzipRun
  <2>2. i + 1 \in 1..j /\ i < Len(section)
    BY <1>1, <1>2, <2>1
  <2>3. section[i + 1].z >= section[1].z /\ section[i + 1].z < section[1].z
    BY <1>2, <2>2 DEF IsGzipRun
  <2>4. section[i + 1].z \in Nat /\ section[1].z \in Nat
    <3>1. i + 1 \in 1..Len(section) /\ 1 \in 1..Len(section)
      BY <1>1, <2>1, <2>2
    <3>2. section[i + 1] \in Cell /\ section[1] \in Cell
      BY <3>1, ElementOfSeq
    <3> QED BY <3>2, Rewrapped
  <2> QED BY <2>3, <2>4
<1>3. m \in Nat /\ n \in Nat
  BY <1>1 DEF IsGzipRun
<1>4. ~(m < n) /\ ~(n < m)
  BY <1>2
<1> QED BY <1>3, <1>4

(* The kernel file of BootSpec is what bxxt_boot_decompress_to_file        *)
(* decodes.                                                                *)
LEMMA AbsKernelFile ==
  ASSUME NEW k \in Seq(Cell), NEW n \in 0..Len(k), IsDecoded(k, n)
  PROVE  Abs!KernelFile(k) = Decoded(k, n) /\ Len(Decoded(k, n)) = n
<1> DEFINE c == bxxt_boot_detect_kernel_compression(k)
<1>0. c \in {NONE, GZIP, LZMA} /\ GZIP # NONE /\ LZMA # NONE /\ GZIP # LZMA
  BY Detected
<1>1. Abs!KernelFile(k)
        = CASE c = GZIP -> Gunzip(k, CHOOSE m \in 0..Len(k) : IsGzipRun(k, m))
            [] c = NONE -> k [] OTHER -> << >>
  BY AbsDetect, AbsGzip DEF Abs!KernelFile
<1>2. Len(k) \in Nat
  BY LenProperties
<1> HIDE DEF c
<1>3. CASE c = GZIP
  <2>1. IsGzipRun(k, n)
    BY <1>0, <1>3 DEF IsDecoded, c
  <2> DEFINE m == CHOOSE m \in 0..Len(k) : IsGzipRun(k, m)
  <2>2. IsGzipRun(k, m)
    BY <2>1
  <2>3. m = n
    BY <2>1, <2>2, GzipRunUnique
  <2>4. Abs!KernelFile(k) = Gunzip(k, n)
    BY <1>0, <1>1, <1>3, <2>3
  <2>5. Decoded(k, n) = Gunzip(k, n)
    BY <1>3 DEF Decoded, c
  <2>6. Len(Gunzip(k, n)) = n
    BY <1>2 DEF Gunzip
  <2> QED BY <2>4, <2>5, <2>6
<1>4. CASE c = NONE
  <2>1. n = Len(k)
    BY <1>0, <1>4 DEF IsDecoded, c
  <2>2. Abs!KernelFile(k) = k
    BY <1>0, <1>1, <1>4
  <2>3. Decoded(k, n) = SubSeq(k, 1, Len(k))
    BY <1>0, <1>4, <2>1 DEF Decoded, c
  <2> QED BY <2>1, <2>2, <2>3, SubSeqFull
<1>5. CASE c = LZMA
  <2>1. n = 0
    BY <1>0, <1>5 DEF IsDecoded, c
  <2>2. Abs!KernelFile(k) = << >>
    BY <1>0, <1>1, <1>5
  <2>3. Decoded(k, n) = SubSeq(k, 1, 0)
    BY <1>0, <1>5, <2>1 DEF Decoded, c
  <2>4. SubSeq(k, 1, 0) = << >>
    BY SubSeqEmpty
  <2> QED BY <2>1, <2>2, <2>3, <2>4, EmptySeq
<1> QED BY <1>0, <1>3, <1>4, <1>5

(* The files of the archive: the entries before the first thing that is    *)
(* none.                                                                   *)
LEMMA AbsFilesOf ==
  ASSUME NEW r \in Seq(Cell), NEW n \in 0..Len(r),
         \A i \in 1..n : IsCpioEntry(r, i), ~IsCpioEntry(r, n + 1)
  PROVE  Abs!FilesOf(r) = FilesUpto(r, n)
<1>1. Len(r) \in Nat
  BY LenProperties
<1> DEFINE P(i) == \A j \in 1..i : r[j].kind = "cpio" /\ r[j].z = r[1].z
<1>2. Abs!FilesOf(r) = {r[i].id : i \in {i \in 1..Len(r) : P(i)}}
  BY DEF Abs!FilesOf
<1>3. ASSUME NEW i \in 1..n PROVE i \in 1..Len(r) /\ P(i)
  <2>1. \A j \in 1..i : j \in 1..n
    BY <1>1
  <2>2. 1 \in 1..n /\ IsCpioEntry(r, 1)
    BY <1>1
  <2> QED BY <1>1, <2>1, <2>2 DEF IsCpioEntry
<1>4. ASSUME NEW i \in 1..Len(r), P(i) PROVE i \in 1..n
  <2>1. ASSUME n < i PROVE IsCpioEntry(r, n + 1)
    <3>1. n + 1 \in 1..i /\ n + 1 <= Len(r)
      BY <1>1, <2>1
    <3>2. r[n + 1].kind = "cpio" /\ r[n + 1].z = r[1].z
      BY <1>4, <3>1
    <3> QED BY <3>1, <3>2 DEF IsCpioEntry
  <2> QED BY <1>1, <2>1
<1>5. {i \in 1..Len(r) : P(i)} = 1..n
  <2> HIDE DEF P
  <2> QED BY <1>3, <1>4
<1> QED BY <1>2, <1>5 DEF FilesUpto

(* The size of the trailing data is determined.                            *)
LEMMA AbsTrim ==
  ASSUME NEW pad \in Seq(Cell), NEW ts \in 0..Len(pad), IsTrimmedSize(pad, ts)
  PROVE  (CHOOSE t \in 0..Len(pad) : Abs!IsTrimmedSize(pad, t)) = ts
<1>1. Len(pad) \in Nat
  BY LenProperties
<1>2. ASSUME NEW t \in 0..Len(pad), NEW u \in 0..Len(pad), t < u,
             IsTrimmedSize(pad, t), IsTrimmedSize(pad, u)
      PROVE  FALSE
  <2>1. pad # << >> /\ u \in 0..(Len(pad) - 1) /\ u # 0 /\ u \in Nat /\ t \in Nat
    BY <1>1, <1>2 DEF IsTrimmedSize
  <2>2. pad[u + 1] # Zero
    BY <1>2, <2>1 DEF IsTrimmedSize
  <2>3. u \in (t + 1)..(Len(pad) - 1)
    BY <1>1, <1>2, <2>1
  <2>4. pad[u + 1] = Zero
    BY <1>2, <2>1, <2>3 DEF IsTrimmedSize
  <2> QED BY <2>2, <2>4
<1>3. \A t \in 0..Len(pad) : Abs!IsTrimmedSize(pad, t) <=> IsTrimmedSize(pad, t)
  BY DEF Abs!IsTrimmedSize, IsTrimmedSize, Abs!Zero, Zero, Abs!MkCell, MkCell
<1>4. ASSUME NEW t \in 0..Len(pad), IsTrimmedSize(pad, t) PROVE t = ts
  <2>1. ~(t < ts) /\ ~(ts < t)
    BY <1>2, <1>4
  <2> QED BY <1>1, <2>1
<1> QED BY <1>3, <1>4

-----------------------------------------------------------------------------
(* The device trees of a section, counted.                                 *)

LEMMA TreesFinite ==
  ASSUME NEW section, NEW n \in Int
  PROVE  IsFiniteSet(TreesIn(section, n)) /\ Cardinality(TreesIn(section, n)) \in Nat
<1>1. IsFiniteSet(1..n)
  BY FS_Interval
<1>2. TreesIn(section, n) \subseteq 1..n
  BY DEF TreesIn
<1> QED BY <1>1, <1>2, FS_Subset, FS_CardinalityType

(* A tree has fewer trees before it than there are up to a later place.    *)
LEMMA TreesBelow ==
  ASSUME NEW section, NEW n \in Nat, NEW j \in 1..n, IsDtb(section[j])
  PROVE  Cardinality(TreesIn(section, j - 1)) < Cardinality(TreesIn(section, n))
<1> DEFINE s == TreesIn(section, j - 1)
           t == TreesIn(section, n)
<1>1. IsFiniteSet(s) /\ IsFiniteSet(t) /\ Cardinality(s) \in Nat /\ Cardinality(t) \in Nat
  BY TreesFinite
<1>2. j \notin s /\ s \union {j} \subseteq t
  BY DEF TreesIn
<1>3. Cardinality(s \union {j}) = Cardinality(s) + 1
  BY <1>1, <1>2, FS_AddElement
<1>4. Cardinality(s \union {j}) <= Cardinality(t)
  BY <1>1, <1>2, FS_Subset
<1> HIDE DEF s, t
<1>5. Cardinality(s) < Cardinality(t)
  BY <1>1, <1>3, <1>4
<1> QED BY <1>5 DEF s, t

LEMMA TreeNoUnique ==
  ASSUME NEW section, NEW n \in Nat, NEW j \in 1..n, NEW k \in 1..n, NEW i,
         TreeNo(section, j, i), TreeNo(section, k, i)
  PROVE  j = k
<1>1. ASSUME NEW x \in 1..n, NEW y \in 1..n, IsDtb(section[x]), x < y
      PROVE  Cardinality(TreesIn(section, x - 1)) < Cardinality(TreesIn(section, y - 1))
  <2>1. y - 1 \in Nat /\ x \in 1..(y - 1)
    BY <1>1
  <2> QED BY <1>1, <2>1, TreesBelow
<1>2. i \in Nat
  <2>1. j - 1 \in Int
    OBVIOUS
  <2> QED BY <2>1, TreesFinite DEF TreeNo
<1>3. ~(j < k) /\ ~(k < j)
  BY <1>1, <1>2 DEF TreeNo
<1> QED BY <1>3

LEMMA AbsIsTree ==
  ASSUME NEW section, NEW j, NEW i
  PROVE  Abs!IsTree(section, j, i) <=> TreeNo(section, j, i)
  BY AbsCardinality DEF Abs!IsTree, Abs!IsDtb, TreeNo, TreesIn, IsDtb

(* The .dts files of a section, once the text of the trees found has       *)
(* reached the disk.                                                       *)
LEMMA AbsDtsOf ==
  ASSUME NEW section \in Seq(Cell), NEW ids \in Seq(Nat),
         Found(section, ids, Len(section))
  PROVE  Abs!DtsOf(section) = Flushed(OpenedDts(Len(ids)), ids)
<1> DEFINE n == Len(section)
           At(i) == CHOOSE j \in 1..n : TreeNo(section, j, i)
<1>1. n \in Nat /\ Len(ids) \in Nat
  BY LenProperties
<1>2. Abs!DtsOf(section)
        = [i \in DtIndex |-> IF \E j \in 1..n : TreeNo(section, j, i)
                             THEN section[At(i)].id ELSE MISSING]
  BY AbsIsTree DEF Abs!DtsOf, Abs!DtIndex, Abs!MISSING, DtIndex, MISSING
<1>3. DtIndex \subseteq Nat
  BY DirAssumption DEF DtIndex
<1>4. ASSUME NEW i \in DtIndex, i < Len(ids)
      PROVE  (\E j \in 1..n : TreeNo(section, j, i)) /\ section[At(i)].id = ids[i + 1]
  <2>1. i + 1 \in 1..Len(ids) /\ (i + 1) - 1 = i
    BY <1>1, <1>3, <1>4
  <2>2. PICK j \in 1..n : TreeNo(section, j, i) /\ ids[i + 1] = section[j].id
    BY <2>1 DEF Found
  <2>3. TreeNo(section, At(i), i) /\ At(i) \in 1..n
    BY <2>2
  <2>4. At(i) = j
    BY <1>1, <2>2, <2>3, TreeNoUnique
  <2> HIDE DEF At, n
  <2> QED BY <2>2, <2>4
<1>5. ASSUME NEW i \in DtIndex, ~(i < Len(ids))
      PROVE  ~(\E j \in 1..n : TreeNo(section, j, i))
  <2> SUFFICES ASSUME NEW j \in 1..n, TreeNo(section, j, i) PROVE FALSE
    OBVIOUS
  <2>1. i = Cardinality(TreesIn(section, j - 1)) /\ IsDtb(section[j])
    BY DEF TreeNo
  <2>2. Cardinality(TreesIn(section, j - 1)) < Cardinality(TreesIn(section, n))
    BY <1>1, <2>1, TreesBelow
  <2>3. Len(ids) = Cardinality(TreesIn(section, n))
    BY DEF Found
  <2> QED BY <1>5, <2>1, <2>2, <2>3
<1> HIDE DEF n, At
<1>6. \A i \in DtIndex :
        (IF \E j \in 1..n : TreeNo(section, j, i) THEN section[At(i)].id ELSE MISSING)
          = (IF i < Len(ids) THEN ids[i + 1] ELSE MISSING)
  BY <1>4, <1>5
<1>7. Flushed(OpenedDts(Len(ids)), ids)
        = [i \in DtIndex |-> IF i < Len(ids) THEN ids[i + 1] ELSE MISSING]
  BY DEF Flushed, OpenedDts
<1> QED BY <1>2, <1>6, <1>7

(* bxxt_boot_parse_dtb_sections begins with nothing found, finds the next  *)
(* tree, and at its end has found them all.                                *)
LEMMA FoundNone ==
  ASSUME NEW section \in Seq(Cell)
  PROVE  Found(section, << >>, 0)
<1>1. Len(section) \in Nat /\ Len(<< >>) = 0
  BY LenProperties, EmptySeq
<1>2. TreesIn(section, 0) = {}
  BY DEF TreesIn
<1>3. Cardinality(TreesIn(section, 0)) = 0
  BY <1>2, FS_EmptySet
<1>4. 1..Len(<< >>) = {}
  BY <1>1
<1>5. 0 <= Len(section)
  BY <1>1
<1> QED BY <1>1, <1>3, <1>4, <1>5 DEF Found

LEMMA FoundNext ==
  ASSUME NEW section \in Seq(Cell), NEW ids \in Seq(Nat), NEW base \in Nat,
         Found(section, ids, base), NEW i, IsNextDtb(section, base, i)
  PROVE  /\ Found(section, Append(ids, section[i].id), i)
         /\ section[i].id \in Nat /\ i \in Nat
<1> DEFINE new == Append(ids, section[i].id)
<1>1. Len(section) \in Nat /\ Len(ids) \in Nat
  BY LenProperties
<1>2. /\ i \in (base + 1)..Len(section) /\ IsDtb(section[i])
      /\ \A j \in (base + 1)..(i - 1) : ~IsDtb(section[j])
  BY DEF IsNextDtb
<1>3. i \in Nat /\ i \in 1..Len(section) /\ base < i /\ i <= Len(section)
  BY <1>1, <1>2
<1>4. section[i] \in Cell
  BY <1>3, ElementOfSeq
<1>5. section[i].id \in Nat
  BY <1>4 DEF Cell
<1>6. /\ new \in Seq(Nat) /\ Len(new) = Len(ids) + 1
      /\ \A k \in 1..Len(ids) : new[k] = ids[k]
      /\ new[Len(ids) + 1] = section[i].id
  BY <1>5, AppendProperties
<1>7. TreesIn(section, i - 1) = TreesIn(section, base)
  BY <1>2, <1>3 DEF TreesIn
<1>8. Cardinality(TreesIn(section, base)) = Len(ids)
  BY DEF Found
<1>9. TreesIn(section, i) = TreesIn(section, i - 1) \union {i} /\ i \notin TreesIn(section, i - 1)
  BY <1>2, <1>3 DEF TreesIn
<1>10. Cardinality(TreesIn(section, i)) = Len(ids) + 1
  <2>1. IsFiniteSet(TreesIn(section, i - 1))
    BY <1>3, TreesFinite
  <2>2. Cardinality(TreesIn(section, i - 1) \union {i})
          = Cardinality(TreesIn(section, i - 1)) + 1
    BY <1>9, <2>1, FS_AddElement
  <2> QED BY <1>7, <1>8, <1>9, <2>2
<1>11. TreeNo(section, i, Len(ids))
  BY <1>2, <1>7, <1>8 DEF TreeNo
<1> HIDE DEF new
<1>12. ASSUME NEW k \in 1..Len(new)
       PROVE  \E j \in 1..i : TreeNo(section, j, k - 1) /\ new[k] = section[j].id
  <2>1. CASE k = Len(ids) + 1
    <3>1. k - 1 = Len(ids) /\ i \in 1..i
      BY <1>1, <1>3, <2>1
    <3> QED BY <1>6, <1>11, <2>1, <3>1
  <2>2. CASE k # Len(ids) + 1
    <3>1. k \in 1..Len(ids)
      BY <1>1, <1>6, <2>2
    <3>2. PICK j \in 1..base : TreeNo(section, j, k - 1) /\ ids[k] = section[j].id
      BY <3>1 DEF Found
    <3>3. j \in 1..i
      BY <1>3
    <3> QED BY <1>6, <3>1, <3>2, <3>3
  <2> QED BY <2>1, <2>2
<1>13. Found(section, new, i)
  BY <1>3, <1>6, <1>10, <1>12 DEF Found
<1> QED BY <1>3, <1>5, <1>13 DEF new

LEMMA FoundAll ==
  ASSUME NEW section \in Seq(Cell), NEW ids \in Seq(Nat), NEW base \in Nat,
         Found(section, ids, base), NoMoreDtb(section, base)
  PROVE  Found(section, ids, Len(section))
<1>1. Len(section) \in Nat /\ base <= Len(section)
  BY LenProperties DEF Found
<1>2. TreesIn(section, Len(section)) = TreesIn(section, base)
  BY <1>1 DEF TreesIn, NoMoreDtb
<1>3. ASSUME NEW i \in 1..Len(ids)
      PROVE  \E j \in 1..Len(section) : TreeNo(section, j, i - 1) /\ ids[i] = section[j].id
  <2>1. PICK j \in 1..base : TreeNo(section, j, i - 1) /\ ids[i] = section[j].id
    BY DEF Found
  <2>2. j \in 1..Len(section)
    BY <1>1
  <2> QED BY <2>1, <2>2
<1>4. Len(ids) = Cardinality(TreesIn(section, Len(section))) /\ Len(section) <= Len(section)
  BY <1>1, <1>2 DEF Found
<1> QED BY <1>3, <1>4 DEF Found

-----------------------------------------------------------------------------
(* The directory that an unpack leaves.                                    *)

LEMMA AbsSections ==
  ASSUME NEW f
  PROVE  /\ Abs!KernelOf(f) = KernelOf(f) /\ Abs!RamdiskOf(f) = RamdiskOf(f)
         /\ Abs!SecondOf(f) = SecondOf(f) /\ Abs!RecoveryDtboOf(f) = RecoveryDtboOf(f)
         /\ Abs!DtbOf(f) = DtbOf(f) /\ Abs!PadOf(f) = PadOf(f)
<1>1. /\ Abs!B_KE_o(f.hdr) = B_KE_o(f.hdr) /\ Abs!B_RA_o(f.hdr) = B_RA_o(f.hdr)
      /\ Abs!B_SE_o(f.hdr) = B_SE_o(f.hdr) /\ Abs!B_RE_o(f.hdr) = B_RE_o(f.hdr)
      /\ Abs!B_DT_o(f.hdr) = B_DT_o(f.hdr) /\ Abs!B_PAD_o(f.hdr) = B_PAD_o(f.hdr)
  BY DEF Abs!B_KE_o, Abs!B_RA_o, Abs!B_SE_o, Abs!B_RE_o, Abs!B_DT_o, Abs!B_PAD_o, Abs!B_ps,
    B_KE_o, B_RA_o, B_SE_o, B_RE_o, B_DT_o, B_PAD_o, B_ps
<1> QED BY <1>1, Zenon DEF Abs!KernelOf, Abs!RamdiskOf, Abs!SecondOf, Abs!RecoveryDtboOf,
  Abs!DtbOf, Abs!PadOf, Abs!ReadAt, KernelOf, RamdiskOf, SecondOf, RecoveryDtboOf, DtbOf,
  PadOf, ReadAt

(* What BootSpec lets be unpacked is what bxxt_boot_open_file opens.       *)
LEMMA AbsReadable ==
  ASSUME NEW f, NEW force \in BOOLEAN
  PROVE  /\ Abs!Readable(f) <=> (/\ bxxt_boot_img_version_check(f.hdr)
                                 /\ bxxt_boot_img_base_check(f.hdr))
         /\ bxxt_boot_open_file(f, force) <=> (/\ bxxt_boot_img_version_check(f.hdr)
                                               /\ bxxt_boot_img_base_check(f.hdr))
<1>1. Abs!Readable(f) <=> (/\ bxxt_boot_img_version_check(f.hdr)
                           /\ bxxt_boot_img_base_check(f.hdr))
  BY DEF Abs!Readable, Abs!bxxt_boot_img_version_check, Abs!bxxt_boot_img_base_check,
    bxxt_boot_img_version_check, bxxt_boot_img_base_check
<1>2. force => bxxt_boot_img_compat_check(f, force)
  BY DEF bxxt_boot_img_compat_check
<1>3. bxxt_boot_open_file(f, force) <=> (/\ bxxt_boot_img_version_check(f.hdr)
                                         /\ bxxt_boot_img_base_check(f.hdr))
  BY <1>2, Zenon DEF bxxt_boot_open_file, bxxt_boot_init1
<1> QED BY <1>1, <1>3

(* A directory whose files are those of the image is the one BootSpec      *)
(* gives.                                                                  *)
Trimmed(f) ==
  SubSeq(PadOf(f), 1, CHOOSE ts \in 0..Len(PadOf(f)) : Abs!IsTrimmedSize(PadOf(f), ts))

LEMMA AbsUnpackRecord ==
  ASSUME NEW f
  PROVE  Abs!UnpackOf(f)
           = [meta_ok |-> TRUE, meta |-> MetaOf(f),
              kernel |-> Abs!KernelFile(KernelOf(f)),
              second |-> SecondOf(f), recovery_dtbo |-> RecoveryDtboOf(f),
              extra |-> Trimmed(f), kernel_dts |-> Abs!DtsOf(KernelOf(f)),
              dt_dts |-> Abs!DtsOf(DtbOf(f)),
              ramdisk_dir |-> TRUE, ramdisk |-> Abs!FilesOf(RamdiskOf(f))]
<1>1. /\ Abs!KernelOf(f) = KernelOf(f) /\ Abs!RamdiskOf(f) = RamdiskOf(f)
      /\ Abs!SecondOf(f) = SecondOf(f) /\ Abs!RecoveryDtboOf(f) = RecoveryDtboOf(f)
      /\ Abs!DtbOf(f) = DtbOf(f) /\ Abs!PadOf(f) = PadOf(f)
  BY AbsSections
<1>2. Abs!bxxt_boot_detect_kernel_compression(KernelOf(f))
        = bxxt_boot_detect_kernel_compression(KernelOf(f))
  BY AbsDetect
<1> QED BY <1>1, <1>2, Zenon DEF Abs!UnpackOf, MetaOf, Trimmed

LEMMA AbsUnpackFields ==
  ASSUME NEW f, NEW d, d = Abs!UnpackOf(f)
  PROVE  /\ d.meta_ok /\ d.meta = MetaOf(f)
         /\ d.kernel = Abs!KernelFile(KernelOf(f))
         /\ d.second = SecondOf(f) /\ d.recovery_dtbo = RecoveryDtboOf(f)
         /\ d.extra = Trimmed(f)
         /\ d.kernel_dts = Abs!DtsOf(KernelOf(f)) /\ d.dt_dts = Abs!DtsOf(DtbOf(f))
         /\ d.ramdisk_dir /\ d.ramdisk = Abs!FilesOf(RamdiskOf(f))
  BY AbsUnpackRecord

LEMMA AbsUnpackOf ==
  ASSUME NEW d \in Dir, NEW f,
         d.meta_ok, d.meta = MetaOf(f), d.kernel = Abs!KernelFile(KernelOf(f)),
         d.second = SecondOf(f), d.recovery_dtbo = RecoveryDtboOf(f),
         d.extra = Trimmed(f),
         d.kernel_dts = Abs!DtsOf(KernelOf(f)), d.dt_dts = Abs!DtsOf(DtbOf(f)),
         d.ramdisk_dir, d.ramdisk = Abs!FilesOf(RamdiskOf(f))
  PROVE  d = Abs!UnpackOf(f)
<1>1. d = [meta_ok |-> d.meta_ok, meta |-> d.meta, kernel |-> d.kernel,
           second |-> d.second, recovery_dtbo |-> d.recovery_dtbo, extra |-> d.extra,
           kernel_dts |-> d.kernel_dts, dt_dts |-> d.dt_dts,
           ramdisk_dir |-> d.ramdisk_dir, ramdisk |-> d.ramdisk]
  BY DEF Dir
<1>2. d.meta_ok = TRUE /\ d.ramdisk_dir = TRUE
  BY DEF Dir
<1> QED BY <1>1, <1>2, AbsUnpackRecord, Zenon

-----------------------------------------------------------------------------
(* The steps of unpack.                                                    *)

LEMMA UnpackedTypes ==
  ASSUME IInv
  PROVE  /\ dir \in Dir /\ hist \in Hist /\ b \in BootT /\ cur \in Cur /\ exit \in Exit
         /\ used \in Used /\ b.kernel_dtb \in Seq(Nat) /\ b.dtb \in Seq(Nat)
         /\ b.pad_size \in Nat /\ cur.base \in Nat
         /\ KernelOf(boot) \in Seq(Cell) /\ DtbOf(boot) \in Seq(Cell)
         /\ RamdiskOf(boot) \in Seq(Cell) /\ PadOf(boot) \in Seq(Cell)
<1>1. /\ dir \in Dir /\ hist \in Hist /\ b \in BootT /\ cur \in Cur /\ exit \in Exit
      /\ used \in Used
  BY DEF IInv, TypeOK
<1>2. /\ b.kernel_dtb \in Seq(Nat) /\ b.dtb \in Seq(Nat)
      /\ b.pad_size \in Nat /\ cur.base \in Nat
  BY <1>1 DEF BootT, Cur
<1> QED BY <1>1, <1>2, BootSections

(* The invariants about unpack are void while it does not run.             *)
LEMMA UnpackedVoid ==
  ASSUME pc' \notin UnpackPc
  PROVE  EndInv' /\ FreshInv' /\ (pc' # "idle" => ScanInv')
  BY DEF EndInv, FreshInv, ScanInv, UnpackPc

(* A command ends.                                                         *)
LEMMA UnpackedLeave ==
  ASSUME NEW how, NEW r, Leave(how, r)
  PROVE  /\ ScanInv' /\ EndInv' /\ FreshInv'
         /\ pc' = "idle"
<1>1. pc' = "idle" /\ b' = NoB /\ cur' = NoCur
  BY DEF Leave
<1> QED BY <1>1, UnpackedVoid DEF ScanInv, UnpackPc

LEMMA UnpackedOpen ==
  ASSUME IInv, UnpackedInv, CompleteInv, UnpackOpen
  PROVE  UnpackedInv'
<1>0. pc = "u_open" /\ UNCHANGED <<boot, dir, out, opts, hist>> /\ opts \in Opts
  BY DEF UnpackOpen, disk, IInv, TypeOK
<1>1. CASE Leave("return", FAILED)
  <2>1. FilesInv'
    BY <1>0, <1>1 DEF FilesInv, UnpackedInv, Leave, UnpackPc
  <2> QED BY <1>1, <2>1, UnpackedLeave DEF UnpackedInv
<1>2. CASE ~Leave("return", FAILED)
  <2>0. opts.force \in BOOLEAN
    BY <1>0 DEF Opts
  <2>1. /\ bxxt_boot_open_file(boot, opts.force) /\ pc' = "u_scan_kernel"
        /\ \E ts \in 0..Len(PadOf(boot)) :
             IsTrimmedSize(PadOf(boot), ts) /\ b' = [b EXCEPT !.pad_size = ts]
        /\ UNCHANGED cur
    BY <1>2 DEF UnpackOpen, Goto
  <2>2. PICK ts \in 0..Len(PadOf(boot)) :
          IsTrimmedSize(PadOf(boot), ts) /\ b' = [b EXCEPT !.pad_size = ts]
    BY <2>1
  <2>3. b = NoB /\ cur = NoCur
    BY <1>0 DEF UnpackedInv, ScanInv
  <2>4. b'.pad_size = ts /\ b'.kernel_dtb = << >> /\ b'.dtb = << >> /\ cur'.base = 0
    BY <2>1, <2>2, <2>3 DEF NoB, NoCur
  <2>5. bxxt_boot_img_version_check(boot.hdr) /\ bxxt_boot_img_base_check(boot.hdr)
    BY <2>0, <2>1, AbsReadable
  <2>6. Found(KernelOf(boot), << >>, 0)
    BY UnpackedTypes, FoundNone
  <2>7. ScanInv'
    BY <1>0, <2>1, <2>2, <2>4, <2>5, <2>6 DEF ScanInv, UnpackPc
  <2>8. FilesInv'
    BY <1>0, <2>1 DEF FilesInv, UnpackedInv, UnpackPc, BeforeMkdir, BeforeDtDts,
      BeforeExtra, BeforeSecond, BeforeRecoveryDtbo, BeforeKernel
  <2>9. EndInv'
    BY <1>0, <2>1 DEF EndInv, UnpackedInv, UnpackPc
  <2>10. FreshInv'
    BY <1>0, <2>1 DEF FreshInv, UnpackedInv, UnpackPc, BeforeMkdir, BeforeDtDts,
      BeforeExtra, BeforeSecond, BeforeRecoveryDtbo, BeforeKernel, DtsUnpacked
  <2> QED BY <2>7, <2>8, <2>9, <2>10 DEF UnpackedInv
<1> QED BY <1>1, <1>2

(* The two scans change nothing but the unpacker's memory.                 *)
LEMMA ScanFrame ==
  ASSUME UnpackedInv, pc \in {"u_scan_kernel", "u_scan_dtb"},
         pc' \in {"u_scan_kernel", "u_scan_dtb", "u_kernel"},
         UNCHANGED <<dir, boot, out, hist>>, ScanInv'
  PROVE  UnpackedInv'
<1>1. FilesInv' /\ EndInv'
  BY DEF FilesInv, EndInv, UnpackedInv, UnpackPc, BeforeMkdir, BeforeDtDts,
      BeforeExtra, BeforeSecond, BeforeRecoveryDtbo, BeforeKernel
<1>2. FreshInv'
  BY DEF FreshInv, UnpackedInv, UnpackPc, BeforeMkdir, BeforeDtDts,
      BeforeExtra, BeforeSecond, BeforeRecoveryDtbo, BeforeKernel, DtsUnpacked
<1> QED BY <1>1, <1>2 DEF UnpackedInv

LEMMA UnpackedScanKernel ==
  ASSUME IInv, UnpackedInv, UnpackScanKernel
  PROVE  UnpackedInv'
<1>0. pc = "u_scan_kernel" /\ UNCHANGED <<boot, dir, out, opts, hist>>
  BY DEF UnpackScanKernel, disk
<1>1. /\ bxxt_boot_img_version_check(boot.hdr) /\ bxxt_boot_img_base_check(boot.hdr)
      /\ IsTrimmedSize(PadOf(boot), b.pad_size)
      /\ Found(KernelOf(boot), b.kernel_dtb, cur.base) /\ b.dtb = << >>
  BY <1>0 DEF UnpackedInv, ScanInv, UnpackPc
<1>2. CASE pc' = "u_scan_kernel"
  <2>1. PICK i \in 1..Len(KernelOf(boot)) :
          /\ IsNextDtb(KernelOf(boot), cur.base, i)
          /\ b' = [b EXCEPT !.kernel_dtb = Append(@, KernelOf(boot)[i].id)]
          /\ cur' = [cur EXCEPT !.base = i]
    BY <1>2 DEF UnpackScanKernel, Goto
  <2>2. /\ b'.pad_size = b.pad_size /\ b'.dtb = b.dtb /\ cur'.base = i
        /\ b'.kernel_dtb = Append(b.kernel_dtb, KernelOf(boot)[i].id)
    BY <2>1, UnpackedTypes DEF BootT, Cur
  <2>3. Found(KernelOf(boot), b'.kernel_dtb, i)
    BY <1>1, <2>1, <2>2, UnpackedTypes, FoundNext
  <2>4. ScanInv'
    BY <1>0, <1>1, <1>2, <2>2, <2>3 DEF ScanInv
  <2> QED BY <1>0, <1>2, <2>4, ScanFrame
<1>3. CASE pc' # "u_scan_kernel"
  <2>1. /\ NoMoreDtb(KernelOf(boot), cur.base) /\ cur' = NoCur /\ pc' = "u_scan_dtb"
        /\ UNCHANGED b
    BY <1>3 DEF UnpackScanKernel, Goto
  <2>2. Found(KernelOf(boot), b.kernel_dtb, Len(KernelOf(boot)))
    BY <1>1, <2>1, UnpackedTypes, FoundAll
  <2>3. Found(DtbOf(boot), << >>, 0) /\ NoCur.base = 0
    BY UnpackedTypes, FoundNone DEF NoCur
  <2>4. ScanInv'
    BY <1>0, <1>1, <2>1, <2>2, <2>3 DEF ScanInv
  <2> QED BY <1>0, <2>1, <2>4, ScanFrame
<1> QED BY <1>2, <1>3

LEMMA UnpackedScanDtb ==
  ASSUME IInv, UnpackedInv, UnpackScanDtb
  PROVE  UnpackedInv'
<1>0. pc = "u_scan_dtb" /\ UNCHANGED <<boot, dir, out, opts, hist>>
  BY DEF UnpackScanDtb, disk
<1>1. /\ bxxt_boot_img_version_check(boot.hdr) /\ bxxt_boot_img_base_check(boot.hdr)
      /\ IsTrimmedSize(PadOf(boot), b.pad_size)
      /\ Found(KernelOf(boot), b.kernel_dtb, Len(KernelOf(boot)))
      /\ Found(DtbOf(boot), b.dtb, cur.base)
  BY <1>0 DEF UnpackedInv, ScanInv, UnpackPc
<1>2. CASE pc' = "u_scan_dtb"
  <2>1. PICK i \in 1..Len(DtbOf(boot)) :
          /\ IsNextDtb(DtbOf(boot), cur.base, i)
          /\ b' = [b EXCEPT !.dtb = Append(@, DtbOf(boot)[i].id)]
          /\ cur' = [cur EXCEPT !.base = i]
    BY <1>2 DEF UnpackScanDtb, Goto
  <2>2. /\ b'.pad_size = b.pad_size /\ b'.kernel_dtb = b.kernel_dtb /\ cur'.base = i
        /\ b'.dtb = Append(b.dtb, DtbOf(boot)[i].id)
    BY <2>1, UnpackedTypes DEF BootT, Cur
  <2>3. Found(DtbOf(boot), b'.dtb, i)
    BY <1>1, <2>1, <2>2, UnpackedTypes, FoundNext
  <2>4. ScanInv'
    BY <1>0, <1>1, <1>2, <2>2, <2>3 DEF ScanInv
  <2> QED BY <1>0, <1>2, <2>4, ScanFrame
<1>3. CASE pc' # "u_scan_dtb"
  <2>1. /\ NoMoreDtb(DtbOf(boot), cur.base) /\ pc' = "u_kernel" /\ UNCHANGED b
    BY <1>3 DEF UnpackScanDtb, Goto
  <2>2. Found(DtbOf(boot), b.dtb, Len(DtbOf(boot)))
    BY <1>1, <2>1, UnpackedTypes, FoundAll
  <2>3. ScanInv'
    BY <1>0, <1>1, <2>1, <2>2 DEF ScanInv
  <2> QED BY <1>0, <2>1, <2>3, ScanFrame
<1> QED BY <1>2, <1>3

(* A short write makes an unpack dirty; otherwise all of it was written.   *)
LEMMA WriteHist ==
  ASSUME hist \in Hist, NEW n, NEW len, DiskWrite(n, len)
  PROVE  /\ hist'.complete = hist.complete /\ hist'.from = hist.from
         /\ hist'.packed = hist.packed /\ hist'.made_from = hist.made_from
         /\ hist'.made_packed = hist.made_packed
         /\ hist'.fresh => hist.fresh /\ n = len
  BY DEF DiskWrite, Hist

(* The files that unpack writes from memory: what a step from one of these *)
(* labels to another leaves of the invariant.                              *)
Writing == {"u_kernel", "u_recovery_dtbo", "u_second", "u_extra"}

LEMMA WriteFrame ==
  ASSUME UnpackedInv, UnpackInv, pc \in Writing, pc' \in Writing \union {"u_kernel_dts"},
         UNCHANGED <<boot, b, cur, out>>, hist'.complete = hist.complete,
         dir'.meta_ok = dir.meta_ok, dir'.meta = dir.meta,
         dir'.ramdisk_dir = dir.ramdisk_dir
  PROVE  FilesInv' /\ ScanInv' /\ EndInv'
<1>1. FilesInv'
  BY DEF UnpackedInv, FilesInv, UnpackPc, Writing, BeforeMkdir, BeforeDtDts,
      BeforeExtra, BeforeSecond, BeforeRecoveryDtbo, BeforeKernel
<1>2. ScanInv'
  BY DEF UnpackedInv, ScanInv, UnpackPc, Writing
<1>3. EndInv'
  BY DEF UnpackedInv, EndInv, UnpackPc, Writing
<1> QED BY <1>1, <1>2, <1>3

(* A file written over an empty one is what was written.                   *)
LEMMA WriteOverEmpty ==
  ASSUME NEW new \in Seq(Cell)
  PROVE  WriteOver(<< >>, new) = new
<1>1. Len(new) \in Nat /\ Len(<< >>) = 0
  BY LenProperties, EmptySeq
<1>2. SubSeq(<< >>, Len(new) + 1, 0) = << >>
  BY <1>1, SubSeqEmpty
<1> QED BY <1>1, <1>2, ConcatEmptySeq DEF WriteOver

LEMMA UnpackedKernel ==
  ASSUME IInv, UnpackedInv, CompleteInv, UnpackKernel
  PROVE  UnpackedInv'
<1> DEFINE k == KernelOf(boot)
<1>0. /\ pc = "u_kernel" /\ pc' = "u_recovery_dtbo"
      /\ UNCHANGED <<boot, out, opts, b, cur, img, exit>>
  BY DEF UnpackKernel, Goto, mem
<1>1. PICK n \in 0..Len(k) : \E got \in 0..n :
        /\ IsDecoded(k, n) /\ DiskWrite(got, n)
        /\ dir' = [dir EXCEPT !.kernel = WriteOver(@, SubSeq(Decoded(k, n), 1, got))]
  BY DEF UnpackKernel
<1>2. PICK got \in 0..n :
        /\ IsDecoded(k, n) /\ DiskWrite(got, n)
        /\ dir' = [dir EXCEPT !.kernel = WriteOver(@, SubSeq(Decoded(k, n), 1, got))]
  BY <1>1
<1>3. k \in Seq(Cell) /\ hist \in Hist /\ dir \in Dir
  BY UnpackedTypes
<1>4. /\ hist'.complete = hist.complete /\ (hist'.fresh => hist.fresh /\ got = n)
  BY <1>2, <1>3, WriteHist
<1> HIDE DEF k
<1>5. /\ dir'.kernel = WriteOver(dir.kernel, SubSeq(Decoded(k, n), 1, got))
      /\ dir'.meta_ok = dir.meta_ok /\ dir'.meta = dir.meta
      /\ dir'.ramdisk_dir = dir.ramdisk_dir /\ dir'.recovery_dtbo = dir.recovery_dtbo
      /\ dir'.second = dir.second /\ dir'.extra = dir.extra
      /\ dir'.kernel_dts = dir.kernel_dts /\ dir'.dt_dts = dir.dt_dts
      /\ dir'.ramdisk = dir.ramdisk
  BY <1>2, <1>3 DEF Dir
<1>6. hist'.fresh => dir'.kernel = Abs!KernelFile(k)
  <2> SUFFICES ASSUME hist'.fresh PROVE dir'.kernel = Abs!KernelFile(k)
    OBVIOUS
  <2>1. dir.kernel = << >> /\ got = n
    BY <1>0, <1>4 DEF UnpackedInv, FreshInv, UnpackPc, BeforeKernel
  <2>2. Decoded(k, n) \in Seq(Cell) /\ Len(Decoded(k, n)) = n
    BY <1>2, <1>3, DecodedType
  <2>3. SubSeq(Decoded(k, n), 1, got) = Decoded(k, n)
    BY <2>1, <2>2, SubSeqFull
  <2>4. Abs!KernelFile(k) = Decoded(k, n)
    BY <1>2, <1>3, AbsKernelFile
  <2> QED BY <1>5, <2>1, <2>2, <2>3, <2>4, WriteOverEmpty
<1>7. FilesInv' /\ ScanInv' /\ EndInv'
  <2>1. UnpackInv
    BY DEF CompleteInv
  <2> QED BY <1>0, <1>4, <1>5, <2>1, WriteFrame DEF Writing
<1>8. FreshInv'
  BY <1>0, <1>4, <1>5, <1>6 DEF UnpackedInv, FreshInv, k, UnpackPc, BeforeMkdir, BeforeDtDts,
      BeforeExtra, BeforeSecond, BeforeRecoveryDtbo, BeforeKernel, DtsUnpacked
<1> QED BY <1>7, <1>8 DEF UnpackedInv

(* A section of size 0 is empty, and one whose size was written is whole.  *)
LEMMA SectionWritten ==
  ASSUME NEW section \in Seq(Cell), NEW got
  PROVE  /\ got = Len(section) => SubSeq(section, 1, got) = section
         /\ Len(section) = 0 => section = << >>
  BY SubSeqFull, EmptySeq

(* The recovery_dtbo file.                                                 *)
LEMMA UnpackedRecoveryDtbo ==
  ASSUME IInv, UnpackedInv, CompleteInv, UnpackRecoveryDtbo
  PROVE  UnpackedInv'
<1> DEFINE s == RecoveryDtboOf(boot)
           size == boot.hdr.recovery_dtbo_size
<1>0. /\ pc = "u_recovery_dtbo" /\ pc' = "u_second"
      /\ UNCHANGED <<boot, out, opts, b, cur, img, exit>>
  BY DEF UnpackRecoveryDtbo, Goto, mem
<1>1. hist \in Hist /\ dir \in Dir /\ s \in Seq(Cell) /\ Len(s) = size
  BY UnpackedTypes, BootSections
<1>2. /\ hist'.complete = hist.complete /\ (hist'.fresh => hist.fresh)
      /\ dir'.meta_ok = dir.meta_ok /\ dir'.meta = dir.meta
      /\ dir'.ramdisk_dir = dir.ramdisk_dir
      /\ dir'.kernel = dir.kernel
      /\ dir'.second = dir.second
      /\ dir'.extra = dir.extra
      /\ dir'.kernel_dts = dir.kernel_dts
      /\ dir'.dt_dts = dir.dt_dts
      /\ dir'.ramdisk = dir.ramdisk
      /\ hist'.fresh => dir'.recovery_dtbo = s
  <2>1. CASE size # 0
    <3>1. PICK got \in 0..size :
            DiskWrite(got, size) /\ dir' = [dir EXCEPT !.recovery_dtbo = SubSeq(s, 1, got)]
      BY <2>1 DEF UnpackRecoveryDtbo
    <3>2. hist'.complete = hist.complete /\ (hist'.fresh => hist.fresh /\ got = size)
      BY <1>1, <3>1, WriteHist
    <3> HIDE DEF s, size
    <3>3. /\ dir'.meta_ok = dir.meta_ok /\ dir'.meta = dir.meta
          /\ dir'.ramdisk_dir = dir.ramdisk_dir
          /\ dir'.kernel = dir.kernel
          /\ dir'.second = dir.second
          /\ dir'.extra = dir.extra
          /\ dir'.kernel_dts = dir.kernel_dts
          /\ dir'.dt_dts = dir.dt_dts
          /\ dir'.ramdisk = dir.ramdisk
          /\ dir'.recovery_dtbo = SubSeq(s, 1, got)
      BY <1>1, <3>1 DEF Dir
    <3>4. hist'.fresh => SubSeq(s, 1, got) = s
      BY <1>1, <3>2, SectionWritten
    <3> QED BY <3>2, <3>3, <3>4
  <2>2. CASE size = 0
    <3>1. UNCHANGED <<dir, hist>>
      BY <2>2 DEF UnpackRecoveryDtbo
    <3>2. hist.fresh => dir.recovery_dtbo = << >>
      BY <1>0 DEF UnpackedInv, FreshInv, UnpackPc, BeforeMkdir, BeforeDtDts,
        BeforeExtra, BeforeSecond, BeforeRecoveryDtbo, BeforeKernel
    <3>3. s = << >>
      BY <1>1, <2>2, SectionWritten
    <3> QED BY <3>1, <3>2, <3>3
  <2> QED BY <2>1, <2>2
<1> HIDE DEF s, size
<1>3. FilesInv' /\ ScanInv' /\ EndInv'
  <2>1. UnpackInv
    BY DEF CompleteInv
  <2> QED BY <1>0, <1>2, <2>1, WriteFrame DEF Writing
<1>4. FreshInv'
  BY <1>0, <1>2 DEF UnpackedInv, FreshInv, s, size, UnpackPc, BeforeMkdir, BeforeDtDts,
    BeforeExtra, BeforeSecond, BeforeRecoveryDtbo, BeforeKernel, DtsUnpacked
<1> QED BY <1>3, <1>4 DEF UnpackedInv

(* The second file.                                                        *)
LEMMA UnpackedSecond ==
  ASSUME IInv, UnpackedInv, CompleteInv, UnpackSecond
  PROVE  UnpackedInv'
<1> DEFINE s == SecondOf(boot)
           size == boot.hdr.second_size
<1>0. /\ pc = "u_second" /\ pc' = "u_extra"
      /\ UNCHANGED <<boot, out, opts, b, cur, img, exit>>
  BY DEF UnpackSecond, Goto, mem
<1>1. hist \in Hist /\ dir \in Dir /\ s \in Seq(Cell) /\ Len(s) = size
  BY UnpackedTypes, BootSections
<1>2. /\ hist'.complete = hist.complete /\ (hist'.fresh => hist.fresh)
      /\ dir'.meta_ok = dir.meta_ok /\ dir'.meta = dir.meta
      /\ dir'.ramdisk_dir = dir.ramdisk_dir
      /\ dir'.kernel = dir.kernel
      /\ dir'.recovery_dtbo = dir.recovery_dtbo
      /\ dir'.extra = dir.extra
      /\ dir'.kernel_dts = dir.kernel_dts
      /\ dir'.dt_dts = dir.dt_dts
      /\ dir'.ramdisk = dir.ramdisk
      /\ hist'.fresh => dir'.second = s
  <2>1. CASE size # 0
    <3>1. PICK got \in 0..size :
            DiskWrite(got, size) /\ dir' = [dir EXCEPT !.second = SubSeq(s, 1, got)]
      BY <2>1 DEF UnpackSecond
    <3>2. hist'.complete = hist.complete /\ (hist'.fresh => hist.fresh /\ got = size)
      BY <1>1, <3>1, WriteHist
    <3> HIDE DEF s, size
    <3>3. /\ dir'.meta_ok = dir.meta_ok /\ dir'.meta = dir.meta
          /\ dir'.ramdisk_dir = dir.ramdisk_dir
          /\ dir'.kernel = dir.kernel
          /\ dir'.recovery_dtbo = dir.recovery_dtbo
          /\ dir'.extra = dir.extra
          /\ dir'.kernel_dts = dir.kernel_dts
          /\ dir'.dt_dts = dir.dt_dts
          /\ dir'.ramdisk = dir.ramdisk
          /\ dir'.second = SubSeq(s, 1, got)
      BY <1>1, <3>1 DEF Dir
    <3>4. hist'.fresh => SubSeq(s, 1, got) = s
      BY <1>1, <3>2, SectionWritten
    <3> QED BY <3>2, <3>3, <3>4
  <2>2. CASE size = 0
    <3>1. UNCHANGED <<dir, hist>>
      BY <2>2 DEF UnpackSecond
    <3>2. hist.fresh => dir.second = << >>
      BY <1>0 DEF UnpackedInv, FreshInv, UnpackPc, BeforeMkdir, BeforeDtDts,
        BeforeExtra, BeforeSecond, BeforeRecoveryDtbo, BeforeKernel
    <3>3. s = << >>
      BY <1>1, <2>2, SectionWritten
    <3> QED BY <3>1, <3>2, <3>3
  <2> QED BY <2>1, <2>2
<1> HIDE DEF s, size
<1>3. FilesInv' /\ ScanInv' /\ EndInv'
  <2>1. UnpackInv
    BY DEF CompleteInv
  <2> QED BY <1>0, <1>2, <2>1, WriteFrame DEF Writing
<1>4. FreshInv'
  BY <1>0, <1>2 DEF UnpackedInv, FreshInv, s, size, UnpackPc, BeforeMkdir, BeforeDtDts,
    BeforeExtra, BeforeSecond, BeforeRecoveryDtbo, BeforeKernel, DtsUnpacked
<1> QED BY <1>3, <1>4 DEF UnpackedInv

(* The trailing data.                                                      *)
LEMMA UnpackedExtra ==
  ASSUME IInv, UnpackedInv, CompleteInv, UnpackExtra
  PROVE  UnpackedInv'
<1> DEFINE s == PadOf(boot)
           size == b.pad_size
<1>0. /\ pc = "u_extra" /\ pc' = "u_kernel_dts"
      /\ UNCHANGED <<boot, out, opts, b, cur, img, exit>>
  BY DEF UnpackExtra, Goto, mem
<1>1. hist \in Hist /\ dir \in Dir /\ s \in Seq(Cell) /\ size \in Nat
  BY UnpackedTypes
<1>2. /\ hist'.complete = hist.complete /\ (hist'.fresh => hist.fresh)
      /\ dir'.meta_ok = dir.meta_ok /\ dir'.meta = dir.meta
      /\ dir'.ramdisk_dir = dir.ramdisk_dir
      /\ dir'.kernel = dir.kernel
      /\ dir'.recovery_dtbo = dir.recovery_dtbo
      /\ dir'.second = dir.second
      /\ dir'.kernel_dts = dir.kernel_dts
      /\ dir'.dt_dts = dir.dt_dts
      /\ dir'.ramdisk = dir.ramdisk
      /\ hist'.fresh => dir'.extra = SubSeq(s, 1, size)
  <2>1. CASE size # 0
    <3>1. PICK got \in 0..size :
            DiskWrite(got, size) /\ dir' = [dir EXCEPT !.extra = SubSeq(s, 1, got)]
      BY <2>1 DEF UnpackExtra
    <3>2. hist'.complete = hist.complete /\ (hist'.fresh => hist.fresh /\ got = size)
      BY <1>1, <3>1, WriteHist
    <3> HIDE DEF s, size
    <3>3. /\ dir'.meta_ok = dir.meta_ok /\ dir'.meta = dir.meta
          /\ dir'.ramdisk_dir = dir.ramdisk_dir
          /\ dir'.kernel = dir.kernel
          /\ dir'.recovery_dtbo = dir.recovery_dtbo
          /\ dir'.second = dir.second
          /\ dir'.kernel_dts = dir.kernel_dts
          /\ dir'.dt_dts = dir.dt_dts
          /\ dir'.ramdisk = dir.ramdisk
          /\ dir'.extra = SubSeq(s, 1, got)
      BY <1>1, <3>1 DEF Dir
    <3>4. hist'.fresh => SubSeq(s, 1, got) = SubSeq(s, 1, size)
      BY <3>2
    <3> QED BY <3>2, <3>3, <3>4
  <2>2. CASE size = 0
    <3>1. UNCHANGED <<dir, hist>>
      BY <2>2 DEF UnpackExtra
    <3>2. hist.fresh => dir.extra = << >>
      BY <1>0 DEF UnpackedInv, FreshInv, UnpackPc, BeforeMkdir, BeforeDtDts,
        BeforeExtra, BeforeSecond, BeforeRecoveryDtbo, BeforeKernel
    <3>3. SubSeq(s, 1, size) = << >>
      BY <2>2, SubSeqEmpty
    <3> QED BY <3>1, <3>2, <3>3
  <2> QED BY <2>1, <2>2
<1> HIDE DEF s, size
<1>3. FilesInv' /\ ScanInv' /\ EndInv'
  <2>1. UnpackInv
    BY DEF CompleteInv
  <2> QED BY <1>0, <1>2, <2>1, WriteFrame DEF Writing
<1>4. cur'.base = 0
  BY <1>0 DEF CompleteInv, UnpackInv
<1>5. FreshInv'
  BY <1>0, <1>2, <1>4 DEF UnpackedInv, FreshInv, s, size, UnpackPc, BeforeMkdir, BeforeDtDts,
    BeforeExtra, BeforeSecond, BeforeRecoveryDtbo, BeforeKernel, DtsUnpacked
<1> QED BY <1>3, <1>5 DEF UnpackedInv

(* One more .dts file is open.                                             *)
LEMMA OpenedNext ==
  ASSUME NEW n \in Nat
  PROVE  [OpenedDts(n) EXCEPT ![n] = UNFLUSHED] = OpenedDts(n + 1)
<1>1. DtIndex \subseteq Nat
  BY DirAssumption DEF DtIndex
<1>2. \A i \in DtIndex : i < n + 1 <=> (i < n \/ i = n)
  BY <1>1
<1> QED BY <1>2 DEF OpenedDts

(* A step of bxxt_boot_decompile_dt2fs, of mkdir and of the archive reader *)
(* leaves what was scanned, and METADATA is still empty.                   *)
Dumping == {"u_kernel_dts", "u_dt_dts", "u_mkdir", "u_ramdisk", "u_meta"}

LEMMA DumpFrame ==
  ASSUME UnpackedInv, pc \in Dumping, pc' \in Dumping,
         UNCHANGED <<boot, b, out, hist>>,
         dir'.meta_ok = dir.meta_ok, dir'.meta = dir.meta,
         dir.ramdisk_dir => dir'.ramdisk_dir,
         pc' \in {"u_ramdisk", "u_meta"} => dir'.ramdisk_dir,
         pc' = "u_mkdir" => cur' = NoCur,
         pc' = "u_ramdisk" =>
           /\ cur'.base <= Len(RamdiskOf(boot))
           /\ \A i \in 1..cur'.base : IsCpioEntry(RamdiskOf(boot), i)
  PROVE  FilesInv' /\ ScanInv' /\ EndInv'
<1>1. FilesInv'
  BY DEF UnpackedInv, FilesInv, UnpackPc, Dumping, BeforeMkdir, BeforeDtDts,
      BeforeExtra, BeforeSecond, BeforeRecoveryDtbo, BeforeKernel
<1>2. ScanInv'
  BY DEF UnpackedInv, ScanInv, UnpackPc, Dumping
<1>3. EndInv'
  BY DEF UnpackedInv, EndInv, UnpackPc, Dumping
<1> QED BY <1>1, <1>2, <1>3

LEMMA UnpackedKernelDts ==
  ASSUME IInv, UnpackedInv, UnpackKernelDts
  PROVE  UnpackedInv'
<1>0. pc = "u_kernel_dts" /\ UNCHANGED <<boot, out, opts, b, img, hist>>
  BY DEF UnpackKernelDts
<1>1. dir \in Dir /\ cur \in Cur /\ cur.base \in Nat
  BY UnpackedTypes
<1>2. CASE pc' = "u_kernel_dts"
  <2>1. /\ dir' = [dir EXCEPT !.kernel_dts[cur.base] = UNFLUSHED]
        /\ cur' = [cur EXCEPT !.base = @ + 1]
    BY <1>2 DEF UnpackKernelDts, Goto
  <2>2. /\ cur'.base = cur.base + 1
        /\ dir'.kernel_dts = [dir.kernel_dts EXCEPT ![cur.base] = UNFLUSHED]
        /\ dir'.meta_ok = dir.meta_ok /\ dir'.meta = dir.meta /\ dir'.kernel = dir.kernel
        /\ dir'.second = dir.second /\ dir'.recovery_dtbo = dir.recovery_dtbo
        /\ dir'.extra = dir.extra /\ dir'.dt_dts = dir.dt_dts
        /\ dir'.ramdisk_dir = dir.ramdisk_dir /\ dir'.ramdisk = dir.ramdisk
    BY <1>1, <2>1 DEF Dir, Cur
  <2>3. FilesInv' /\ ScanInv' /\ EndInv'
    BY <1>0, <1>2, <2>2, DumpFrame DEF Dumping
  <2>4. hist.fresh => dir'.kernel_dts = OpenedDts(cur'.base)
    <3>1. hist.fresh => dir.kernel_dts = OpenedDts(cur.base)
      BY <1>0 DEF UnpackedInv, FreshInv, UnpackPc
    <3> QED BY <1>1, <2>2, <3>1, OpenedNext
  <2>5. FreshInv'
    BY <1>0, <1>2, <2>2, <2>4 DEF UnpackedInv, FreshInv, UnpackPc, BeforeMkdir, BeforeDtDts,
      BeforeExtra, BeforeSecond, BeforeRecoveryDtbo, BeforeKernel, DtsUnpacked
  <2> QED BY <2>3, <2>5 DEF UnpackedInv
<1>3. CASE pc' # "u_kernel_dts"
  <2>1. cur.base = Len(b.kernel_dtb) /\ cur' = NoCur /\ pc' = "u_dt_dts" /\ UNCHANGED dir
    BY <1>3 DEF UnpackKernelDts, Goto
  <2>2. cur'.base = 0
    BY <2>1 DEF NoCur
  <2>3. FilesInv' /\ ScanInv' /\ EndInv'
    BY <1>0, <2>1, DumpFrame DEF Dumping
  <2>4. FreshInv'
    BY <1>0, <2>1, <2>2 DEF UnpackedInv, FreshInv, UnpackPc, BeforeMkdir, BeforeDtDts,
      BeforeExtra, BeforeSecond, BeforeRecoveryDtbo, BeforeKernel, DtsUnpacked
  <2> QED BY <2>3, <2>4 DEF UnpackedInv
<1> QED BY <1>2, <1>3

LEMMA UnpackedDtDts ==
  ASSUME IInv, UnpackedInv, UnpackDtDts
  PROVE  UnpackedInv'
<1>0. pc = "u_dt_dts" /\ UNCHANGED <<boot, out, opts, b, img, hist>>
  BY DEF UnpackDtDts
<1>1. dir \in Dir /\ cur \in Cur /\ cur.base \in Nat
  BY UnpackedTypes
<1>2. CASE pc' = "u_dt_dts"
  <2>1. /\ dir' = [dir EXCEPT !.dt_dts[cur.base] = UNFLUSHED]
        /\ cur' = [cur EXCEPT !.base = @ + 1]
    BY <1>2 DEF UnpackDtDts, Goto
  <2>2. /\ cur'.base = cur.base + 1
        /\ dir'.dt_dts = [dir.dt_dts EXCEPT ![cur.base] = UNFLUSHED]
        /\ dir'.meta_ok = dir.meta_ok /\ dir'.meta = dir.meta /\ dir'.kernel = dir.kernel
        /\ dir'.second = dir.second /\ dir'.recovery_dtbo = dir.recovery_dtbo
        /\ dir'.extra = dir.extra /\ dir'.kernel_dts = dir.kernel_dts
        /\ dir'.ramdisk_dir = dir.ramdisk_dir /\ dir'.ramdisk = dir.ramdisk
    BY <1>1, <2>1 DEF Dir, Cur
  <2>3. FilesInv' /\ ScanInv' /\ EndInv'
    BY <1>0, <1>2, <2>2, DumpFrame DEF Dumping
  <2>4. hist.fresh => dir'.dt_dts = OpenedDts(cur'.base)
    <3>1. hist.fresh => dir.dt_dts = OpenedDts(cur.base)
      BY <1>0 DEF UnpackedInv, FreshInv, UnpackPc
    <3> QED BY <1>1, <2>2, <3>1, OpenedNext
  <2>5. FreshInv'
    BY <1>0, <1>2, <2>2, <2>4 DEF UnpackedInv, FreshInv, UnpackPc, BeforeMkdir, BeforeDtDts,
      BeforeExtra, BeforeSecond, BeforeRecoveryDtbo, BeforeKernel, DtsUnpacked
  <2> QED BY <2>3, <2>5 DEF UnpackedInv
<1>3. CASE pc' # "u_dt_dts"
  <2>1. cur.base = Len(b.dtb) /\ cur' = NoCur /\ pc' = "u_mkdir" /\ UNCHANGED dir
    BY <1>3 DEF UnpackDtDts, Goto
  <2>2. FilesInv' /\ ScanInv' /\ EndInv'
    BY <1>0, <2>1, DumpFrame DEF Dumping
  <2>3. FreshInv'
    BY <1>0, <2>1 DEF UnpackedInv, FreshInv, UnpackPc, BeforeMkdir, BeforeDtDts,
      BeforeExtra, BeforeSecond, BeforeRecoveryDtbo, BeforeKernel, DtsUnpacked
  <2> QED BY <2>2, <2>3 DEF UnpackedInv
<1> QED BY <1>2, <1>3

LEMMA UnpackedMkdir ==
  ASSUME IInv, UnpackedInv, UnpackMkdir
  PROVE  UnpackedInv'
<1>0. /\ pc = "u_mkdir" /\ pc' = "u_ramdisk" /\ UNCHANGED <<boot, out, opts, b, cur, img, hist>>
      /\ dir' = [dir EXCEPT !.ramdisk_dir = TRUE]
  BY DEF UnpackMkdir, Goto, mem
<1>1. /\ dir'.ramdisk_dir /\ dir'.kernel_dts = dir.kernel_dts
      /\ dir'.meta_ok = dir.meta_ok /\ dir'.meta = dir.meta /\ dir'.kernel = dir.kernel
      /\ dir'.second = dir.second /\ dir'.recovery_dtbo = dir.recovery_dtbo
      /\ dir'.extra = dir.extra /\ dir'.dt_dts = dir.dt_dts /\ dir'.ramdisk = dir.ramdisk
  BY <1>0, UnpackedTypes DEF Dir
<1>2. cur' = NoCur
  BY <1>0 DEF UnpackedInv, ScanInv
<1>3. cur'.base = 0 /\ Len(RamdiskOf(boot)) \in Nat
  BY <1>2, UnpackedTypes, LenProperties DEF NoCur
<1>4. FilesInv' /\ ScanInv' /\ EndInv'
  BY <1>0, <1>1, <1>3, DumpFrame DEF Dumping
<1>5. FilesUpto(RamdiskOf(boot), 0) = {}
  BY DEF FilesUpto
<1>6. FreshInv'
  BY <1>0, <1>1, <1>3, <1>5 DEF UnpackedInv, FreshInv, UnpackPc, BeforeMkdir, BeforeDtDts,
    BeforeExtra, BeforeSecond, BeforeRecoveryDtbo, BeforeKernel, DtsUnpacked
<1> QED BY <1>4, <1>6 DEF UnpackedInv

LEMMA UnpackedRamdisk ==
  ASSUME IInv, UnpackedInv, UnpackRamdisk
  PROVE  UnpackedInv'
<1> DEFINE r == RamdiskOf(boot)
           i == cur.base + 1
<1>0. pc = "u_ramdisk" /\ UNCHANGED <<boot, out, opts, b, img, hist>>
  BY DEF UnpackRamdisk
<1>1. dir \in Dir /\ cur \in Cur /\ cur.base \in Nat /\ r \in Seq(Cell) /\ Len(r) \in Nat
  BY UnpackedTypes, LenProperties
<1>2. /\ cur.base <= Len(r) /\ \A j \in 1..cur.base : IsCpioEntry(r, j)
      /\ dir.ramdisk_dir
      /\ hist.fresh => dir.ramdisk = FilesUpto(r, cur.base)
  BY <1>0 DEF UnpackedInv, ScanInv, FilesInv, FreshInv, UnpackPc, BeforeMkdir, BeforeDtDts,
    BeforeExtra, BeforeSecond, BeforeRecoveryDtbo, BeforeKernel
<1>3. CASE pc' = "u_ramdisk"
  <2>1. /\ IsCpioEntry(r, i) /\ dir' = [dir EXCEPT !.ramdisk = @ \union {r[i].id}]
        /\ cur' = [cur EXCEPT !.base = i]
    BY <1>3 DEF UnpackRamdisk, Goto
  <2> HIDE DEF r
  <2>2. /\ cur'.base = cur.base + 1 /\ dir'.ramdisk = dir.ramdisk \union {r[i].id}
        /\ dir'.kernel_dts = dir.kernel_dts
        /\ dir'.meta_ok = dir.meta_ok /\ dir'.meta = dir.meta /\ dir'.kernel = dir.kernel
        /\ dir'.second = dir.second /\ dir'.recovery_dtbo = dir.recovery_dtbo
        /\ dir'.extra = dir.extra /\ dir'.dt_dts = dir.dt_dts
        /\ dir'.ramdisk_dir = dir.ramdisk_dir
    BY <1>1, <2>1 DEF Dir, Cur
  <2>3. cur'.base <= Len(r) /\ \A j \in 1..cur'.base : IsCpioEntry(r, j)
    <3>1. \A j \in 1..(cur.base + 1) : j \in 1..cur.base \/ j = cur.base + 1
      BY <1>1
    <3>2. cur.base + 1 <= Len(r)
      BY <2>1 DEF IsCpioEntry
    <3> QED BY <1>2, <2>1, <2>2, <3>1, <3>2
  <2>4. FilesInv' /\ ScanInv' /\ EndInv'
    BY <1>0, <1>2, <1>3, <2>2, <2>3, DumpFrame DEF Dumping, r
  <2>5. FilesUpto(r, cur.base) \union {r[cur.base + 1].id} = FilesUpto(r, cur.base + 1)
    <3>1. 1..(cur.base + 1) = 1..cur.base \union {cur.base + 1}
      BY <1>1
    <3> QED BY <3>1, Zenon DEF FilesUpto
  <2>6. hist.fresh => dir'.ramdisk = FilesUpto(r, cur'.base)
    BY <1>2, <2>2, <2>5
  <2>7. FreshInv'
    BY <1>0, <1>3, <2>2, <2>6 DEF UnpackedInv, FreshInv, r, UnpackPc, BeforeMkdir, BeforeDtDts,
      BeforeExtra, BeforeSecond, BeforeRecoveryDtbo, BeforeKernel, DtsUnpacked
  <2> QED BY <2>4, <2>7 DEF UnpackedInv
<1>4. CASE pc' # "u_ramdisk"
  <2>1. ~IsCpioEntry(r, i) /\ cur' = NoCur /\ pc' = "u_meta" /\ UNCHANGED dir
    BY <1>4 DEF UnpackRamdisk, Goto
  <2>2. Abs!FilesOf(r) = FilesUpto(r, cur.base)
    BY <1>1, <1>2, <2>1, AbsFilesOf
  <2>3. FilesInv' /\ ScanInv' /\ EndInv'
    BY <1>0, <1>2, <2>1, DumpFrame DEF Dumping
  <2>4. FreshInv'
    BY <1>0, <1>2, <2>1, <2>2 DEF UnpackedInv, FreshInv, UnpackPc, BeforeMkdir, BeforeDtDts,
      BeforeExtra, BeforeSecond, BeforeRecoveryDtbo, BeforeKernel, DtsUnpacked
  <2> QED BY <2>3, <2>4 DEF UnpackedInv
<1> QED BY <1>3, <1>4

LEMMA UnpackedMeta ==
  ASSUME IInv, UnpackedInv, UnpackMeta
  PROVE  UnpackedInv'
<1>0. /\ pc = "u_meta" /\ pc' = "u_exit" /\ UNCHANGED <<boot, out, opts, b, cur, img>>
      /\ dir' = [dir EXCEPT !.meta_ok = TRUE, !.meta = MetaOf(boot)]
      /\ hist' = [hist EXCEPT !.complete = (b.kernel_dtb = << >> /\ b.dtb = << >>)]
  BY DEF UnpackMeta, Goto, mem
<1>1. dir \in Dir /\ hist \in Hist
  BY UnpackedTypes
<1>2. /\ dir'.meta_ok /\ dir'.meta = MetaOf(boot) /\ dir'.ramdisk_dir = dir.ramdisk_dir
      /\ dir'.kernel = dir.kernel /\ dir'.kernel_dts = dir.kernel_dts
      /\ dir'.second = dir.second /\ dir'.recovery_dtbo = dir.recovery_dtbo
      /\ dir'.extra = dir.extra /\ dir'.dt_dts = dir.dt_dts /\ dir'.ramdisk = dir.ramdisk
  BY <1>0, <1>1 DEF Dir
<1>3. /\ hist'.complete => b.kernel_dtb = << >> /\ b.dtb = << >>
      /\ hist'.fresh = hist.fresh
  BY <1>0, <1>1 DEF Hist
<1>4. dir.ramdisk_dir
  BY <1>0 DEF UnpackedInv, FilesInv, UnpackPc, BeforeMkdir, BeforeDtDts,
    BeforeExtra, BeforeSecond, BeforeRecoveryDtbo, BeforeKernel
<1>5. FilesInv'
  BY <1>0, <1>2, <1>4 DEF FilesInv
<1>6. ScanInv'
  BY <1>0 DEF UnpackedInv, ScanInv, UnpackPc
<1>7. EndInv'
  BY <1>0, <1>2, <1>3 DEF EndInv
<1>8. FreshInv'
  BY <1>0, <1>2, <1>3 DEF UnpackedInv, FreshInv, UnpackPc, BeforeMkdir, BeforeDtDts,
    BeforeExtra, BeforeSecond, BeforeRecoveryDtbo, BeforeKernel, DtsUnpacked
<1> QED BY <1>5, <1>6, <1>7, <1>8 DEF UnpackedInv

(* main returns, and the text of the .dts files reaches the disk: what is  *)
(* left of an image unpacked into an empty directory is its directory.     *)
LEMMA UnpackLeaves ==
  ASSUME IInv, UnpackedInv, pc = "u_exit", hist.fresh, NEW d \in Dir,
         d = [dir EXCEPT !.kernel_dts = Flushed(@, b.kernel_dtb),
                         !.dt_dts = Flushed(@, b.dtb)]
  PROVE  d = Abs!UnpackOf(boot)
<1>1. /\ dir \in Dir /\ b.kernel_dtb \in Seq(Nat) /\ b.dtb \in Seq(Nat) /\ b.pad_size \in Nat
      /\ KernelOf(boot) \in Seq(Cell) /\ DtbOf(boot) \in Seq(Cell) /\ PadOf(boot) \in Seq(Cell)
  BY UnpackedTypes
<1>2. /\ d.meta_ok = dir.meta_ok /\ d.meta = dir.meta /\ d.kernel = dir.kernel
      /\ d.second = dir.second /\ d.recovery_dtbo = dir.recovery_dtbo
      /\ d.extra = dir.extra /\ d.ramdisk_dir = dir.ramdisk_dir /\ d.ramdisk = dir.ramdisk
      /\ d.kernel_dts = Flushed(dir.kernel_dts, b.kernel_dtb)
      /\ d.dt_dts = Flushed(dir.dt_dts, b.dtb)
  BY <1>1 DEF Dir
<1>3. /\ dir.kernel = Abs!KernelFile(KernelOf(boot))
      /\ dir.recovery_dtbo = RecoveryDtboOf(boot) /\ dir.second = SecondOf(boot)
      /\ dir.extra = SubSeq(PadOf(boot), 1, b.pad_size)
      /\ dir.kernel_dts = OpenedDts(Len(b.kernel_dtb)) /\ dir.dt_dts = OpenedDts(Len(b.dtb))
      /\ dir.ramdisk = Abs!FilesOf(RamdiskOf(boot))
  BY DEF UnpackedInv, FreshInv, UnpackPc, BeforeMkdir, BeforeDtDts,
    BeforeExtra, BeforeSecond, BeforeRecoveryDtbo, BeforeKernel, DtsUnpacked
<1>4. /\ dir.meta_ok /\ dir.meta = MetaOf(boot) /\ dir.ramdisk_dir
      /\ IsTrimmedSize(PadOf(boot), b.pad_size)
      /\ Found(KernelOf(boot), b.kernel_dtb, Len(KernelOf(boot)))
      /\ Found(DtbOf(boot), b.dtb, Len(DtbOf(boot)))
  BY DEF UnpackedInv, EndInv, FilesInv, ScanInv, UnpackPc
<1>5. d.extra = Trimmed(boot)
  <2>1. b.pad_size \in 0..Len(PadOf(boot))
    BY <1>1, LenProperties DEF IInv, Fits, UnpackPc
  <2> QED BY <1>1, <1>2, <1>3, <1>4, <2>1, AbsTrim DEF Trimmed
<1>6. d.kernel_dts = Abs!DtsOf(KernelOf(boot)) /\ d.dt_dts = Abs!DtsOf(DtbOf(boot))
  BY <1>1, <1>2, <1>3, <1>4, AbsDtsOf
<1>7. /\ d.meta_ok /\ d.meta = MetaOf(boot) /\ d.kernel = Abs!KernelFile(KernelOf(boot))
      /\ d.second = SecondOf(boot) /\ d.recovery_dtbo = RecoveryDtboOf(boot)
      /\ d.ramdisk_dir /\ d.ramdisk = Abs!FilesOf(RamdiskOf(boot))
  BY <1>2, <1>3, <1>4
<1> QED BY <1>5, <1>6, <1>7, AbsUnpackOf, Zenon

(* Without device trees there is nothing to flush.                         *)
LEMMA NothingToFlush ==
  ASSUME IInv, b.kernel_dtb = << >>, b.dtb = << >>
  PROVE  dir = [dir EXCEPT !.kernel_dts = Flushed(@, b.kernel_dtb),
                           !.dt_dts = Flushed(@, b.dtb)]
<1>1. dir \in Dir /\ dir.kernel_dts \in [DtIndex -> Dts] /\ dir.dt_dts \in [DtIndex -> Dts]
  BY DtsTypes
<1>2. ASSUME NEW files \in [DtIndex -> Dts] PROVE Flushed(files, << >>) = files
  <2>1. DtIndex \subseteq Nat /\ Len(<< >>) = 0
    BY DirAssumption, EmptySeq DEF DtIndex
  <2>2. \A i \in DtIndex : ~(i < Len(<< >>))
    BY <2>1
  <2> QED BY <2>2 DEF Flushed
<1>3. /\ Flushed(dir.kernel_dts, b.kernel_dtb) = dir.kernel_dts
      /\ Flushed(dir.dt_dts, b.dtb) = dir.dt_dts
  BY <1>1, <1>2
<1> QED BY <1>1, <1>3 DEF Dir

LEMMA UnpackedExit ==
  ASSUME IInv, UnpackedInv, UnpackExit
  PROVE  UnpackedInv'
<1>0. /\ pc = "u_exit" /\ Leave("return", SUCCESS)
      /\ dir' = [dir EXCEPT !.kernel_dts = Flushed(@, b.kernel_dtb),
                            !.dt_dts = Flushed(@, b.dtb)]
  BY DEF UnpackExit
<1>1. /\ dir'.meta_ok = dir.meta_ok /\ dir'.meta = dir.meta
      /\ dir'.ramdisk_dir = dir.ramdisk_dir
  BY <1>0, UnpackedTypes DEF Dir
<1>2. FilesInv'
  BY <1>0, <1>1, UnpackedLeave DEF UnpackedInv, FilesInv, UnpackPc
<1> QED BY <1>0, <1>2, UnpackedLeave DEF UnpackedInv

LEMMA UnpackedUnpack == IInv /\ UnpackedInv /\ CompleteInv /\ Unpack => UnpackedInv'
  BY UnpackedOpen, UnpackedScanKernel, UnpackedScanDtb, UnpackedKernel,
    UnpackedRecoveryDtbo, UnpackedSecond, UnpackedExtra, UnpackedKernelDts,
    UnpackedDtDts, UnpackedMkdir, UnpackedRamdisk, UnpackedMeta, UnpackedExit DEF Unpack

-----------------------------------------------------------------------------
(* The other steps and the invariant.                                      *)

(* What a step of pack does to the directory, the output and the labels.   *)
LEMMA PackShape ==
  ASSUME Pack
  PROVE  /\ pc \in PackPc /\ UNCHANGED <<boot, dir, opts>>
         /\ (pc' \in PackPc /\ UNCHANGED exit) \/ \E how, r : Leave(how, r)
         /\ pc' = "p_writing" => out' = [st |-> "torn", img |-> NoImage]
         /\ pc \notin {"p_write", "p_writing"} => UNCHANGED out
<1>0. \A how, r : Leave(how, r) => pc' = "idle"
  BY DEF Leave
<1>1. CASE PackMeta \/ PackKernel \/ PackCompileKernelDts \/ PackCompileDtDts \/ PackRamdisk
  BY <1>0, <1>1 DEF PackMeta, PackKernel, PackCompileKernelDts, PackCompileDtDts, CompileDts,
    PackRamdisk, Goto, disk, PackPc
<1>2. CASE PackAddKernel \/ PackCpioEntry \/ PackAddRamdisk \/ PackSecond \/ PackRecoveryDtbo
  BY <1>2 DEF PackAddKernel, PackCpioEntry, PackAddRamdisk, PackSecond, PackRecoveryDtbo,
    Goto, disk, PackPc
<1>3. CASE PackAddDtb \/ PackExtra \/ PackCheck
  BY <1>3 DEF PackAddDtb, PackExtra, PackCheck, Goto, disk, PackPc
<1>4. CASE PackOpenOutput
  BY <1>4 DEF PackOpenOutput, Leave, Goto, PackPc
<1>5. CASE PackWriteOutput
  BY <1>5 DEF PackWriteOutput, Leave, PackPc
<1> QED BY <1>1, <1>2, <1>3, <1>4, <1>5 DEF Pack

LEMMA UnpackedPack == UnpackedInv /\ Pack => UnpackedInv'
<1> SUFFICES ASSUME UnpackedInv, Pack PROVE UnpackedInv'
  OBVIOUS
<1>1. /\ pc \in PackPc /\ UNCHANGED dir
      /\ pc' \in PackPc \/ \E how, r : Leave(how, r)
      /\ pc' = "p_writing" => out' = [st |-> "torn", img |-> NoImage]
  BY PackShape
<1>2. CASE pc' \in PackPc
  <2>1. pc' \notin UnpackPc /\ pc' # "idle"
    BY <1>2 DEF PackPc, UnpackPc
  <2>2. FilesInv'
    BY <1>1, <2>1 DEF FilesInv, UnpackedInv
  <2> QED BY <2>1, <2>2, UnpackedVoid DEF UnpackedInv
<1>3. CASE \E how, r : Leave(how, r)
  <2>1. ScanInv' /\ EndInv' /\ FreshInv' /\ pc' = "idle"
    BY <1>3, UnpackedLeave
  <2>2. FilesInv'
    BY <1>1, <2>1 DEF FilesInv, UnpackedInv, UnpackPc
  <2> QED BY <2>1, <2>2 DEF UnpackedInv
<1> QED BY <1>1, <1>2, <1>3

(* An unpack begins: what it finds is empty exactly when what METADATA     *)
(* leaves behind is.                                                       *)
LEMMA UnpackedStart ==
  ASSUME IInv, UnpackedInv, NEW force \in BOOLEAN, UnpackStart(force)
  PROVE  UnpackedInv' /\ (hist'.fresh <=> dir = EmptyDir)
<1>0. /\ pc = "idle" /\ pc' = "u_open" /\ UNCHANGED <<boot, out, b, cur>>
      /\ dir' = [dir EXCEPT !.meta_ok = FALSE, !.meta = NoMeta]
      /\ hist' = [hist EXCEPT !.fresh = (dir = EmptyDir), !.complete = FALSE,
                          !.from = NoImage, !.recipe = "none", !.before = out]
  BY DEF UnpackStart, mem
<1>1. dir \in Dir /\ hist \in Hist
  BY UnpackedTypes
<1>2. (hist'.fresh <=> dir = EmptyDir) /\ ~hist'.complete
  BY <1>0, <1>1 DEF Hist
<1>3. /\ ~dir'.meta_ok /\ dir'.meta = NoMeta /\ dir'.ramdisk_dir = dir.ramdisk_dir
  BY <1>0, <1>1 DEF Dir
<1>4. ASSUME dir.meta = NoMeta, dir.meta_ok = FALSE PROVE dir' = dir
  <2>1. dir = [dir EXCEPT !.meta_ok = FALSE, !.meta = NoMeta]
    BY <1>1, <1>4 DEF Dir
  <2> QED BY <1>0, <2>1
<1>5. dir = EmptyDir => dir' = EmptyDir
  BY <1>4 DEF EmptyDir
<1>6. dir' = EmptyDir => dir = EmptyDir
  <2> SUFFICES ASSUME dir' = EmptyDir PROVE dir = EmptyDir
    OBVIOUS
  <2>1. ~dir.meta_ok
    BY <1>3 DEF UnpackedInv, FilesInv, EmptyDir
  <2>2. dir.meta = NoMeta /\ dir.meta_ok = FALSE
    BY <1>1, <2>1 DEF UnpackedInv, FilesInv, Dir
  <2> QED BY <1>4, <2>2
<1>7. FilesInv'
  BY <1>0, <1>3 DEF UnpackedInv, FilesInv, UnpackPc, BeforeMkdir, BeforeDtDts,
    BeforeExtra, BeforeSecond, BeforeRecoveryDtbo, BeforeKernel
<1>8. ScanInv'
  BY <1>0 DEF UnpackedInv, ScanInv
<1>9. EndInv'
  BY <1>0, <1>2, <1>5, <1>6 DEF EndInv
<1>10. FreshInv'
  <2> SUFFICES ASSUME hist'.fresh PROVE FreshInv'
    BY DEF FreshInv
  <2>1. dir' = EmptyDir
    BY <1>2, <1>5
  <2>2. OpenedDts(0) = NoDts
    <3>1. \A i \in DtIndex : ~(i < 0)
      BY DirAssumption DEF DtIndex
    <3> QED BY <3>1 DEF OpenedDts, NoDts
  <2>3. /\ dir'.kernel = << >> /\ dir'.recovery_dtbo = << >> /\ dir'.second = << >>
        /\ dir'.extra = << >> /\ dir'.kernel_dts = OpenedDts(0)
        /\ dir'.dt_dts = OpenedDts(0) /\ dir'.ramdisk = {}
    BY <2>1, <2>2 DEF EmptyDir
  <2> QED BY <1>0, <2>3 DEF FreshInv, UnpackPc, BeforeMkdir, BeforeDtDts,
    BeforeExtra, BeforeSecond, BeforeRecoveryDtbo, BeforeKernel, DtsUnpacked
<1> QED BY <1>2, <1>7, <1>8, <1>9, <1>10 DEF UnpackedInv

(* The user's edits.                                                       *)
LEMMA UserShape ==
  ASSUME IInv, AddFile \/ RemoveFile \/ EditDts \/ EditPageSize \/ ReplaceKernel
                 \/ CleanDir \/ Adopt
  PROVE  /\ UserTurn
         /\ \/ UNCHANGED dir
            \/ dir' = EmptyDir
            \/ dir.meta_ok /\ dir'.meta_ok /\ dir'.ramdisk_dir = dir.ramdisk_dir
         /\ hist'.from = NoImage /\ hist'.fresh = hist.fresh
         /\ hist'.made_from = hist.made_from /\ hist'.made_packed = hist.made_packed
<1>1. dir \in Dir /\ hist \in Hist
  BY UnpackedTypes
<1>2. UserTurn
  BY DEF AddFile, RemoveFile, EditDts, EditPageSize, ReplaceKernel, CleanDir, Adopt, Edit
<1>3. /\ hist'.from = NoImage /\ hist'.fresh = hist.fresh
      /\ hist'.made_from = hist.made_from /\ hist'.made_packed = hist.made_packed
  BY <1>1 DEF AddFile, RemoveFile, EditDts, EditPageSize, ReplaceKernel, CleanDir, Adopt, Hist
<1>4. CASE AddFile \/ RemoveFile \/ EditDts \/ EditPageSize \/ ReplaceKernel
  <2>1. dir.meta_ok
    BY <1>4 DEF AddFile, RemoveFile, EditDts, EditPageSize, ReplaceKernel, Edit
  <2>2. dir'.meta_ok = dir.meta_ok /\ dir'.ramdisk_dir = dir.ramdisk_dir
    BY <1>1, <1>4 DEF AddFile, RemoveFile, EditDts, EditPageSize, ReplaceKernel, Dir
  <2> QED BY <1>2, <1>3, <2>1, <2>2
<1>5. CASE CleanDir \/ Adopt
  BY <1>2, <1>3, <1>5 DEF CleanDir, Adopt
<1> QED BY <1>4, <1>5

LEMMA UnpackedUser == IInv /\ UnpackedInv /\ (User \/ Kill) => UnpackedInv'
<1> SUFFICES ASSUME IInv, UnpackedInv, User \/ Kill PROVE UnpackedInv'
  OBVIOUS
<1>1. CASE Kill
  <2>1. Leave("kill", 0) /\ UNCHANGED <<dir, out>>
    BY <1>1 DEF Kill, disk
  <2>2. ScanInv' /\ EndInv' /\ FreshInv' /\ pc' = "idle"
    BY <2>1, UnpackedLeave
  <2>3. FilesInv'
    BY <2>1, <2>2 DEF FilesInv, UnpackedInv, UnpackPc
  <2> QED BY <2>2, <2>3 DEF UnpackedInv
<1>2. CASE \E o \in BOOLEAN : UnpackStart(o)
  BY <1>2, UnpackedStart
<1>3. CASE \E o \in BOOLEAN : PackStart(o)
  <2>1. pc' = "p_meta" /\ UNCHANGED dir
    BY <1>3 DEF PackStart, disk
  <2>2. FilesInv'
    BY <2>1 DEF FilesInv, UnpackedInv, UnpackPc
  <2> QED BY <2>1, <2>2, UnpackedVoid DEF UnpackedInv, UnpackPc
<1>4. CASE AddFile \/ RemoveFile \/ EditDts \/ EditPageSize \/ ReplaceKernel
             \/ CleanDir \/ Adopt
  <2>1. pc = "idle" /\ pc' = "idle" /\ UNCHANGED <<b, cur>>
    BY <1>4, UserShape DEF UserTurn, mem
  <2>2. ScanInv'
    BY <2>1 DEF ScanInv, UnpackedInv, UnpackPc
  <2>3. \/ UNCHANGED dir
        \/ ~dir'.meta_ok /\ dir'.meta = NoMeta
        \/ dir.meta_ok /\ dir'.meta_ok /\ dir'.ramdisk_dir = dir.ramdisk_dir
    BY <1>4, UserShape DEF EmptyDir
  <2>4. FilesInv'
    BY <2>1, <2>3 DEF FilesInv, UnpackedInv, UnpackPc
  <2> QED BY <2>1, <2>2, <2>4, UnpackedVoid DEF UnpackedInv, UnpackPc
<1> QED BY <1>1, <1>2, <1>3, <1>4 DEF User

(* The inductive invariant of the unpacker.                                *)
LEMMA UnpackedAlways == Spec => []UnpackedInv
<1>1. Init => UnpackedInv
  <2> SUFFICES ASSUME Init PROVE UnpackedInv
    OBVIOUS
  <2>1. pc = "idle" /\ b = NoB /\ cur = NoCur /\ ~dir.meta_ok /\ dir.meta = NoMeta
    BY DEF Init, EmptyDir
  <2> QED BY <2>1 DEF UnpackedInv, FilesInv, ScanInv, EndInv, FreshInv, UnpackPc
<1>2. IInv /\ UnpackedInv /\ CompleteInv /\ [Next]_vars => UnpackedInv'
  <2>1. UnpackedInv /\ UNCHANGED vars => UnpackedInv'
    BY DEF UnpackedInv, FilesInv, ScanInv, EndInv, FreshInv, vars
  <2> QED BY <2>1, UnpackedUnpack, UnpackedPack, UnpackedUser DEF Next
<1>3. Spec => []CompleteInv
  BY CompleteHolds
<1> QED BY <1>1, <1>2, <1>3, InitIInv, NextIInv, PTL DEF Spec

-----------------------------------------------------------------------------
(* The refinement mapping.                                                 *)

LEMMA AbsValues ==
  /\ Abs!EmptyDir = EmptyDir /\ Abs!NoOut = NoOut
  /\ Abs!Partial = [whole |-> FALSE, d |-> EmptyDir]
  /\ \A d : Abs!Whole(d) = [whole |-> TRUE, d |-> d]
  /\ Abs!Empty = [whole |-> TRUE, d |-> EmptyDir]
  /\ Abs!Idle = [op |-> "none", flag |-> FALSE]
  /\ Abs!Torn = [st |-> "torn", img |-> NoImage]
<1>1. Abs!NoDts = NoDts /\ Abs!NoMeta = NoMeta
  BY DEF Abs!NoDts, Abs!NoMeta, Abs!DtIndex, Abs!MISSING, Abs!NONE, NoDts, NoMeta, DtIndex,
    MISSING, NONE
<1>2. Abs!EmptyDir = EmptyDir
  BY <1>1 DEF Abs!EmptyDir, EmptyDir
<1>3. Abs!NoHdr = NoHdr
  BY DEF Abs!NoHdr, NoHdr
<1>4. Abs!NoImage = NoImage
  BY <1>3 DEF Abs!NoImage, NoImage
<1> QED BY <1>2, <1>4 DEF Abs!NoOut, NoOut, Abs!Partial, Abs!Whole, Abs!Empty, Abs!Idle,
  Abs!Torn

(* The mapping at the labels of unpack, of pack and between the commands,  *)
(* before a step and after it.                                             *)
LEMMA MapUnpack ==
  /\ pc \in UnpackPc =>
       TreeOf = Abs!Partial /\ CmdOf = [op |-> "unpack", flag |-> opts.force]
  /\ pc' \in UnpackPc =>
       TreeOf' = Abs!Partial /\ CmdOf' = [op |-> "unpack", flag |-> opts'.force]
<1>1. /\ pc \in UnpackPc => TreeOf = Abs!Partial
      /\ pc' \in UnpackPc => TreeOf' = Abs!Partial
  BY AbsValues DEF TreeOf
<1>2. /\ pc \in UnpackPc => CmdOf = [op |-> "unpack", flag |-> opts.force]
      /\ pc' \in UnpackPc => CmdOf' = [op |-> "unpack", flag |-> opts'.force]
  <2>1. (pc \in UnpackPc => pc \notin PackPc) /\ (pc' \in UnpackPc => pc' \notin PackPc)
    BY DEF PackPc, UnpackPc
  <2> QED BY <2>1 DEF CmdOf
<1> QED BY <1>1, <1>2

LEMMA MapPack ==
  /\ pc \in PackPc => CmdOf = [op |-> "pack", flag |-> opts.skip]
  /\ pc' \in PackPc => CmdOf' = [op |-> "pack", flag |-> opts'.skip]
<1>1. (pc \in PackPc => pc \notin UnpackPc) /\ (pc' \in PackPc => pc' \notin UnpackPc)
  BY DEF PackPc, UnpackPc
<1> QED BY <1>1 DEF CmdOf

LEMMA MapIdle ==
  (pc = "idle" => CmdOf = Abs!Idle) /\ (pc' = "idle" => CmdOf' = Abs!Idle)
<1>1. "idle" \notin PackPc /\ "idle" \notin UnpackPc
  BY DEF PackPc, UnpackPc
<1> QED BY <1>1, AbsValues DEF CmdOf

(* The directory that is seen: whole after an unpack that reached its end, *)
(* and while it is empty.                                                  *)
Seen(d, complete) ==
  IF complete \/ d = EmptyDir THEN Abs!Whole(d) ELSE Abs!Partial

LEMMA MapTree ==
  /\ pc \notin UnpackPc => TreeOf = Seen(dir, hist.complete)
  /\ pc' \notin UnpackPc => TreeOf' = Seen(dir', hist'.complete)
  BY AbsValues DEF TreeOf, Seen

(* A step that nobody sees.                                                *)
LEMMA UnpackStutter ==
  ASSUME pc \in UnpackPc, pc' \in UnpackPc, UNCHANGED <<boot, out, opts, exit>>,
         hist'.fresh = hist.fresh, used'.faults = used.faults
  PROVE  UNCHANGED Abs!specvars
<1>1. TreeOf' = TreeOf /\ CmdOf' = CmdOf
  BY MapUnpack
<1> QED BY <1>1 DEF Abs!specvars

LEMMA PackStutter ==
  ASSUME pc \in PackPc, pc' \in PackPc, UNCHANGED <<boot, dir, out, opts, exit>>,
         hist'.fresh = hist.fresh, hist'.complete = hist.complete,
         used'.faults = used.faults
  PROVE  UNCHANGED Abs!specvars
<1>1. pc \notin UnpackPc /\ pc' \notin UnpackPc
  BY DEF PackPc, UnpackPc
<1>2. TreeOf' = TreeOf /\ CmdOf' = CmdOf
  BY <1>1, MapPack, MapTree
<1> QED BY <1>2 DEF Abs!specvars

(* The mapped end of a command, and of one that fails.                     *)
LEMMA MapLeave ==
  ASSUME IInv, NEW how, NEW r, Leave(how, r)
  PROVE  /\ pc' = "idle" /\ CmdOf' = Abs!Idle
         /\ TreeOf' = Seen(dir', hist'.complete)
         /\ exit'.how = how /\ exit'.r = r
<1>1. exit' = [exit EXCEPT !.how = how, !.r = r] /\ exit \in Exit /\ pc' = "idle"
  BY DEF Leave, IInv, TypeOK
<1>2. exit'.how = how /\ exit'.r = r
  BY <1>1 DEF Exit
<1>3. CmdOf' = Abs!Idle /\ TreeOf' = Seen(dir', hist'.complete)
  BY <1>1, MapIdle, MapTree DEF UnpackPc
<1> QED BY <1>1, <1>2, <1>3

LEMMA MapSucceeds ==
  ASSUME IInv, Leave("return", SUCCESS)
  PROVE  Abs!End(TRUE) /\ TreeOf' = Seen(dir', hist'.complete)
<1>1. /\ CmdOf' = Abs!Idle /\ TreeOf' = Seen(dir', hist'.complete)
      /\ exit'.how = "return" /\ exit'.r = SUCCESS
  BY MapLeave
<1> QED BY <1>1 DEF Abs!End

LEMMA MapFails ==
  ASSUME IInv, NEW how, NEW r, Leave(how, r), how # "return" \/ r # SUCCESS
  PROVE  Abs!End(FALSE) /\ TreeOf' = Seen(dir', hist'.complete)
<1>1. /\ CmdOf' = Abs!Idle /\ TreeOf' = Seen(dir', hist'.complete)
      /\ exit'.how = how /\ exit'.r = r
  BY MapLeave
<1> QED BY <1>1 DEF Abs!End

-----------------------------------------------------------------------------
(* The steps, seen through the mapping.                                    *)

LEMMA InitRefines == Init => Abs!SpecInit
<1> SUFFICES ASSUME Init PROVE Abs!SpecInit
  OBVIOUS
<1>1. /\ boot \in Images /\ dir = EmptyDir /\ out = NoOut /\ pc = "idle"
      /\ exit.how = "none" /\ used.faults = 0 /\ hist.fresh = FALSE
  BY DEF Init, NoExit, NoHist
<1>2. TreeOf = Abs!Empty /\ CmdOf = Abs!Idle
  <2>1. pc \notin UnpackPc
    BY <1>1 DEF UnpackPc
  <2> QED BY <1>1, <2>1, MapTree, MapIdle, AbsValues DEF Seen
<1>3. (exit.how = "return" /\ exit.r = SUCCESS) = FALSE
  BY <1>1
<1> QED BY <1>1, <1>2, <1>3, AbsValues DEF Abs!SpecInit

LEMMA UnpackStartRefines ==
  ASSUME IInv, UnpackedInv, IInv', NEW force \in BOOLEAN, UnpackStart(force)
  PROVE  Abs!UnpackBegins
<1>1. /\ pc = "idle" /\ pc' = "u_open" /\ UNCHANGED <<boot, out>>
      /\ opts' = [force |-> force, skip |-> FALSE] /\ exit'.how = "running"
      /\ used' = [used EXCEPT !.runs = @ + 1]
  BY DEF UnpackStart
<1>2. used'.faults = used.faults
  BY <1>1, UnpackedTypes DEF Used
<1>3. (exit'.how = "return" /\ exit'.r = SUCCESS) = FALSE
  BY <1>1
<1>4. /\ CmdOf = Abs!Idle /\ TreeOf' = Abs!Partial
      /\ CmdOf' = [op |-> "unpack", flag |-> force]
  BY <1>1, MapIdle, MapUnpack DEF UnpackPc
<1>5. Abs!Begin("unpack", force)
  BY <1>1, <1>2, <1>3, <1>4 DEF Abs!Begin
<1>6. hist'.fresh = (TreeOf = Abs!Empty)
  <2>1. hist'.fresh \in BOOLEAN
    BY DEF IInv, TypeOK, Hist
  <2>2. hist'.fresh <=> dir = EmptyDir
    BY UnpackedStart
  <2>3. TreeOf = Seen(dir, hist.complete)
    BY <1>1, MapTree DEF UnpackPc
  <2>4. TreeOf = Abs!Empty <=> dir = EmptyDir
    BY <2>3, AbsValues DEF Seen
  <2> QED BY <2>1, <2>2, <2>4
<1> QED BY <1>4, <1>5, <1>6 DEF Abs!UnpackBegins

LEMMA UnpackOpenRefines ==
  ASSUME IInv, UnpackedInv, UnpackOpen
  PROVE  Abs!UnpackRefused \/ UNCHANGED Abs!specvars
<1>1. pc = "u_open" /\ UNCHANGED <<boot, dir, out, opts, used, hist>>
  BY DEF UnpackOpen, disk
<1>2. CASE bxxt_boot_open_file(boot, opts.force)
  <2>1. CASE Goto("u_scan_kernel")
    BY <1>1, <2>1, UnpackStutter DEF Goto, UnpackPc
  <2> QED BY <1>2, <2>1 DEF UnpackOpen
<1>3. CASE ~bxxt_boot_open_file(boot, opts.force)
  <2>1. Leave("return", FAILED)
    BY <1>3 DEF UnpackOpen
  <2>2. FAILED # SUCCESS
    BY DEF FAILED, SUCCESS
  <2>3. Abs!End(FALSE) /\ TreeOf' = Seen(dir', hist'.complete)
    BY <2>1, <2>2, MapFails
  <2>4. ~Abs!Readable(boot)
    <3>1. opts.force \in BOOLEAN
      BY DEF IInv, TypeOK, Opts
    <3> QED BY <1>3, <3>1, AbsReadable
  <2>5. CmdOf.op = "unpack"
    BY <1>1, MapUnpack DEF UnpackPc
  <2>6. (hist.fresh <=> dir = EmptyDir) /\ ~hist.complete
    BY <1>1 DEF UnpackedInv, EndInv, UnpackPc
  <2>7. TreeOf' = IF hist.fresh THEN Abs!Empty ELSE Abs!Partial
    BY <1>1, <2>3, <2>6, AbsValues DEF Seen
  <2> QED BY <1>1, <2>3, <2>4, <2>5, <2>7 DEF Abs!UnpackRefused
<1> QED BY <1>2, <1>3

(* A file that unpack writes: all of it, or a write fails.                 *)
LEMMA WriteRefines ==
  ASSUME IInv, UnpackedInv, pc \in UnpackPc \ {"u_open"}, pc' \in UnpackPc,
         UNCHANGED <<boot, out, opts, exit>>,
         NEW n, NEW len, DiskWrite(n, len) \/ UNCHANGED <<used, hist>>
  PROVE  Abs!WriteFails \/ UNCHANGED Abs!specvars
<1>1. CASE UNCHANGED <<used, hist>>
  BY <1>1, UnpackStutter
<1>2. CASE /\ used' = [used EXCEPT !.faults = @ + 1]
           /\ hist' = [hist EXCEPT !.fresh = FALSE]
  <2>1. used'.faults = used.faults + 1 /\ hist'.fresh = FALSE
    BY <1>2, UnpackedTypes DEF Used, Hist
  <2>2. Abs!Readable(boot)
    BY AbsReadable DEF UnpackedInv, ScanInv
  <2>3. TreeOf' = TreeOf /\ CmdOf' = CmdOf /\ CmdOf.op = "unpack"
    BY MapUnpack
  <2> QED BY <2>1, <2>2, <2>3 DEF Abs!WriteFails
<1> QED BY <1>1, <1>2 DEF DiskWrite

(* Unpack, up to its end.                                                  *)
LEMMA UnpackGoesOnRefines ==
  ASSUME IInv, UnpackedInv,
         \/ UnpackScanKernel \/ UnpackScanDtb \/ UnpackKernel \/ UnpackRecoveryDtbo
         \/ UnpackSecond \/ UnpackExtra \/ UnpackKernelDts \/ UnpackDtDts
         \/ UnpackMkdir \/ UnpackRamdisk \/ UnpackMeta
  PROVE  Abs!WriteFails \/ UNCHANGED Abs!specvars
<1>1. CASE UnpackKernel
  <2>1. PICK n, got : DiskWrite(got, n)
    BY <1>1 DEF UnpackKernel
  <2> QED BY <1>1, <2>1, WriteRefines DEF UnpackKernel, Goto, UnpackPc
<1>2. CASE UnpackRecoveryDtbo \/ UnpackSecond \/ UnpackExtra
  <2>1. PICK n, got : DiskWrite(got, n) \/ UNCHANGED <<used, hist>>
    BY <1>2 DEF UnpackRecoveryDtbo, UnpackSecond, UnpackExtra
  <2> QED BY <1>2, <2>1, WriteRefines DEF UnpackRecoveryDtbo, UnpackSecond, UnpackExtra,
    Goto, UnpackPc
<1>3. CASE UnpackScanKernel \/ UnpackScanDtb \/ UnpackKernelDts \/ UnpackDtDts
             \/ UnpackMkdir \/ UnpackRamdisk
  BY <1>3, UnpackStutter DEF UnpackScanKernel, UnpackScanDtb, UnpackKernelDts, UnpackDtDts,
    UnpackMkdir, UnpackRamdisk, Goto, disk, UnpackPc
<1>4. CASE UnpackMeta
  <2>1. hist'.fresh = hist.fresh
    BY <1>4, UnpackedTypes DEF UnpackMeta, Hist
  <2> QED BY <1>4, <2>1, UnpackStutter DEF UnpackMeta, Goto, UnpackPc
<1> QED BY <1>1, <1>2, <1>3, <1>4

(* What the directory is when unpack has reached its end.                  *)
LEMMA UnpackedRefines ==
  ASSUME IInv, UnpackedInv, pc = "u_exit", dir' \in Dir, UNCHANGED boot,
         dir' = [dir EXCEPT !.kernel_dts = Flushed(@, b.kernel_dtb),
                            !.dt_dts = Flushed(@, b.dtb)],
         TreeOf' = Abs!Whole(dir')
  PROVE  Abs!Unpacked
<1>1. TreeOf'.whole /\ TreeOf'.d = dir'
  BY AbsValues
<1>2. dir'.meta_ok /\ dir'.meta = MetaOf(boot)
  <2>1. dir'.meta_ok = dir.meta_ok /\ dir'.meta = dir.meta
    BY UnpackedTypes DEF Dir
  <2> QED BY <2>1 DEF UnpackedInv, EndInv
<1>3. hist.fresh => dir' = Abs!UnpackOf(boot)
  BY UnpackLeaves
<1>4. Abs!UnpackOf(boot).meta = MetaOf(boot)
  BY AbsUnpackFields
<1>5. Abs!Readable(boot)
  BY AbsReadable DEF UnpackedInv, ScanInv, UnpackPc
<1> QED BY <1>1, <1>2, <1>3, <1>4, <1>5 DEF Abs!Unpacked

LEMMA UnpackExitRefines ==
  ASSUME IInv, UnpackedInv, IInv', UnpackExit
  PROVE  Abs!UnpackEnds
<1>1. /\ pc = "u_exit" /\ UNCHANGED <<boot, out, opts, used>> /\ Leave("return", SUCCESS)
      /\ dir' = [dir EXCEPT !.kernel_dts = Flushed(@, b.kernel_dtb),
                            !.dt_dts = Flushed(@, b.dtb)]
  BY DEF UnpackExit
<1>2. hist'.complete /\ hist'.fresh = hist.fresh
  BY UnpackedTypes DEF UnpackExit, Hist
<1>3. Abs!End(TRUE) /\ TreeOf' = Seen(dir', hist'.complete)
  BY <1>1, MapSucceeds
<1>4. TreeOf' = Abs!Whole(dir')
  BY <1>2, <1>3 DEF Seen
<1>5. dir' \in Dir
  BY DEF IInv, TypeOK
<1>6. Abs!Unpacked
  BY <1>1, <1>4, <1>5, UnpackedRefines
<1>7. CmdOf.op = "unpack"
  BY <1>1, MapUnpack DEF UnpackPc
<1> QED BY <1>1, <1>2, <1>3, <1>6, <1>7 DEF Abs!UnpackEnds

(* A kill: what unpack has left is nothing, no directory, or all of it.    *)
LEMMA KillRefines ==
  ASSUME IInv, UnpackedInv, IInv', Kill
  PROVE  Abs!UnpackKilled \/ Abs!PackFails
<1>1. /\ pc # "idle" /\ Leave("kill", 0) /\ UNCHANGED <<boot, dir, out, opts, hist>>
      /\ used' = [used EXCEPT !.faults = @ + 1]
  BY DEF Kill, disk
<1>2. used'.faults = used.faults + 1
  BY <1>1, UnpackedTypes DEF Used
<1>3. Abs!End(FALSE) /\ TreeOf' = Seen(dir', hist'.complete)
  BY <1>1, MapFails
<1>4. CASE pc \in UnpackPc
  <2>1. CmdOf.op = "unpack"
    BY <1>4, MapUnpack
  <2>2. CASE hist.complete
    <3>1. pc = "u_exit" /\ b.kernel_dtb = << >> /\ b.dtb = << >>
      BY <1>4, <2>2 DEF UnpackedInv, EndInv
    <3>2. dir' = [dir EXCEPT !.kernel_dts = Flushed(@, b.kernel_dtb),
                             !.dt_dts = Flushed(@, b.dtb)]
      BY <1>1, <3>1, NothingToFlush
    <3>3. TreeOf' = Abs!Whole(dir')
      BY <1>1, <1>3, <2>2 DEF Seen
    <3>4. dir' \in Dir
      BY DEF IInv, TypeOK
    <3>5. Abs!Unpacked
      BY <1>1, <3>1, <3>2, <3>3, <3>4, UnpackedRefines
    <3> QED BY <1>1, <1>2, <1>3, <2>1, <3>5 DEF Abs!UnpackKilled
  <2>3. CASE ~hist.complete
    <3>1. TreeOf' \in {Abs!Partial, Abs!Empty}
      BY <1>1, <1>3, <2>3, AbsValues DEF Seen
    <3> QED BY <1>1, <1>2, <1>3, <2>1, <3>1 DEF Abs!UnpackKilled
  <2> QED BY <2>2, <2>3
<1>5. CASE pc \in PackPc
  <2>1. CmdOf.op = "pack" /\ pc \notin UnpackPc
    BY <1>5, MapPack DEF PackPc, UnpackPc
  <2>2. TreeOf' = TreeOf
    BY <1>1, <1>3, <2>1, MapTree
  <2> QED BY <1>1, <1>2, <1>3, <2>1, <2>2 DEF Abs!PackFails
<1>6. pc \in UnpackPc \union PackPc \union {"idle"}
  BY DEF IInv, TypeOK
<1> QED BY <1>1, <1>4, <1>5, <1>6

(* What pack reads of the directory, and when BootSpec lets it be packed.  *)
LEMMA AbsPackable ==
  ASSUME NEW d
  PROVE  Abs!Packable(d) <=>
           /\ MetaReads(d) /\ d.kernel # << >> /\ d.ramdisk_dir
           /\ \A i \in Abs!DtsRun(d.kernel_dts) : d.kernel_dts[i] # UNFLUSHED
           /\ \A i \in Abs!DtsRun(d.dt_dts) : d.dt_dts[i] # UNFLUSHED
<1>1. Abs!MetaReads(d) <=> MetaReads(d)
  BY DEF Abs!MetaReads, MetaReads
<1>2. Abs!UNFLUSHED = UNFLUSHED
  BY DEF Abs!UNFLUSHED, UNFLUSHED
<1> QED BY <1>1, <1>2 DEF Abs!Packable

(* A file at which the compiler dies is one that BootSpec compiles.        *)
LEMMA DeadDts ==
  ASSUME NEW files \in [DtIndex -> Dts], NEW n \in Nat, Compiled(files, n), BadDts(files, n)
  PROVE  \E i \in Abs!DtsRun(files) : files[i] = UNFLUSHED
<1>1. n \in DtIndex /\ files[n] = UNFLUSHED
  BY DirAssumption DEF BadDts, DtIndex
<1>2. ASSUME NEW j \in 0..n PROVE files[j] # MISSING
  <2>1. CASE j = n
    BY <1>1, <2>1 DEF MISSING, UNFLUSHED
  <2>2. CASE j < n
    <3>1. j \in DtIndex
      BY <1>1, DirAssumption DEF DtIndex
    <3>2. files[j] \in Nat
      BY <2>2, <3>1 DEF Compiled
    <3> QED BY <3>2 DEF MISSING
  <2> QED BY <2>1, <2>2
<1>3. n \in Abs!DtsRun(files)
  BY <1>1, <1>2, AbsDtsRun
<1> QED BY <1>1, <1>3

LEMMA LivingDts ==
  ASSUME NEW files, ~Unflushed(files), NEW i \in Abs!DtsRun(files)
  PROVE  files[i] # UNFLUSHED
  BY AbsDtsRun DEF Unflushed

LEMMA PackStartRefines ==
  ASSUME IInv, NEW skip \in BOOLEAN, PackStart(skip)
  PROVE  Abs!PackBegins
<1>1. /\ pc = "idle" /\ pc' = "p_meta" /\ UNCHANGED <<boot, dir, out>>
      /\ opts' = [force |-> FALSE, skip |-> skip] /\ exit'.how = "running"
      /\ used' = [used EXCEPT !.runs = @ + 1]
      /\ hist' = [hist EXCEPT !.before = out]
  BY DEF PackStart, disk
<1>2. /\ used'.faults = used.faults /\ hist'.fresh = hist.fresh
      /\ hist'.complete = hist.complete
  BY <1>1, UnpackedTypes DEF Used, Hist
<1>3. (exit'.how = "return" /\ exit'.r = SUCCESS) = FALSE
  BY <1>1
<1>4. CmdOf = Abs!Idle /\ CmdOf' = [op |-> "pack", flag |-> skip]
  BY <1>1, MapIdle, MapPack DEF PackPc
<1>5. TreeOf' = TreeOf
  BY <1>1, <1>2, MapTree DEF UnpackPc
<1>6. Abs!Begin("pack", skip)
  BY <1>1, <1>2, <1>3, <1>4 DEF Abs!Begin
<1> QED BY <1>2, <1>5, <1>6 DEF Abs!PackBegins

(* While pack runs the directory that is seen is the one on the disk, when *)
(* it is one.                                                              *)
LEMMA MapPackTree ==
  ASSUME pc \in PackPc
  PROVE  /\ pc \notin UnpackPc /\ CmdOf.op = "pack" /\ CmdOf.flag = opts.skip
         /\ TreeOf = Seen(dir, hist.complete)
         /\ TreeOf.whole => TreeOf.d = dir
         /\ hist.complete => TreeOf.whole
<1>1. pc \notin UnpackPc
  BY DEF PackPc, UnpackPc
<1>2. CmdOf.op = "pack" /\ CmdOf.flag = opts.skip
  BY MapPack
<1>3. TreeOf = Seen(dir, hist.complete)
  BY <1>1, MapTree
<1> QED BY <1>1, <1>2, <1>3, AbsValues DEF Seen

(* Pack is refused: for something that the directory holds or lacks.       *)
LEMMA RefusalRefines ==
  ASSUME IInv, pc \in PackPc, UNCHANGED <<boot, dir, out, opts, used, hist>>,
         NEW how, NEW r, Leave(how, r), how # "return" \/ r # SUCCESS,
         ~Abs!Packable(dir)
  PROVE  Abs!PackRefused
<1>1. Abs!End(FALSE) /\ TreeOf' = Seen(dir', hist'.complete)
  BY MapFails
<1>2. TreeOf' = TreeOf
  BY <1>1, MapPackTree
<1>3. ~(TreeOf.whole /\ Abs!Packable(TreeOf.d))
  BY MapPackTree
<1> QED BY <1>1, <1>2, <1>3, MapPackTree DEF Abs!PackRefused

(* Pack meets an error at the output.                                      *)
LEMMA OutputErrorRefines ==
  ASSUME IInv, pc \in PackPc, UNCHANGED <<boot, dir, out, opts, hist>>,
         used' = [used EXCEPT !.faults = @ + 1],
         NEW r, Leave("return", r), r # SUCCESS
  PROVE  Abs!PackFails
<1>1. Abs!End(FALSE) /\ TreeOf' = Seen(dir', hist'.complete)
  BY MapFails
<1>2. TreeOf' = TreeOf
  BY <1>1, MapPackTree
<1>3. used'.faults = used.faults + 1
  BY UnpackedTypes DEF Used
<1> QED BY <1>1, <1>2, <1>3, MapPackTree DEF Abs!PackFails

(* Pack, up to the output: each step is one that nobody sees or a refusal. *)
LEMMA PackStepsRefine ==
  ASSUME IInv, CompleteInv, MadeInv,
         \/ PackMeta \/ PackKernel \/ PackCompileKernelDts \/ PackAddKernel
         \/ PackRamdisk \/ PackCpioEntry \/ PackAddRamdisk \/ PackSecond
         \/ PackRecoveryDtbo \/ PackCompileDtDts \/ PackAddDtb \/ PackExtra
         \/ PackCheck
  PROVE  Abs!PackRefused \/ UNCHANGED Abs!specvars
<1>0. hist \in Hist /\ FAILED # SUCCESS
  BY UnpackedTypes DEF FAILED, SUCCESS
<1>1. CASE PackMeta
  <2>1. pc = "p_meta" /\ UNCHANGED <<boot, dir, out, opts, used>>
    BY <1>1 DEF PackMeta, disk
  <2>2. CASE ~MetaReads(dir)
    <3>1. Leave("return", FAILED) /\ UNCHANGED hist
      BY <1>1, <2>2 DEF PackMeta
    <3>2. ~Abs!Packable(dir)
      BY <2>2, AbsPackable
    <3> QED BY <1>0, <2>1, <3>1, <3>2, RefusalRefines DEF PackPc
  <2>3. CASE MetaReads(dir)
    <3>1. hist' = [hist EXCEPT !.parts = NoParts] /\ pc' = "p_kernel" /\ UNCHANGED exit
      BY <1>1, <2>3 DEF PackMeta, Goto
    <3>2. hist'.fresh = hist.fresh /\ hist'.complete = hist.complete
      BY <1>0, <3>1 DEF Hist
    <3> QED BY <2>1, <3>1, <3>2, PackStutter DEF PackPc
  <2> QED BY <2>2, <2>3
<1>2. CASE PackKernel
  <2>1. pc = "p_kernel" /\ UNCHANGED <<boot, dir, out, opts, used, hist>>
    BY <1>2 DEF PackKernel, disk
  <2>2. CASE dir.kernel = << >>
    <3>1. Leave("return", FAILED)
      BY <1>2, <2>2 DEF PackKernel
    <3>2. ~Abs!Packable(dir)
      BY <2>2, AbsPackable
    <3> QED BY <1>0, <2>1, <3>1, <3>2, RefusalRefines DEF PackPc
  <2>3. CASE dir.kernel # << >>
    <3>1. pc' = "p_kernel_dts" /\ UNCHANGED exit
      BY <1>2, <2>3 DEF PackKernel, Goto
    <3> QED BY <2>1, <3>1, PackStutter DEF PackPc
  <2> QED BY <2>2, <2>3
<1>3. CASE PackRamdisk
  <2>1. pc = "p_ramdisk" /\ UNCHANGED <<boot, dir, out, opts, used, hist>>
    BY <1>3 DEF PackRamdisk, disk
  <2>2. CASE ~dir.ramdisk_dir
    <3>1. Leave("return", FAILED)
      BY <1>3, <2>2 DEF PackRamdisk
    <3>2. ~Abs!Packable(dir)
      BY <2>2, AbsPackable
    <3> QED BY <1>0, <2>1, <3>1, <3>2, RefusalRefines DEF PackPc
  <2>3. CASE dir.ramdisk_dir
    <3>1. pc' = "p_cpio" /\ UNCHANGED exit
      BY <1>3, <2>3 DEF PackRamdisk, Goto
    <3> QED BY <2>1, <3>1, PackStutter DEF PackPc
  <2> QED BY <2>2, <2>3
<1>4. CASE PackCompileKernelDts \/ PackCompileDtDts
  <2>1. pc \in PackPc /\ UNCHANGED <<boot, dir, out, opts, used, hist>>
    BY <1>4 DEF PackCompileKernelDts, PackCompileDtDts, CompileDts, disk, PackPc
  <2>2. CASE Leave("die", 1)
    <3>1. ~Abs!Packable(dir)
      <4>1. PICK files \in {dir.kernel_dts, dir.dt_dts} :
              BadDts(files, cur.base) /\ Compiled(files, cur.base)
        <5>1. CASE PackCompileKernelDts
          <6>1. BadDts(dir.kernel_dts, cur.base)
            BY <2>2, <5>1 DEF PackCompileKernelDts, CompileDts, Leave
          <6>2. Compiled(dir.kernel_dts, cur.base)
            BY <5>1 DEF PackCompileKernelDts, CompleteInv, PackInv
          <6> QED BY <6>1, <6>2
        <5>2. CASE PackCompileDtDts
          <6>1. BadDts(dir.dt_dts, cur.base)
            BY <2>2, <5>2 DEF PackCompileDtDts, CompileDts, Leave
          <6>2. Compiled(dir.dt_dts, cur.base)
            BY <5>2 DEF PackCompileDtDts, CompleteInv, PackInv
          <6> QED BY <6>1, <6>2
        <5> QED BY <1>4, <5>1, <5>2
      <4>2. files \in [DtIndex -> Dts] /\ cur.base \in Nat
        BY <4>1, DtsTypes
      <4>3. \E i \in Abs!DtsRun(files) : files[i] = UNFLUSHED
        BY <4>1, <4>2, DeadDts
      <4> QED BY <4>1, <4>3, AbsPackable
    <3> QED BY <2>1, <2>2, <3>1, RefusalRefines
  <2>3. CASE UNCHANGED <<pc, exit>>
    BY <2>1, <2>3, PackStutter
  <2> QED BY <1>4, <2>2, <2>3 DEF PackCompileKernelDts, PackCompileDtDts, CompileDts
<1>5. CASE \/ PackAddKernel \/ PackCpioEntry \/ PackAddRamdisk \/ PackSecond
           \/ PackRecoveryDtbo \/ PackAddDtb \/ PackExtra \/ PackCheck
  <2>1. /\ UNCHANGED <<boot, dir, out, opts, used, exit>>
        /\ pc \in PackPc /\ pc' \in PackPc
    BY <1>5 DEF PackAddKernel, PackCpioEntry, PackAddRamdisk, PackSecond,
      PackRecoveryDtbo, PackAddDtb, PackExtra, PackCheck, disk, Goto, PackPc
  <2>2. hist'.fresh = hist.fresh /\ hist'.complete = hist.complete
    BY <1>0, <1>5 DEF PackAddKernel, PackCpioEntry, PackAddRamdisk, PackSecond,
      PackRecoveryDtbo, PackAddDtb, PackExtra, PackCheck, Hist
  <2> QED BY <2>1, <2>2, PackStutter
<1> QED BY <1>1, <1>2, <1>3, <1>4, <1>5

(* What is about to be written: the directory is whole, and packable.      *)
LEMMA OutputReady ==
  ASSUME IInv, CompleteInv, MadeInv, pc \in {"p_write", "p_writing"}
  PROVE  TreeOf.whole /\ TreeOf.d = dir /\ Abs!Packable(dir)
<1>1. /\ MetaReads(dir) /\ dir.kernel # << >> /\ dir.ramdisk_dir
  BY DEF MadeInv, SectionsInv, Finished, KernelCompiled, RamdiskArchived
<1>2. ~Unflushed(dir.kernel_dts) /\ ~Unflushed(dir.dt_dts)
  BY DEF CompleteInv, PackInv, Finished, KernelCompiled
<1>3. /\ \A i \in Abs!DtsRun(dir.kernel_dts) : dir.kernel_dts[i] # UNFLUSHED
      /\ \A i \in Abs!DtsRun(dir.dt_dts) : dir.dt_dts[i] # UNFLUSHED
  BY <1>2, LivingDts
<1>4. hist.complete
  BY <1>1, <1>2 DEF CompleteInv, MetaReads
<1>5. TreeOf.whole /\ TreeOf.d = dir
  BY <1>4, MapPackTree DEF PackPc
<1> QED BY <1>1, <1>3, <1>5, AbsPackable

LEMMA PackOpenOutputRefines ==
  ASSUME IInv, CompleteInv, MadeInv, PackOpenOutput
  PROVE  Abs!PackTruncates \/ Abs!PackFails
<1>1. pc = "p_write" /\ pc \in PackPc /\ UNCHANGED <<boot, dir, opts, hist>>
  BY DEF PackOpenOutput, PackPc
<1>2. CASE /\ out' = [st |-> "torn", img |-> NoImage] /\ Goto("p_writing")
           /\ UNCHANGED used
  <2>1. pc' = "p_writing" /\ UNCHANGED exit
    BY <1>2 DEF Goto
  <2>2. TreeOf' = TreeOf /\ CmdOf' = CmdOf
    BY <1>1, <2>1, MapTree, MapPack DEF PackPc, UnpackPc
  <2>3. out' = Abs!Torn
    BY <1>2, AbsValues
  <2> QED BY <1>1, <1>2, <2>1, <2>2, <2>3, OutputReady, MapPackTree DEF Abs!PackTruncates
<1>3. CASE /\ used' = [used EXCEPT !.faults = @ + 1]
           /\ Leave("return", FAILED) /\ UNCHANGED out
  BY <1>1, <1>3, OutputErrorRefines DEF FAILED, SUCCESS
<1> QED BY <1>2, <1>3 DEF PackOpenOutput

LEMMA PackWriteOutputRefines ==
  ASSUME IInv, CompleteInv, MadeInv, UnpackedInv, PackWriteOutput
  PROVE  Abs!PackEnds \/ Abs!PackFails
<1>1. pc = "p_writing" /\ pc \in PackPc /\ UNCHANGED <<boot, dir, opts>>
  BY DEF PackWriteOutput, PackPc
<1>2. CASE /\ out' = [st |-> "whole", img |-> img]
           /\ hist' = [hist EXCEPT !.made_from = hist.from,
                                   !.made_complete = hist.complete,
                                   !.made_packed = hist.packed]
           /\ Leave("return", SUCCESS) /\ UNCHANGED used
  <2>1. hist'.fresh = hist.fresh /\ hist'.complete = hist.complete
    BY <1>2, UnpackedTypes DEF Hist
  <2>2. Abs!End(TRUE) /\ TreeOf' = Seen(dir', hist'.complete)
    BY <1>2, MapSucceeds
  <2>3. /\ TreeOf' = TreeOf /\ CmdOf.op = "pack" /\ CmdOf.flag = opts.skip
    BY <1>1, <2>1, <2>2, MapPackTree
  <2>4. out = Abs!Torn
    BY <1>1, AbsValues DEF UnpackedInv, FilesInv
  <2>5. out' = [st |-> "whole", img |-> Abs!PackOf(TreeOf.d, CmdOf.flag)]
    <3>1. img = Abs!PackOf(dir, opts.skip)
      BY <1>1, FinishedImage
    <3>2. TreeOf.d = dir
      BY <1>1, OutputReady
    <3> QED BY <1>2, <2>3, <3>1, <3>2
  <2>6. TreeOf.whole /\ Abs!Packable(TreeOf.d)
    BY <1>1, OutputReady
  <2> QED BY <1>1, <1>2, <2>1, <2>2, <2>3, <2>4, <2>5, <2>6 DEF Abs!PackEnds
<1>3. CASE /\ used' = [used EXCEPT !.faults = @ + 1]
           /\ \E n \in 0..(Len(img.data) - 1) : Leave("return", IF n = 0 THEN -1 ELSE n)
           /\ UNCHANGED <<out, hist>>
  <2>1. PICK n \in 0..(Len(img.data) - 1) : Leave("return", IF n = 0 THEN -1 ELSE n)
    BY <1>3
  <2>2. (IF n = 0 THEN -1 ELSE n) # SUCCESS
    BY DEF SUCCESS
  <2> QED BY <1>1, <1>3, <2>1, <2>2, OutputErrorRefines
<1> QED BY <1>2, <1>3 DEF PackWriteOutput

(* The user's edits: any directory may result.                             *)
LEMMA AbsDir == Abs!Dir = Dir
<1>1. Abs!Cell = Cell /\ Abs!Compressions = Compressions /\ Abs!Dts = Dts
      /\ Abs!DtIndex = DtIndex
  BY DEF Abs!Cell, Abs!Kinds, Cell, Kinds, Abs!Compressions, Abs!NONE, Abs!GZIP, Abs!LZMA,
    Compressions, NONE, GZIP, LZMA, Abs!Dts, Abs!MISSING, Abs!UNFLUSHED, Dts, MISSING,
    UNFLUSHED, Abs!DtIndex, DtIndex
<1>2. Abs!Meta = Meta
  BY <1>1 DEF Abs!Meta, Meta
<1> QED BY <1>1, <1>2 DEF Abs!Dir, Dir

LEMMA UserRefines ==
  ASSUME IInv, IInv', AddFile \/ RemoveFile \/ EditDts \/ EditPageSize \/ ReplaceKernel
                        \/ CleanDir \/ Adopt
  PROVE  Abs!UserActs
<1>1. /\ pc = "idle" /\ pc' = "idle" /\ UNCHANGED <<out, opts>> /\ exit' = NoExit
      /\ used' = [used EXCEPT !.edits = @ + 1] /\ hist'.fresh = hist.fresh
  BY UserShape DEF UserTurn
<1>2. boot' = boot \/ (out.st = "whole" /\ boot' = out.img)
  BY DEF AddFile, RemoveFile, EditDts, EditPageSize, ReplaceKernel, CleanDir, Adopt, Edit
<1>3. CmdOf = Abs!Idle /\ CmdOf' = Abs!Idle
  BY <1>1, MapIdle
<1>4. TreeOf' \in Abs!Tree
  <2>1. dir' \in Abs!Dir
    BY AbsDir DEF IInv, TypeOK
  <2>2. EmptyDir \in Abs!Dir
    BY AbsDir, NoValues
  <2>3. TreeOf' \in {[whole |-> TRUE, d |-> dir'], [whole |-> FALSE, d |-> EmptyDir]}
    BY DEF TreeOf
  <2>4. ASSUME NEW d \in Abs!Dir, NEW whole \in BOOLEAN
        PROVE  [whole |-> whole, d |-> d] \in Abs!Tree
    BY DEF Abs!Tree
  <2>5. /\ [whole |-> TRUE, d |-> dir'] \in Abs!Tree
        /\ [whole |-> FALSE, d |-> EmptyDir] \in Abs!Tree
    BY <2>1, <2>2, <2>4
  <2> QED BY <2>3, <2>5
<1>5. used'.faults = used.faults
  BY <1>1, UnpackedTypes DEF Used
<1>6. (exit'.how = "return" /\ exit'.r = SUCCESS) = FALSE
  BY <1>1 DEF NoExit
<1> QED BY <1>1, <1>2, <1>3, <1>4, <1>5, <1>6 DEF Abs!UserActs

(* Every step of boot.c is a step of BootSpec, or none.                    *)
LEMMA StepRefines ==
  ASSUME IInv, IInv', CompleteInv, MadeInv, UnpackedInv, [Next]_vars
  PROVE  [Abs!SpecNext]_Abs!specvars
<1>1. CASE UnpackOpen
  BY <1>1, UnpackOpenRefines DEF Abs!SpecNext
<1>2. CASE \/ UnpackScanKernel \/ UnpackScanDtb \/ UnpackKernel \/ UnpackRecoveryDtbo
           \/ UnpackSecond \/ UnpackExtra \/ UnpackKernelDts \/ UnpackDtDts
           \/ UnpackMkdir \/ UnpackRamdisk \/ UnpackMeta
  BY <1>2, UnpackGoesOnRefines DEF Abs!SpecNext
<1>3. CASE UnpackExit
  BY <1>3, UnpackExitRefines DEF Abs!SpecNext
<1>4. CASE Pack
  <2>1. CASE PackOpenOutput
    BY <2>1, PackOpenOutputRefines DEF Abs!SpecNext
  <2>2. CASE PackWriteOutput
    BY <2>2, PackWriteOutputRefines DEF Abs!SpecNext
  <2> QED BY <1>4, <2>1, <2>2, PackStepsRefine DEF Pack, Abs!SpecNext
<1>5. CASE User
  <2>1. CASE \E o \in BOOLEAN : UnpackStart(o)
    BY <2>1, UnpackStartRefines DEF Abs!SpecNext
  <2>2. CASE \E o \in BOOLEAN : PackStart(o)
    BY <2>2, PackStartRefines DEF Abs!SpecNext
  <2> QED BY <1>5, <2>1, <2>2, UserRefines DEF User, Abs!SpecNext
<1>6. CASE Kill
  BY <1>6, KillRefines DEF Abs!SpecNext
<1>7. CASE UNCHANGED vars
  BY <1>7 DEF vars, Abs!specvars, TreeOf, CmdOf
<1> QED BY <1>1, <1>2, <1>3, <1>4, <1>5, <1>6, <1>7 DEF Next, Unpack

(* bxxt_boot_unpack_all and bxxt_boot_pack_all, step by step and with      *)
(* their process killed at any point and any write failing, implement      *)
(* BootSpec, for every image, page size, number of device trees and bound: *)
(* an unpack into an empty directory that met no error leaves exactly      *)
(* UnpackOf(boot), a pack makes exactly PackOf(dir) or is refused for what *)
(* the directory holds, a directory that was only partly unpacked is never *)
(* packed, and the old output is given up only when nothing in the         *)
(* directory can stop the command any more.                                *)
THEOREM BootRefinesSpec == Spec => ImplementsSpec
<1>1. Init => Abs!SpecInit
  BY InitRefines
<1>2. IInv /\ IInv' /\ CompleteInv /\ MadeInv /\ UnpackedInv /\ [Next]_vars
        => [Abs!SpecNext]_Abs!specvars
  BY StepRefines
<1>3. Spec => []CompleteInv
  BY CompleteHolds
<1>4. Spec => [](IInv /\ MadeInv)
  BY MadeAlways
<1>5. Spec => []UnpackedInv
  BY UnpackedAlways
<1> QED BY <1>1, <1>2, <1>3, <1>4, <1>5, PTL DEF Spec, ImplementsSpec, Abs!BootSpec

-----------------------------------------------------------------------------
(* The archive of a set of files holds each of them.                       *)

(* Every place of the archive is the rank of a file.                       *)
LEMMA RankExists ==
  ASSUME NEW files \in SUBSET Nat, IsFiniteSet(files), NEW i \in 1..Cardinality(files)
  PROVE  \E e \in files : Cardinality(Below(files, e)) = i - 1
<1> DEFINE n == Cardinality(files)
           rank == [e \in files |-> Cardinality(Below(files, e))]
<1>1. n \in Nat
  BY FS_CardinalityType
<1>2. ASSUME NEW e \in files PROVE Cardinality(Below(files, e)) \in 0..(n - 1)
  <2>1. \A x \in files : x \in Nat
    OBVIOUS
  <2>2. Below(files, e) \subseteq files \ {e}
    BY <2>1 DEF Below
  <2>3. IsFiniteSet(files \ {e}) /\ Cardinality(files \ {e}) = n - 1
    BY FS_RemoveElement
  <2>4. /\ IsFiniteSet(Below(files, e))
        /\ Cardinality(Below(files, e)) <= Cardinality(files \ {e})
    BY <2>2, <2>3, FS_Subset
  <2>5. Cardinality(Below(files, e)) \in Nat
    BY <2>4, FS_CardinalityType
  <2> HIDE DEF n
  <2> QED BY <1>1, <2>3, <2>4, <2>5
<1>3. rank \in Injection(files, 0..(n - 1))
  <2>1. rank \in [files -> 0..(n - 1)]
    BY <1>2
  <2>2. ASSUME NEW e \in files, NEW f \in files, rank[e] = rank[f] PROVE e = f
    BY <2>2, RankUnique
  <2> HIDE DEF rank
  <2> QED BY <2>1, <2>2 DEF Injection, IsInjective
<1>4. IsFiniteSet(0..(n - 1)) /\ Cardinality(0..(n - 1)) = n
  <2>1. 0 \in Int /\ n - 1 \in Int
    BY <1>1
  <2>2. IsFiniteSet(0..(n - 1)) /\ Cardinality(0..(n - 1)) = IF 0 > n - 1 THEN 0 ELSE n - 1 - 0 + 1
    BY <2>1, FS_Interval
  <2> HIDE DEF n
  <2> QED BY <1>1, <2>2
<1>5. rank \in Surjection(files, 0..(n - 1))
  <2> HIDE DEF rank
  <2> QED BY <1>3, <1>4, FS_Injection
<1>6. i - 1 \in 0..(n - 1)
  BY <1>1
<1>7. \E e \in files : rank[e] = i - 1
  <2> HIDE DEF rank, n
  <2> QED BY <1>5, <1>6 DEF Surjection
<1> QED BY <1>7

LEMMA ArchiveEntries ==
  ASSUME NEW files \in SUBSET Nat, IsFiniteSet(files)
  PROVE  /\ Abs!ArchiveOf(files) \in Seq(Cell)
         /\ Entries(Abs!ArchiveOf(files)) = files
<1> DEFINE n == Cardinality(files)
           At(i) == CHOOSE e \in files : Cardinality(Below(files, e)) = i - 1
           a == [i \in 1..n |-> Entry(At(i))]
<1>1. n \in Nat
  BY FS_CardinalityType
<1>2. Abs!ArchiveOf(files) = a
  BY AbsArchiveOf
<1>3. ASSUME NEW i \in 1..n
      PROVE  At(i) \in files /\ At(i) \in Nat /\ Cardinality(Below(files, At(i))) = i - 1
  <2>1. \E e \in files : Cardinality(Below(files, e)) = i - 1
    BY RankExists
  <2> QED BY <2>1
<1>4. ASSUME NEW e \in files PROVE \E i \in 1..n : At(i) = e
  <2> DEFINE i == Cardinality(Below(files, e)) + 1
  <2>1. Below(files, e) \subseteq files \ {e}
    <3>1. \A x \in files : x \in Nat
      OBVIOUS
    <3> QED BY <3>1 DEF Below
  <2>2. IsFiniteSet(files \ {e}) /\ Cardinality(files \ {e}) = n - 1
    BY FS_RemoveElement
  <2>3. /\ IsFiniteSet(Below(files, e))
        /\ Cardinality(Below(files, e)) <= Cardinality(files \ {e})
    BY <2>1, <2>2, FS_Subset
  <2>4. Cardinality(Below(files, e)) \in Nat
    BY <2>3, FS_CardinalityType
  <2>5. i \in 1..n /\ Cardinality(Below(files, e)) = i - 1
    <3> HIDE DEF n
    <3> QED BY <1>1, <2>2, <2>3, <2>4
  <2> HIDE DEF i
  <2>6. At(i) \in files /\ Cardinality(Below(files, At(i))) = Cardinality(Below(files, e))
    BY <1>3, <2>5
  <2> HIDE DEF At
  <2>7. At(i) = e
    BY <2>6, RankUnique
  <2> QED BY <2>5, <2>7
<1> HIDE DEF At, n
<1>5. \A i \in 1..n : a[i] \in Cell /\ a[i].id = At(i)
  BY <1>3, EntryType DEF Entry, MkCell
<1>6. a \in Seq(Cell) /\ Len(a) = n
  BY <1>1, <1>5, IsASeq, LenProperties
<1>7. Entries(a) = files
  <2> HIDE DEF a
  <2>1. Entries(a) = {a[i].id : i \in 1..n}
    BY <1>6 DEF Entries
  <2>2. \A i \in 1..n : a[i].id = At(i)
    BY <1>5
  <2>3. ASSUME NEW e \in Entries(a) PROVE e \in files
    BY <1>3, <2>1, <2>2
  <2>4. ASSUME NEW e \in files PROVE e \in Entries(a)
    BY <1>4, <2>1, <2>2
  <2> QED BY <2>3, <2>4
<1> QED BY <1>2, <1>6, <1>7

(* The entries of a section are finitely many natural numbers.             *)
LEMMA EntriesFinite ==
  ASSUME NEW r \in Seq(Cell)
  PROVE  Entries(r) \in SUBSET Nat /\ IsFiniteSet(Entries(r))
<1> DEFINE ids == [i \in 1..Len(r) |-> r[i].id]
<1>1. Len(r) \in Nat /\ \A i \in 1..Len(r) : r[i] \in Cell
  BY LenProperties, ElementOfSeq
<1>2. \A i \in 1..Len(r) : r[i].id \in Nat
  BY <1>1 DEF Cell
<1>3. ids \in Surjection(1..Len(r), Entries(r))
  BY DEF Surjection, Entries
<1>4. IsFiniteSet(1..Len(r))
  BY <1>1, FS_Interval
<1>5. IsFiniteSet(Entries(r))
  <2> HIDE DEF ids
  <2> QED BY <1>3, <1>4, FS_Surjection
<1> QED BY <1>2, <1>5 DEF Entries

-----------------------------------------------------------------------------
(* The image that pack made, read back.                                    *)

LEMMA PageLen ==
  ASSUME NEW p \in Nat \ {0}, NEW s \in Seq(Cell)
  PROVE  Page(s, p) \in Seq(Cell) /\ Len(Page(s, p)) = B_ps(p, Len(s))
<1>1. Page(s, p) = bxxt_buffer_align(s, p)
  BY DEF Page, bxxt_buffer_align
<1> QED BY <1>1, AlignedBuffer

(* The header takes the first page.                                        *)
LEMMA HdrPageLen ==
  ASSUME NEW p \in Nat \ {0}, HdrSize <= p
  PROVE  Upto0(p) \in Seq(Cell) /\ Len(Upto0(p)) = p
<1> DEFINE c == Cells(HdrSize, MkCell("hdr", 0))
<1>1. HdrSize \in Nat \ {0}
  BY LayoutAssumption
<1>2. MkCell("hdr", 0) \in Cell
  BY DEF MkCell, Cell, Kinds
<1>3. c \in Seq(Cell) /\ Len(c) = HdrSize
  BY <1>1, <1>2, CellsType
<1>4. Upto0(p) \in Seq(Cell) /\ Len(Upto0(p)) = B_ps(p, HdrSize)
  <2> HIDE DEF c
  <2>1. Page(c, p) \in Seq(Cell) /\ Len(Page(c, p)) = B_ps(p, HdrSize)
    BY <1>3, PageLen
  <2> QED BY <2>1 DEF Upto0, c
<1>5. (HdrSize + p - 1) \div p = 1
  <2>1. HdrSize + p - 1 = p * 1 + (HdrSize - 1) /\ HdrSize - 1 \in 0..(p - 1)
    BY <1>1
  <2>2. (p * 1 + (HdrSize - 1)) \div p = 1
    BY <2>1, DivUnique
  <2> QED BY <2>1, <2>2
<1> QED BY <1>4, <1>5 DEF B_ps

(* A section on pages of its own, appended.                                *)
LEMMA PageAdded ==
  ASSUME NEW p \in Nat \ {0}, NEW s \in Seq(Cell), NEW x \in Seq(Cell)
  PROVE  /\ s \o Page(x, p) \in Seq(Cell)
         /\ Len(s \o Page(x, p)) = Len(s) + B_ps(p, Len(x))
<1>1. Page(x, p) \in Seq(Cell) /\ Len(Page(x, p)) = B_ps(p, Len(x))
  BY PageLen
<1> QED BY <1>1, ConcatProperties

(* The trailing data begins where bxxt_boot_init1 looks for it.            *)
LEMMA DataLen ==
  ASSUME NEW p \in Nat \ {0}, HdrSize <= p, NEW parts \in Parts, NEW h,
         h.page_size = p, h.kernel_size = Len(parts.kernel),
         h.ramdisk_size = Len(parts.ramdisk), h.second_size = Len(parts.second),
         h.recovery_dtbo_size = Len(parts.recovery_dtbo), h.dtb_size = Len(parts.dtb)
  PROVE  DataOf(p, parts) \in Seq(Cell) /\ Len(DataOf(p, parts)) = B_PAD_o(h)
<1>1. /\ parts.kernel \in Seq(Cell) /\ parts.ramdisk \in Seq(Cell)
      /\ parts.second \in Seq(Cell) /\ parts.recovery_dtbo \in Seq(Cell)
      /\ parts.dtb \in Seq(Cell)
  BY DEF Parts
<1>2. Upto0(p) \in Seq(Cell) /\ Len(Upto0(p)) = B_KE_o(h)
  BY HdrPageLen DEF B_KE_o
<1>3. Upto1(p, parts) \in Seq(Cell) /\ Len(Upto1(p, parts)) = B_RA_o(h)
  <2>1. Upto1(p, parts) = Upto0(p) \o Page(parts.kernel, p)
    BY DEF Upto1
  <2>2. B_RA_o(h) = B_KE_o(h) + B_ps(p, Len(parts.kernel))
    BY DEF B_RA_o
  <2>3. /\ Upto0(p) \o Page(parts.kernel, p) \in Seq(Cell)
        /\ Len(Upto0(p) \o Page(parts.kernel, p))
             = Len(Upto0(p)) + B_ps(p, Len(parts.kernel))
    BY <1>1, <1>2, PageAdded, Zenon
  <2> QED BY <1>2, <2>1, <2>2, <2>3, Zenon
<1>4. Upto2(p, parts) \in Seq(Cell) /\ Len(Upto2(p, parts)) = B_SE_o(h)
  <2>1. Upto2(p, parts) = Upto1(p, parts) \o Page(parts.ramdisk, p)
    BY DEF Upto2
  <2>2. B_SE_o(h) = B_RA_o(h) + B_ps(p, Len(parts.ramdisk))
    BY DEF B_SE_o
  <2>3. /\ Upto1(p, parts) \o Page(parts.ramdisk, p) \in Seq(Cell)
        /\ Len(Upto1(p, parts) \o Page(parts.ramdisk, p))
             = Len(Upto1(p, parts)) + B_ps(p, Len(parts.ramdisk))
    BY <1>1, <1>3, PageAdded, Zenon
  <2> QED BY <1>3, <2>1, <2>2, <2>3, Zenon
<1>5. Upto3(p, parts) \in Seq(Cell) /\ Len(Upto3(p, parts)) = B_RE_o(h)
  <2>1. Upto3(p, parts) = Upto2(p, parts) \o Page(parts.second, p)
    BY DEF Upto3
  <2>2. B_RE_o(h) = B_SE_o(h) + B_ps(p, Len(parts.second))
    BY DEF B_RE_o
  <2>3. /\ Upto2(p, parts) \o Page(parts.second, p) \in Seq(Cell)
        /\ Len(Upto2(p, parts) \o Page(parts.second, p))
             = Len(Upto2(p, parts)) + B_ps(p, Len(parts.second))
    BY <1>1, <1>4, PageAdded, Zenon
  <2> QED BY <1>4, <2>1, <2>2, <2>3, Zenon
<1>6. Upto4(p, parts) \in Seq(Cell) /\ Len(Upto4(p, parts)) = B_DT_o(h)
  <2>1. Upto4(p, parts) = Upto3(p, parts) \o Page(parts.recovery_dtbo, p)
    BY DEF Upto4
  <2>2. B_DT_o(h) = B_RE_o(h) + B_ps(p, Len(parts.recovery_dtbo))
    BY DEF B_DT_o
  <2>3. /\ Upto3(p, parts) \o Page(parts.recovery_dtbo, p) \in Seq(Cell)
        /\ Len(Upto3(p, parts) \o Page(parts.recovery_dtbo, p))
             = Len(Upto3(p, parts)) + B_ps(p, Len(parts.recovery_dtbo))
    BY <1>1, <1>5, PageAdded, Zenon
  <2> QED BY <1>5, <2>1, <2>2, <2>3, Zenon
<1>7. DataOf(p, parts) \in Seq(Cell) /\ Len(DataOf(p, parts)) = B_PAD_o(h)
  <2>1. DataOf(p, parts) = Upto4(p, parts) \o Page(parts.dtb, p)
    BY DEF DataOf
  <2>2. B_PAD_o(h) = B_DT_o(h) + B_ps(p, Len(parts.dtb))
    BY DEF B_PAD_o
  <2>3. /\ Upto4(p, parts) \o Page(parts.dtb, p) \in Seq(Cell)
        /\ Len(Upto4(p, parts) \o Page(parts.dtb, p))
             = Len(Upto4(p, parts)) + B_ps(p, Len(parts.dtb))
    BY <1>1, <1>6, PageAdded, Zenon
  <2> QED BY <1>6, <2>1, <2>2, <2>3, Zenon
<1> QED BY <1>7

(* What follows a sequence that is appended to another.                    *)
LEMMA AfterConcat ==
  ASSUME NEW s \in Seq(Cell), NEW x \in Seq(Cell)
  PROVE  SubSeq(s \o x, Len(s) + 1, Len(s \o x)) = x
<1>1. Len(s) \in Nat /\ Len(x) \in Nat
  BY LenProperties
<1>2. /\ Len(s \o x) = Len(s) + Len(x)
      /\ \A i \in 1..(Len(s) + Len(x)) :
           (s \o x)[i] = IF i <= Len(s) THEN s[i] ELSE x[i - Len(s)]
  BY ConcatProperties
<1> DEFINE t == SubSeq(s \o x, Len(s) + 1, Len(s) + Len(x))
<1>3. \A i \in (Len(s) + 1)..(Len(s) + Len(x)) : (s \o x)[i] \in Cell
  BY <1>1, ConcatProperties, ElementOfSeq
<1>4. /\ t \in Seq(Cell)
      /\ Len(t) = IF Len(s) + 1 <= Len(s) + Len(x)
                  THEN Len(s) + Len(x) - (Len(s) + 1) + 1 ELSE 0
      /\ \A i \in 1..(Len(s) + Len(x) - (Len(s) + 1) + 1) :
           t[i] = (s \o x)[Len(s) + 1 + i - 1]
  <2>1. Len(s) + 1 \in Int /\ Len(s) + Len(x) \in Int
    BY <1>1
  <2> QED BY <1>3, <2>1, SubSeqProperties
<1> HIDE DEF t
<1>5. Len(t) = Len(x)
  BY <1>1, <1>4
<1>6. ASSUME NEW i \in 1..Len(t) PROVE t[i] = x[i]
  <2>1. t[i] = (s \o x)[Len(s) + i]
    <3>1. i \in 1..(Len(s) + Len(x) - (Len(s) + 1) + 1) /\ Len(s) + 1 + i - 1 = Len(s) + i
      BY <1>1, <1>5
    <3>2. t[i] = (s \o x)[Len(s) + 1 + i - 1]
      BY <1>4, <3>1, Zenon
    <3> QED BY <3>1, <3>2
  <2>2. Len(s) + i \in 1..(Len(s) + Len(x)) /\ ~(Len(s) + i <= Len(s))
        /\ (Len(s) + i) - Len(s) = i
    BY <1>1, <1>5
  <2> QED BY <1>2, <2>1, <2>2
<1>7. t = x
  BY <1>4, <1>5, <1>6, SeqEqual
<1> QED BY <1>2, <1>7 DEF t

LEMMA ImageIsPacked ==
  ASSUME NEW f \in Image, NEW d \in Dir, IsFiniteSet(d.ramdisk),
         HdrSize <= d.meta.page_size, PartsOf(d) \in Parts, IsImageOf(f, d)
  PROVE  IsPacked(f)
<1> DEFINE parts == PartsOf(d)
           p == d.meta.page_size
<1>1. /\ SectionsOf(f) = parts
      /\ HdrIs(f.hdr, d.meta, parts, IdOf(d.meta.header_version, parts))
  BY DEF IsImageOf
<1>2. PICK skip \in BOOLEAN : f.data = DataOf(p, parts) \o Page(ExtraOf(d, skip), p)
  BY DEF IsImageOf
<1>3. /\ p \in Nat \ {0} /\ d.meta.recovery_dtbo_offset \in Nat
      /\ d.extra \in Seq(Cell) /\ d.ramdisk \in SUBSET Nat
  BY DEF Dir, Meta
<1> HIDE DEF parts, p
<1>4. /\ f.hdr.magic = TRUE /\ f.hdr.header_version = d.meta.header_version
      /\ f.hdr.page_size = p
      /\ f.hdr.kernel_size = Len(parts.kernel) /\ f.hdr.ramdisk_size = Len(parts.ramdisk)
      /\ f.hdr.second_size = Len(parts.second)
      /\ f.hdr.recovery_dtbo_size = Len(parts.recovery_dtbo)
      /\ f.hdr.dtb_size = Len(parts.dtb)
      /\ f.hdr.recovery_dtbo_offset = d.meta.recovery_dtbo_offset % Word
      /\ f.hdr.id = IdOf(d.meta.header_version, parts)
  BY <1>1 DEF HdrIs, p
<1>5. f.hdr.recovery_dtbo_offset < Word
  <2>1. Word \in Nat \ {0}
    BY LayoutAssumption
  <2>2. d.meta.recovery_dtbo_offset % Word \in 0..(Word - 1)
    BY <1>3, <2>1, DivMod
  <2> QED BY <1>4, <2>1, <2>2
<1>6. PadOf(f) = Page(ExtraOf(d, skip), p)
  <2>1. ExtraOf(d, skip) \in Seq(Cell)
    BY <1>3, EmptySeq DEF ExtraOf
  <2>2. Page(ExtraOf(d, skip), p) \in Seq(Cell)
    BY <1>3, <2>1, PageLen
  <2>3. parts \in Parts /\ HdrSize <= p
    BY DEF parts, p
  <2>4. DataOf(p, parts) \in Seq(Cell) /\ Len(DataOf(p, parts)) = B_PAD_o(f.hdr)
    BY <1>3, <1>4, <2>3, DataLen
  <2> DEFINE s == DataOf(p, parts)
             x == Page(ExtraOf(d, skip), p)
  <2>5. f.data = s \o x /\ s \in Seq(Cell) /\ x \in Seq(Cell) /\ Len(s) = B_PAD_o(f.hdr)
    BY <1>2, <2>2, <2>4
  <2> HIDE DEF s, x
  <2>6. SubSeq(s \o x, Len(s) + 1, Len(s \o x)) = x
    <3>1. s \in Seq(Cell) /\ x \in Seq(Cell)
      BY <2>5
    <3> QED BY <3>1, AfterConcat
  <2>7. PadOf(f) = x
    BY <2>5, <2>6 DEF PadOf
  <2> QED BY <2>7 DEF x
<1>7. f.data = DataOf(f.hdr.page_size, SectionsOf(f)) \o PadOf(f)
  BY <1>1, <1>2, <1>4, <1>6
<1>8. RamdiskOf(f) = Abs!ArchiveOf(Entries(RamdiskOf(f)))
  <2>1. RamdiskOf(f) = Abs!ArchiveOf(d.ramdisk)
    <3>1. SectionsOf(f).ramdisk = RamdiskOf(f) /\ PartsOf(d).ramdisk = Abs!ArchiveOf(d.ramdisk)
      BY DEF SectionsOf, PartsOf
    <3> QED BY <1>1, <3>1 DEF parts
  <2> QED BY <1>3, <2>1, ArchiveEntries
<1> QED BY <1>1, <1>4, <1>5, <1>7, <1>8 DEF IsPacked

-----------------------------------------------------------------------------
(* The round trip's invariant.                                             *)

(* A step after which the output is the one before it or is not whole, and *)
(* the directory holds no image or the one it held.                        *)
LEMMA TripKept ==
  ASSUME TripInv, WellFormed(boot'), UNCHANGED out \/ out'.st # "whole",
         (UNCHANGED boot /\ hist'.packed = hist.packed) \/ IsPacked(boot'),
         \/ hist'.from = NoImage
         \/ hist'.from = hist.from /\ UNCHANGED <<dir, boot>> /\ pc' \notin UnpackPc
              /\ hist'.packed = hist.packed,
         hist'.made_from = hist.made_from, hist'.made_packed = hist.made_packed
  PROVE  TripInv'
<1>1. CASE hist'.from = NoImage
  BY <1>1 DEF TripInv
<1>2. CASE /\ hist'.from = hist.from /\ UNCHANGED <<dir, boot>> /\ pc' \notin UnpackPc
           /\ hist'.packed = hist.packed
  BY <1>2 DEF TripInv
<1> QED BY <1>1, <1>2

(* Unpack, up to its end.                                                  *)
LEMMA TripUnpackGoesOn ==
  ASSUME IInv, TripInv, Unpack, ~UnpackExit
  PROVE  TripInv'
<1>0. hist \in Hist
  BY UnpackedTypes
<1>1. pc \in UnpackPc /\ UNCHANGED <<boot, out>>
  BY DEF Unpack, UnpackOpen, UnpackScanKernel, UnpackScanDtb, UnpackKernel,
    UnpackRecoveryDtbo, UnpackSecond, UnpackExtra, UnpackKernelDts, UnpackDtDts,
    UnpackMkdir, UnpackRamdisk, UnpackMeta, disk, UnpackPc
<1>2. /\ hist'.from = hist.from /\ hist'.packed = hist.packed
      /\ hist'.made_from = hist.made_from /\ hist'.made_packed = hist.made_packed
  BY <1>0 DEF Unpack, UnpackOpen, UnpackScanKernel, UnpackScanDtb, UnpackKernel,
    UnpackRecoveryDtbo, UnpackSecond, UnpackExtra, UnpackKernelDts, UnpackDtDts,
    UnpackMkdir, UnpackRamdisk, UnpackMeta, disk, DiskWrite, Hist
<1>3. hist.from = NoImage /\ WellFormed(boot')
  BY <1>1 DEF TripInv
<1> QED BY <1>1, <1>2, <1>3, TripKept

(* The end of unpack: the directory is that of the image.                  *)
LEMMA TripUnpackExit ==
  ASSUME IInv, IInv', UnpackedInv, TripInv, UnpackExit
  PROVE  TripInv'
<1>1. /\ pc = "u_exit" /\ UNCHANGED <<boot, out>> /\ Leave("return", SUCCESS)
      /\ dir' = [dir EXCEPT !.kernel_dts = Flushed(@, b.kernel_dtb),
                            !.dt_dts = Flushed(@, b.dtb)]
  BY DEF UnpackExit
<1>2. /\ hist'.from = IF hist.fresh THEN boot ELSE NoImage
      /\ hist'.packed = hist.packed
      /\ hist'.made_from = hist.made_from /\ hist'.made_packed = hist.made_packed
  BY UnpackedTypes DEF UnpackExit, Hist
<1>3. CASE ~hist.fresh
  BY <1>1, <1>2, <1>3, TripKept DEF TripInv
<1>4. CASE hist.fresh
  <2>1. dir' = Abs!UnpackOf(boot)
    <3>1. dir' \in Dir
      BY DEF IInv, TypeOK
    <3> QED BY <1>1, <1>4, <3>1, UnpackLeaves
  <2>2. CanUnpack(boot)
    BY <1>1 DEF CanUnpack, TripInv, UnpackedInv, ScanInv, UnpackPc
  <2>3. pc' = "idle" /\ hist'.from = boot /\ "idle" \notin UnpackPc
    BY <1>1, <1>2, <1>4 DEF Leave, UnpackPc
  <2> QED BY <1>1, <1>2, <2>1, <2>2, <2>3 DEF TripInv
<1> QED BY <1>3, <1>4

(* What pack writes is the image of the directory.                         *)
LEMMA WrittenImage ==
  ASSUME IInv, MadeInv, pc = "p_writing"
  PROVE  IsImageOf(img, dir) /\ IsPacked(img)
<1>1. /\ hist.parts.kernel = Abs!KernelSection(dir)
      /\ hist.parts.ramdisk = Abs!ArchiveOf(dir.ramdisk)
      /\ hist.parts.second = dir.second
      /\ hist.parts.recovery_dtbo = dir.recovery_dtbo
      /\ hist.parts.dtb = Abs!DtbsOf(dir.dt_dts)
  BY DEF MadeInv, SectionsInv, Finished, KernelCompiled, RamdiskArchived
<1>2. hist.parts = PartsOf(dir) /\ hist.parts \in Parts
  BY <1>1, PackTypes, Zenon DEF Parts, PartsOf
<1>3. /\ HdrIs(img.hdr, dir.meta, PartsOf(dir), IdOf(dir.meta.header_version, PartsOf(dir)))
      /\ img.data = DataOf(dir.meta.page_size, PartsOf(dir))
                      \o Page(ExtraOf(dir, opts.skip), dir.meta.page_size)
  BY <1>2 DEF MadeInv, BufferInv, Finished
<1>4. SectionsOf(img) = hist.parts
  <2>1. Recorded(img, hist.parts)
    BY DEF IInv, Packing, Finished
  <2>2. /\ KernelOf(img) = hist.parts.kernel /\ RamdiskOf(img) = hist.parts.ramdisk
        /\ SecondOf(img) = hist.parts.second
        /\ RecoveryDtboOf(img) = hist.parts.recovery_dtbo /\ DtbOf(img) = hist.parts.dtb
    BY <2>1 DEF Recorded
  <2> QED BY <1>2, <2>2, Zenon DEF Parts, SectionsOf
<1>5. opts.skip \in BOOLEAN /\ img \in Image /\ dir \in Dir
  BY PackTypes
<1>6. IsImageOf(img, dir)
  <2>1. SectionsOf(img) = PartsOf(dir)
    BY <1>2, <1>4
  <2> QED BY <1>3, <1>5, <2>1 DEF IsImageOf
<1>7. HdrSize <= dir.meta.page_size /\ IsFiniteSet(dir.ramdisk)
  <2>1. dir.meta_ok
    BY DEF MadeInv, SectionsInv, Finished, MetaReads
  <2>2. dir.meta.page_size >= HdrSize
    BY <2>1 DEF IInv, Fits
  <2>3. HdrSize \in Nat /\ dir.meta.page_size \in Nat
    BY LayoutAssumption, PackTypes
  <2> QED BY <2>2, <2>3 DEF MadeInv
<1> QED BY <1>2, <1>5, <1>6, <1>7, ImageIsPacked

LEMMA TripPack ==
  ASSUME IInv, MadeInv, TripInv, Pack
  PROVE  TripInv'
<1>0. hist \in Hist
  BY UnpackedTypes
<1>1. pc \in PackPc /\ UNCHANGED <<boot, dir>> /\ WellFormed(boot')
  BY PackShape DEF TripInv
<1>2. pc' \notin UnpackPc
  <2>1. pc' \in PackPc \/ \E how, r : Leave(how, r)
    BY PackShape
  <2>2. (\E how, r : Leave(how, r)) => pc' = "idle"
    BY DEF Leave
  <2>3. pc' \in PackPc \union {"idle"}
    BY <2>1, <2>2
  <2> QED BY <2>3 DEF PackPc, UnpackPc
<1>3. CASE /\ PackWriteOutput
           /\ out' = [st |-> "whole", img |-> img]
           /\ hist' = [hist EXCEPT !.made_from = hist.from,
                                   !.made_complete = hist.complete,
                                   !.made_packed = hist.packed]
  <2>1. /\ hist'.from = hist.from /\ hist'.packed = hist.packed
        /\ hist'.made_from = hist.from /\ hist'.made_packed = hist.packed
    BY <1>0, <1>3 DEF Hist
  <2>2. IsImageOf(img, dir) /\ IsPacked(img) /\ out'.img = img
    BY <1>3, WrittenImage DEF PackWriteOutput
  <2>3. hist.from # NoImage =>
          /\ CanUnpack(hist.from) /\ dir = Abs!UnpackOf(hist.from)
          /\ hist.packed => IsPacked(hist.from)
    BY DEF TripInv
  <2>4. hist.from # NoImage => IsImageOf(out'.img, Abs!UnpackOf(hist.from))
    BY <2>2, <2>3
  <2> QED BY <1>1, <1>2, <2>1, <2>2, <2>3, <2>4 DEF TripInv
<1>4. CASE /\ UNCHANGED out \/ out'.st # "whole"
           /\ hist'.from = hist.from /\ hist'.packed = hist.packed
           /\ hist'.made_from = hist.made_from /\ hist'.made_packed = hist.made_packed
  BY <1>1, <1>2, <1>4, TripKept
<1>5. CASE PackWriteOutput
  BY <1>3, <1>4, <1>5 DEF PackWriteOutput
<1>6. CASE PackOpenOutput
  <2>1. (UNCHANGED out \/ out'.st # "whole") /\ UNCHANGED hist
    BY <1>6 DEF PackOpenOutput
  <2> QED BY <1>4, <2>1
<1>7. CASE \/ PackKernel \/ PackCompileKernelDts \/ PackRamdisk \/ PackCpioEntry
           \/ PackCompileDtDts \/ PackExtra \/ PackCheck
  <2>1. CASE PackKernel
    BY <1>4, <2>1 DEF PackKernel, disk
  <2>2. CASE PackRamdisk
    BY <1>4, <2>2 DEF PackRamdisk, disk
  <2>3. CASE PackCpioEntry
    <3>1. UNCHANGED <<out, hist>>
      BY <2>3 DEF PackCpioEntry, disk
    <3> QED BY <1>4, <3>1
  <2>4. CASE PackExtra
    <3>1. UNCHANGED <<out, hist>>
      BY <2>4 DEF PackExtra, disk
    <3> QED BY <1>4, <3>1
  <2>5. CASE PackCheck
    <3>1. UNCHANGED <<out, hist>>
      BY <2>5 DEF PackCheck, disk
    <3> QED BY <1>4, <3>1
  <2>6. CASE PackCompileKernelDts \/ PackCompileDtDts
    BY <1>4, <2>6 DEF PackCompileKernelDts, PackCompileDtDts, CompileDts, disk
  <2> QED BY <1>7, <2>1, <2>2, <2>3, <2>4, <2>5, <2>6
<1>8. CASE \/ PackMeta \/ PackAddKernel \/ PackAddRamdisk \/ PackSecond
           \/ PackRecoveryDtbo \/ PackAddDtb
  <2>1. UNCHANGED out
    BY <1>8 DEF PackMeta, PackAddKernel, PackAddRamdisk, PackSecond, PackRecoveryDtbo,
      PackAddDtb, disk
  <2>2. /\ hist'.from = hist.from /\ hist'.packed = hist.packed
        /\ hist'.made_from = hist.made_from /\ hist'.made_packed = hist.made_packed
    BY <1>0, <1>8 DEF PackMeta, PackAddKernel, PackAddRamdisk, PackSecond,
      PackRecoveryDtbo, PackAddDtb, Hist
  <2> QED BY <1>4, <2>1, <2>2
<1> QED BY <1>5, <1>6, <1>7, <1>8 DEF Pack

LEMMA TripUser ==
  ASSUME IInv, TripInv, User \/ Kill
  PROVE  TripInv'
<1>0. hist \in Hist
  BY UnpackedTypes
<1>1. CASE Kill
  <2>1. UNCHANGED <<boot, dir, out, hist>> /\ pc' = "idle"
    BY <1>1 DEF Kill, disk, Leave
  <2> QED BY <2>1, TripKept DEF TripInv, UnpackPc
<1>2. CASE \E o \in BOOLEAN : UnpackStart(o)
  <2>1. /\ UNCHANGED <<boot, out>> /\ hist'.from = NoImage /\ hist'.packed = hist.packed
        /\ hist'.made_from = hist.made_from /\ hist'.made_packed = hist.made_packed
    BY <1>0, <1>2 DEF UnpackStart, Hist
  <2> QED BY <2>1, TripKept DEF TripInv
<1>3. CASE \E o \in BOOLEAN : PackStart(o)
  <2>1. /\ UNCHANGED <<boot, dir, out>> /\ hist'.from = hist.from /\ pc' = "p_meta"
        /\ hist'.made_from = hist.made_from /\ hist'.made_packed = hist.made_packed
        /\ hist'.packed = hist.packed
    BY <1>0, <1>3 DEF PackStart, Hist, disk
  <2> QED BY <2>1, TripKept DEF TripInv, UnpackPc
<1>4. CASE AddFile \/ RemoveFile \/ EditDts \/ EditPageSize \/ ReplaceKernel
             \/ CleanDir \/ Adopt
  <2>1. /\ UNCHANGED out /\ hist'.from = NoImage
        /\ hist'.made_from = hist.made_from /\ hist'.made_packed = hist.made_packed
    BY <1>4, UserShape DEF UserTurn
  <2>2. CASE Adopt
    <3>1. WellFormed(boot') /\ out.st = "whole" /\ boot' = out.img
      BY <2>2 DEF Adopt
    <3>2. IsPacked(boot')
      BY <3>1 DEF TripInv
    <3> QED BY <2>1, <3>1, <3>2, TripKept
  <2>3. CASE ~Adopt
    <3>1. UNCHANGED boot /\ hist'.packed = hist.packed
      BY <1>0, <1>4, <2>3 DEF AddFile, RemoveFile, EditDts, EditPageSize, ReplaceKernel,
        CleanDir, Edit, Hist
    <3> QED BY <2>1, <3>1, TripKept DEF TripInv
  <2> QED BY <2>2, <2>3
<1> QED BY <1>1, <1>2, <1>3, <1>4 DEF User

(* The invariant of the round trip holds in every state.                   *)
LEMMA TripAlways == Spec => []TripInv
<1>1. Init => TripInv
  <2> SUFFICES ASSUME Init PROVE TripInv
    OBVIOUS
  <2>1. /\ boot \in Images /\ out.st = "none" /\ pc = "idle"
        /\ hist.from = NoImage /\ hist.packed = FALSE
    BY DEF Init, NoOut, NoHist
  <2>2. WellFormed(boot)
    BY <2>1, BootAssumption
  <2> QED BY <2>1, <2>2 DEF TripInv
<1>2. IInv /\ IInv' /\ MadeInv /\ UnpackedInv /\ TripInv /\ [Next]_vars => TripInv'
  <2>1. TripInv /\ UNCHANGED vars => TripInv'
    BY DEF TripInv, vars
  <2> QED BY <2>1, TripUnpackGoesOn, TripUnpackExit, TripPack, TripUser DEF Next
<1>3. Spec => [](IInv /\ MadeInv)
  BY MadeAlways
<1>4. Spec => []UnpackedInv
  BY UnpackedAlways
<1> QED BY <1>1, <1>2, <1>3, <1>4, PTL DEF Spec

-----------------------------------------------------------------------------
(* The sections of an image that can be carried through a round trip.      *)

(* Device trees that are the end of a section, and all of it that are      *)
(* trees, are found in their order.                                        *)
LEMMA TreesAtEnd ==
  ASSUME NEW section \in Seq(Cell), NEW n \in 0..Len(section),
         \A i \in 1..n : ~IsDtb(section[i]), AllDtb(section, n),
         NEW ids, ids = [i \in 1..(Len(section) - n) |-> section[n + i].id]
  PROVE  /\ ids \in Seq(Nat) /\ Len(ids) = Len(section) - n
         /\ Found(section, ids, Len(section))
<1>1. Len(section) \in Nat /\ n \in Nat /\ n <= Len(section)
  BY LenProperties
<1> DEFINE m == Len(section) - n
<1>2. m \in Nat
  BY <1>1
<1>3. ASSUME NEW i \in 1..m
      PROVE  n + i \in 1..Len(section) /\ IsDtb(section[n + i]) /\ section[n + i].id \in Nat
  <2>1. n + i \in 1..Len(section) /\ n + i \in (n + 1)..Len(section)
    BY <1>1
  <2>2. section[n + i] \in Cell
    BY <2>1, ElementOfSeq
  <2> QED BY <2>1, <2>2 DEF AllDtb, Cell
<1>4. ids = [i \in 1..m |-> section[n + i].id]
  OBVIOUS
<1> HIDE DEF m
<1>5. ids \in Seq(Nat) /\ Len(ids) = m
  <2>1. \A i \in 1..m : section[n + i].id \in Nat
    BY <1>3
  <2>2. [i \in 1..m |-> section[n + i].id] \in Seq(Nat)
    BY <1>2, <2>1, IsASeq
  <2>3. Len([i \in 1..m |-> section[n + i].id]) = m
    BY <1>2
  <2> QED BY <1>4, <2>2, <2>3
<1>6. ASSUME NEW i \in 0..m
      PROVE  Cardinality(TreesIn(section, n + i)) = i
  <2>1. TreesIn(section, n + i) = (n + 1)..(n + i)
    <3>1. ASSUME NEW j \in TreesIn(section, n + i) PROVE j \in (n + 1)..(n + i)
      <4>1. j \in 1..(n + i) /\ IsDtb(section[j])
        BY DEF TreesIn
      <4>2. ~(j \in 1..n)
        BY <4>1
      <4> QED BY <1>1, <1>2, <4>1, <4>2
    <3>2. ASSUME NEW j \in (n + 1)..(n + i) PROVE j \in TreesIn(section, n + i)
      <4>1. j - n \in 1..m /\ n + (j - n) = j /\ j \in 1..(n + i)
        BY <1>1, <1>2
      <4>2. IsDtb(section[j])
        <5>1. IsDtb(section[n + (j - n)])
          BY <1>3, <4>1
        <5> QED BY <4>1, <5>1
      <4> QED BY <4>1, <4>2 DEF TreesIn
    <3> QED BY <3>1, <3>2
  <2>2. n + 1 \in Int /\ n + i \in Int
    BY <1>1, <1>2
  <2>3. Cardinality((n + 1)..(n + i)) = IF n + 1 > n + i THEN 0 ELSE (n + i) - (n + 1) + 1
    BY <2>2, FS_Interval
  <2> QED BY <1>1, <1>2, <2>1, <2>3
<1>7. n + m = Len(section) /\ m \in 0..m
  BY <1>1, <1>2 DEF m
<1>8. Len(ids) = Cardinality(TreesIn(section, Len(section)))
  <2>1. Cardinality(TreesIn(section, n + m)) = m
    BY <1>6, <1>7
  <2> QED BY <1>5, <1>7, <2>1
<1>9. ASSUME NEW i \in 1..Len(ids)
      PROVE  \E j \in 1..Len(section) : TreeNo(section, j, i - 1) /\ ids[i] = section[j].id
  <2>1. i \in 1..m /\ i - 1 \in 0..m /\ (n + i) - 1 = n + (i - 1)
    BY <1>1, <1>2, <1>5
  <2>2. Cardinality(TreesIn(section, n + (i - 1))) = i - 1
    BY <1>6, <2>1
  <2>3. n + i \in 1..Len(section) /\ IsDtb(section[n + i]) /\ ids[i] = section[n + i].id
    BY <1>3, <1>4, <2>1
  <2>4. TreeNo(section, n + i, i - 1)
    BY <2>1, <2>2, <2>3 DEF TreeNo
  <2> QED BY <2>3, <2>4
<1>10. Len(section) <= Len(section)
  BY <1>1
<1>11. Found(section, ids, Len(section))
  BY <1>8, <1>9, <1>10 DEF Found
<1> QED BY <1>5, <1>11 DEF m

(* Decompiled and compiled again, these trees are what they were.          *)
LEMMA TreesReturn ==
  ASSUME NEW section \in Seq(Cell), NEW n \in 0..Len(section),
         \A i \in 1..n : ~IsDtb(section[i]), AllDtb(section, n),
         Cardinality({i \in 1..Len(section) : IsDtb(section[i])}) <= MaxDtb
  PROVE  Abs!DtbsOf(Abs!DtsOf(section)) = SubSeq(section, n + 1, Len(section))
<1> DEFINE m == Len(section) - n
           ids == [i \in 1..m |-> section[n + i].id]
           files == Flushed(OpenedDts(m), ids)
<1>1. Len(section) \in Nat /\ n \in Nat /\ n <= Len(section) /\ m \in Nat
  BY LenProperties
<1>2. ids \in Seq(Nat) /\ Len(ids) = m /\ Found(section, ids, Len(section))
  BY TreesAtEnd
<1>3. m <= MaxDtb
  <2>1. Cardinality(TreesIn(section, Len(section))) = m
    BY <1>2 DEF Found
  <2> QED BY <2>1 DEF TreesIn
<1>4. MaxDtb \in Nat /\ DtIndex = 0..(MaxDtb - 1)
  BY DirAssumption DEF DtIndex
<1>5. \A i \in 1..m : ids[i] \in Nat /\ ids[i] = section[n + i].id
  BY <1>2, ElementOfSeq
<1> HIDE DEF ids
<1>6. Abs!DtsOf(section) = files
  BY <1>2, AbsDtsOf
<1> HIDE DEF m
<1>7. files = [i \in DtIndex |-> IF i < m THEN ids[i + 1] ELSE MISSING]
  BY <1>2 DEF Flushed, OpenedDts
<1>8. ASSUME NEW i \in DtIndex, i < m PROVE i + 1 \in 1..m /\ files[i] = ids[i + 1]
  BY <1>1, <1>4, <1>7, <1>8
<1>9. ASSUME NEW i \in DtIndex, ~(i < m) PROVE files[i] = MISSING
  BY <1>7, <1>9
<1> HIDE DEF files
<1>10. /\ files \in [DtIndex -> Dts] /\ Compiled(files, m)
       /\ LastDts(files, m)
  <2>1. \A i \in DtIndex : files[i] \in Dts
    BY <1>5, <1>8, <1>9 DEF Dts
  <2>2. files \in [DtIndex -> Dts]
    BY <1>7, <2>1
  <2>3. Compiled(files, m)
    BY <1>5, <1>8 DEF Compiled
  <2>4. LastDts(files, m)
    BY <1>1, <1>4, <1>9 DEF LastDts
  <2> QED BY <2>2, <2>3, <2>4
<1>11. Abs!DtbsOf(files) = Trees(files, m)
  BY <1>1, <1>3, <1>10, TreesAll
<1>12. ASSUME NEW i \in 1..m
       PROVE  /\ MkCell("dtb", files[i - 1]) = section[n + i]
              /\ n + i \in 1..Len(section) /\ section[n + i] \in Cell
  <2>1. i - 1 \in DtIndex /\ i - 1 < m /\ (i - 1) + 1 = i
    BY <1>1, <1>3, <1>4
  <2>2. files[i - 1] = section[n + i].id
    BY <1>5, <1>8, <2>1
  <2>3. n + i \in 1..Len(section) /\ n + i \in (n + 1)..Len(section)
    BY <1>1 DEF m
  <2>4. section[n + i] \in Cell /\ IsDtb(section[n + i])
    BY <2>3, ElementOfSeq DEF AllDtb
  <2>5. section[n + i] = [kind |-> "dtb", id |-> section[n + i].id, z |-> 0]
    BY <2>4 DEF Cell, IsDtb
  <2> QED BY <2>2, <2>3, <2>4, <2>5 DEF MkCell
<1> DEFINE s == Trees(files, m)
           t == SubSeq(section, n + 1, Len(section))
<1>13. s \in Seq(Cell) /\ Len(s) = m /\ \A i \in 1..m : s[i] = section[n + i]
  <2>1. s = [i \in 1..m |-> MkCell("dtb", files[i - 1])]
    BY DEF Trees
  <2>2. \A i \in 1..m : s[i] = section[n + i] /\ s[i] \in Cell
    BY <1>12, <2>1
  <2> HIDE DEF s
  <2> QED BY <1>1, <2>1, <2>2, IsASeq, LenProperties
<1>14. t \in Seq(Cell) /\ Len(t) = m /\ \A i \in 1..m : t[i] = section[n + i]
  <2>1. \A i \in (n + 1)..Len(section) : section[i] \in Cell
    BY <1>1, ElementOfSeq
  <2>2. n + 1 \in Int /\ Len(section) \in Int
    BY <1>1
  <2>3. /\ t \in Seq(Cell)
        /\ Len(t) = IF n + 1 <= Len(section) THEN Len(section) - (n + 1) + 1 ELSE 0
        /\ \A i \in 1..(Len(section) - (n + 1) + 1) : t[i] = section[n + 1 + i - 1]
    BY <2>1, <2>2, SubSeqProperties
  <2> HIDE DEF t
  <2>4. Len(section) - (n + 1) + 1 = m
    BY <1>1 DEF m
  <2>5. \A i \in 1..m : n + 1 + i - 1 = n + i
    BY <1>1
  <2>6. Len(t) = m
    BY <1>1, <2>3 DEF m
  <2> QED BY <2>3, <2>4, <2>5, <2>6
<1> HIDE DEF s, t
<1>15. s = t
  BY <1>13, <1>14, SeqEqual
<1> QED BY <1>6, <1>11, <1>15 DEF s, t

(* Unwrapped and wrapped again, what gzip compressed once is what it was.  *)
LEMMA GzipReturns ==
  ASSUME NEW k \in Seq(Cell), NEW n \in 1..Len(k), IsGzipRun(k, n), k[1].z = 1
  PROVE  Gzip(Gunzip(k, n)) = SubSeq(k, 1, n)
<1> DEFINE g == Gunzip(k, n)
<1>1. Len(k) \in Nat /\ n \in Nat /\ n \in 0..Len(k)
  BY LenProperties
<1>2. ASSUME NEW i \in 1..n PROVE k[i] \in Cell /\ k[i].z \in Nat /\ k[i].z >= 1
  <2>1. i \in 1..Len(k)
    BY <1>1
  <2>2. k[i] \in Cell
    BY <2>1, ElementOfSeq
  <2> QED BY <2>2 DEF IsGzipRun, Cell
<1>3. g \in Seq(Cell) /\ Len(g) = n
  BY <1>1, GunzipType
<1>4. \A i \in 1..n : g[i] = [k[i] EXCEPT !.z = @ - 1]
  BY DEF Gunzip
<1> HIDE DEF g
<1>5. ASSUME NEW i \in 1..n
      PROVE  g[i].z = k[i].z - 1 /\ [g[i] EXCEPT !.z = @ + 1] = k[i]
  <2>1. k[i] = [kind |-> k[i].kind, id |-> k[i].id, z |-> k[i].z]
    BY <1>2 DEF Cell
  <2>2. g[i] = [kind |-> k[i].kind, id |-> k[i].id, z |-> k[i].z - 1]
    BY <1>2, <1>4, <2>1 DEF Cell
  <2>3. (k[i].z - 1) + 1 = k[i].z
    BY <1>2
  <2> QED BY <2>1, <2>2, <2>3
<1>6. \E i \in 1..Len(g) : g[i].z = 0
  <2>1. 1 \in 1..n
    BY <1>1
  <2>2. g[1].z = 1 - 1 /\ 1 \in 1..Len(g)
    BY <1>3, <1>5, <2>1
  <2> QED BY <2>1, <2>2
<1>7. Gzip(g) = [i \in 1..n |-> [g[i] EXCEPT !.z = @ + 1]]
  BY <1>3, <1>6 DEF Gzip
<1>8. Gzip(g) = [i \in 1..n |-> k[i]]
  BY <1>5, <1>7
<1>9. SubSeq(k, 1, n) \in Seq(Cell) /\ Len(SubSeq(k, 1, n)) = n
  BY <1>1, Prefix
<1>10. \A i \in 1..n : SubSeq(k, 1, n)[i] = k[i]
  <2>1. \A i \in 1..n : k[i] \in Cell
    BY <1>2
  <2>2. n - 1 + 1 = n /\ 1 \in Int /\ n \in Int /\ \A i \in 1..n : 1 + i - 1 = i
    BY <1>1
  <2>3. \A i \in 1..(n - 1 + 1) : SubSeq(k, 1, n)[i] = k[1 + i - 1]
    BY <2>1, <2>2, SubSeqProperties
  <2> QED BY <2>2, <2>3
<1>11. Gzip(g) \in Seq(Cell) /\ Len(Gzip(g)) = n
  BY <1>1, <1>2, <1>8, IsASeq, LenProperties
<1>12. Gzip(g) = SubSeq(k, 1, n)
  <2> DEFINE x == Gzip(g)
             y == SubSeq(k, 1, n)
  <2>1. x \in Seq(Cell) /\ y \in Seq(Cell) /\ Len(x) = Len(y) /\ \A i \in 1..Len(x) : x[i] = y[i]
    BY <1>8, <1>9, <1>10, <1>11
  <2> HIDE DEF x, y
  <2>2. x = y
    BY <2>1, SeqEqual
  <2> QED BY <2>2 DEF x, y
<1> QED BY <1>12 DEF g

(* The kernel section of the directory of an image that can be carried     *)
(* through a round trip.                                                   *)
LEMMA KernelReturns ==
  ASSUME NEW k \in Seq(Cell), NEW d,
         d.kernel = Abs!KernelFile(k), d.kernel_dts = Abs!DtsOf(k),
         d.meta.kernel_compression = bxxt_boot_detect_kernel_compression(k),
         Cardinality({i \in 1..Len(k) : IsDtb(k[i])}) <= MaxDtb,
         \/ \E n \in 1..Len(k) :
              /\ IsGzipRun(k, n) /\ AllDtb(k, n)
              /\ k[1].z = 1
         \/ /\ bxxt_boot_detect_kernel_compression(k) = NONE
            /\ NoMoreDtb(k, 0)
  PROVE  Abs!KernelSection(d) = k
<1> DEFINE c == bxxt_boot_detect_kernel_compression(k)
<1>0. Len(k) \in Nat
  BY LenProperties
<1>1. Abs!KernelSection(d) = Compressed(Abs!KernelFile(k), c) \o Abs!DtbsOf(Abs!DtsOf(k))
  BY AbsKernelSection
<1>2. c \in {NONE, GZIP, LZMA} /\ GZIP # NONE /\ LZMA # NONE /\ GZIP # LZMA
  BY Detected
<1>3. CASE \E n \in 1..Len(k) : IsGzipRun(k, n) /\ AllDtb(k, n) /\ k[1].z = 1
  <2>1. PICK n \in 1..Len(k) : IsGzipRun(k, n) /\ AllDtb(k, n) /\ k[1].z = 1
    BY <1>3
  <2>2. n \in 0..Len(k) /\ 1 \in 1..n /\ n \in Nat /\ n <= Len(k)
    BY <1>0
  <2>3. \A i \in 1..n : k[i].z > 0
    <3>1. ASSUME NEW i \in 1..n PROVE k[i].z > 0
      <4>1. i \in 1..Len(k)
        BY <1>0, <2>2
      <4>2. k[i].z \in Nat
        BY <4>1, ElementOfSeq, Rewrapped
      <4>3. k[i].z >= 1
        BY <2>1 DEF IsGzipRun
      <4> QED BY <4>2, <4>3
    <3> QED BY <3>1
  <2>4. c = GZIP
    <3>1. k # << >>
      BY <1>0, <2>2, EmptySeq
    <3> QED BY <2>2, <2>3, <3>1 DEF bxxt_boot_detect_kernel_compression
  <2>5. \A i \in 1..n : ~IsDtb(k[i])
    BY <2>3 DEF IsDtb
  <2> HIDE DEF c
  <2>6. Abs!KernelFile(k) = Gunzip(k, n)
    <3>1. IsDecoded(k, n)
      BY <1>2, <2>1, <2>4 DEF IsDecoded, c
    <3>2. Abs!KernelFile(k) = Decoded(k, n)
      BY <2>2, <3>1, AbsKernelFile
    <3> QED BY <2>4, <3>2 DEF Decoded, c
  <2>7. Compressed(Abs!KernelFile(k), c) = SubSeq(k, 1, n)
    <3>1. Compressed(Abs!KernelFile(k), c) = Gzip(Gunzip(k, n))
      BY <1>2, <2>4, <2>6 DEF Compressed
    <3> QED BY <2>1, <3>1, GzipReturns
  <2>8. Abs!DtbsOf(Abs!DtsOf(k)) = SubSeq(k, n + 1, Len(k))
    BY <2>1, <2>2, <2>5, TreesReturn
  <2>9. SubSeq(k, 1, n) \o SubSeq(k, n + 1, Len(k)) = k
    <3>1. 1 \in 1..(Len(k) + 1) /\ n \in (1 - 1)..Len(k) /\ Len(k) \in n..Len(k)
      BY <1>0, <2>2
    <3>2. SubSeq(k, 1, n) \o SubSeq(k, n + 1, Len(k)) = SubSeq(k, 1, Len(k))
      BY <3>1, ConcatAdjacentSubSeq
    <3> QED BY <3>2, SubSeqFull
  <2> QED BY <1>1, <2>7, <2>8, <2>9
<1>4. CASE c = NONE /\ NoMoreDtb(k, 0)
  <2>1. Abs!KernelFile(k) = k
    <3>1. Len(k) \in 0..Len(k)
      BY <1>0
    <3>2. IsDecoded(k, Len(k))
      BY <1>2, <1>4 DEF IsDecoded
    <3>3. Abs!KernelFile(k) = Decoded(k, Len(k))
      BY <3>1, <3>2, AbsKernelFile
    <3>4. Decoded(k, Len(k)) = SubSeq(k, 1, Len(k))
      BY <1>2, <1>4 DEF Decoded
    <3> QED BY <3>3, <3>4, SubSeqFull
  <2>2. Compressed(Abs!KernelFile(k), c) = k
    BY <1>2, <1>4, <2>1 DEF Compressed
  <2>3. Abs!DtbsOf(Abs!DtsOf(k)) = << >>
    <3>1. Len(k) \in 0..Len(k) /\ AllDtb(k, Len(k))
      BY <1>0 DEF AllDtb
    <3>2. \A i \in 1..Len(k) : ~IsDtb(k[i])
      BY <1>0, <1>4 DEF NoMoreDtb
    <3>3. Abs!DtbsOf(Abs!DtsOf(k)) = SubSeq(k, Len(k) + 1, Len(k))
      BY <3>1, <3>2, TreesReturn
    <3>4. SubSeq(k, Len(k) + 1, Len(k)) = << >>
      BY <1>0, SubSeqEmpty
    <3> QED BY <3>3, <3>4
  <2> QED BY <1>1, <2>2, <2>3, ConcatEmptySeq
<1> QED BY <1>3, <1>4

(* The files of an archive that is nothing but entries.                    *)
LEMMA RamdiskReturns ==
  ASSUME NEW r \in Seq(Cell), \A i \in 1..Len(r) : IsCpioEntry(r, i)
  PROVE  /\ Abs!FilesOf(r) = Entries(r)
         /\ Entries(Abs!ArchiveOf(Abs!FilesOf(r))) = Entries(r)
<1>1. Len(r) \in Nat /\ Len(r) \in 0..Len(r) /\ ~(Len(r) + 1 <= Len(r))
  BY LenProperties
<1>2. ~IsCpioEntry(r, Len(r) + 1)
  BY <1>1 DEF IsCpioEntry
<1>3. Abs!FilesOf(r) = FilesUpto(r, Len(r))
  BY <1>1, <1>2, AbsFilesOf
<1>4. Abs!FilesOf(r) = Entries(r)
  BY <1>3 DEF FilesUpto, Entries
<1>5. Entries(r) \in SUBSET Nat /\ IsFiniteSet(Entries(r))
  BY EntriesFinite
<1>6. Entries(Abs!ArchiveOf(Entries(r))) = Entries(r)
  BY <1>5, ArchiveEntries
<1> QED BY <1>4, <1>6

(* Section by section, what was unpacked is what is packed.                *)
LEMMA SectionsReturn ==
  ASSUME NEW f, CanUnpack(f), Repackable(f), NEW d, d = Abs!UnpackOf(f)
  PROVE  /\ PartsOf(d).kernel = KernelOf(f) /\ PartsOf(d).second = SecondOf(f)
         /\ PartsOf(d).recovery_dtbo = RecoveryDtboOf(f) /\ PartsOf(d).dtb = DtbOf(f)
         /\ PartsOf(d).ramdisk = Abs!ArchiveOf(Entries(RamdiskOf(f)))
         /\ Entries(PartsOf(d).ramdisk) = Entries(RamdiskOf(f))
<1>1. /\ PartsOf(d).kernel = Abs!KernelSection(d) /\ PartsOf(d).second = d.second
      /\ PartsOf(d).recovery_dtbo = d.recovery_dtbo
      /\ PartsOf(d).dtb = Abs!DtbsOf(d.dt_dts)
      /\ PartsOf(d).ramdisk = Abs!ArchiveOf(d.ramdisk)
  BY DEF PartsOf
<1>2. /\ d.meta = MetaOf(f) /\ d.kernel = Abs!KernelFile(KernelOf(f))
      /\ d.second = SecondOf(f) /\ d.recovery_dtbo = RecoveryDtboOf(f)
      /\ d.kernel_dts = Abs!DtsOf(KernelOf(f)) /\ d.dt_dts = Abs!DtsOf(DtbOf(f))
      /\ d.ramdisk = Abs!FilesOf(RamdiskOf(f))
  BY AbsUnpackFields
<1>3. f \in Image /\ B_PAD_o(f.hdr) <= Len(f.data)
  BY DEF CanUnpack, WellFormed
<1>4. /\ KernelOf(f) \in Seq(Cell) /\ DtbOf(f) \in Seq(Cell) /\ RamdiskOf(f) \in Seq(Cell)
      /\ Len(RamdiskOf(f)) = f.hdr.ramdisk_size
  BY <1>3, SectionTypes
<1>5. \A section \in {KernelOf(f), DtbOf(f)} :
        Cardinality({i \in 1..Len(section) : IsDtb(section[i])}) <= MaxDtb
  BY DEF CanUnpack, WellFormed
<1>6. Abs!KernelSection(d) = KernelOf(f)
  <2> DEFINE k == KernelOf(f)
  <2>1. /\ k \in Seq(Cell) /\ d.kernel = Abs!KernelFile(k) /\ d.kernel_dts = Abs!DtsOf(k)
        /\ Cardinality({i \in 1..Len(k) : IsDtb(k[i])}) <= MaxDtb
    BY <1>2, <1>4, <1>5
  <2>2. d.meta.kernel_compression = bxxt_boot_detect_kernel_compression(k)
    BY <1>2 DEF MetaOf
  <2>3. \/ \E n \in 1..Len(k) :
              /\ IsGzipRun(k, n) /\ AllDtb(k, n)
              /\ k[1].z = 1
        \/ /\ bxxt_boot_detect_kernel_compression(k) = NONE
           /\ NoMoreDtb(k, 0)
    BY DEF Repackable
  <2> HIDE DEF k
  <2>4. Abs!KernelSection(d) = k
    BY <2>1, <2>2, <2>3, KernelReturns
  <2> QED BY <2>4 DEF k
<1>7. Abs!DtbsOf(d.dt_dts) = DtbOf(f)
  <2> DEFINE s == DtbOf(f)
  <2>1. /\ s \in Seq(Cell) /\ AllDtb(s, 0) /\ d.dt_dts = Abs!DtsOf(s)
        /\ Cardinality({i \in 1..Len(s) : IsDtb(s[i])}) <= MaxDtb
    BY <1>2, <1>4, <1>5 DEF Repackable
  <2> HIDE DEF s
  <2>2. 0 \in 0..Len(s) /\ \A i \in 1..0 : ~IsDtb(s[i])
    BY <2>1, LenProperties
  <2>3. Abs!DtbsOf(Abs!DtsOf(s)) = SubSeq(s, 0 + 1, Len(s))
    BY <2>1, <2>2, TreesReturn
  <2>4. SubSeq(s, 0 + 1, Len(s)) = s
    BY <2>1, SubSeqFull
  <2> QED BY <2>1, <2>3, <2>4 DEF s
<1>8. /\ Abs!FilesOf(RamdiskOf(f)) = Entries(RamdiskOf(f))
      /\ Entries(Abs!ArchiveOf(Abs!FilesOf(RamdiskOf(f)))) = Entries(RamdiskOf(f))
  <2> DEFINE r == RamdiskOf(f)
  <2>1. r \in Seq(Cell) /\ \A i \in 1..Len(r) : IsCpioEntry(r, i)
    BY <1>4 DEF Repackable
  <2> HIDE DEF r
  <2>2. Abs!FilesOf(r) = Entries(r) /\ Entries(Abs!ArchiveOf(Abs!FilesOf(r))) = Entries(r)
    BY <2>1, RamdiskReturns
  <2> QED BY <2>2 DEF r
<1> QED BY <1>1, <1>2, <1>6, <1>7, <1>8, Zenon

(* The header that pack writes for the directory of an image.              *)
LEMMA HeaderReturns ==
  ASSUME NEW f, CanUnpack(f), f.hdr.dtb_addr < Word, NEW d, d = Abs!UnpackOf(f),
         NEW h, NEW id, HdrIs(h, d.meta, PartsOf(d), id)
  PROVE  /\ h.magic = TRUE /\ h.page_size = f.hdr.page_size
         /\ h.header_version = f.hdr.header_version
         /\ h.attrs = f.hdr.attrs /\ h.dtb_addr = f.hdr.dtb_addr
         /\ h.recovery_dtbo_offset = f.hdr.recovery_dtbo_offset % Word
<1>1. d.meta = MetaOf(f)
  BY AbsUnpackFields
<1>2. /\ d.meta.page_size = f.hdr.page_size /\ d.meta.attrs = f.hdr.attrs
      /\ d.meta.header_version = f.hdr.header_version /\ d.meta.dtb_addr = f.hdr.dtb_addr
      /\ d.meta.recovery_dtbo_offset = f.hdr.recovery_dtbo_offset
  BY <1>1 DEF MetaOf
<1>3. f.hdr.dtb_addr % Word = f.hdr.dtb_addr
  <2>1. f.hdr.dtb_addr \in Nat
    BY DEF CanUnpack, WellFormed, Image, Hdr
  <2>2. Word \in Nat \ {0}
    BY LayoutAssumption
  <2> QED BY <2>1, <2>2
<1> QED BY <1>2, <1>3, Zenon DEF HdrIs

-----------------------------------------------------------------------------
(* The round trip.                                                         *)

(* Unpacking an image into an empty directory and packing it again gives   *)
(* an image with the same header fields, the same sections and the same    *)
(* files in the ramdisk, whatever commands, kills and write errors came    *)
(* before, in every instance.                                              *)
THEOREM RoundTripReturns == Spec => []RoundTrip
<1>1. TripInv => RoundTrip
  <2> DEFINE f == hist.made_from
             g == out.img
             d == Abs!UnpackOf(f)
             id == IdOf(d.meta.header_version, PartsOf(d))
  <2> SUFFICES ASSUME TripInv, out.st = "whole", f # NoImage, Repackable(f)
               PROVE  /\ g.hdr.page_size = f.hdr.page_size
                      /\ g.hdr.header_version = f.hdr.header_version
                      /\ g.hdr.attrs = f.hdr.attrs /\ g.hdr.dtb_addr = f.hdr.dtb_addr
                      /\ KernelOf(g) = KernelOf(f) /\ SecondOf(g) = SecondOf(f)
                      /\ RecoveryDtboOf(g) = RecoveryDtboOf(f) /\ DtbOf(g) = DtbOf(f)
                      /\ Entries(RamdiskOf(g)) = Entries(RamdiskOf(f))
    BY DEF RoundTrip
  <2>1. CanUnpack(f) /\ IsImageOf(g, d) /\ f.hdr.dtb_addr < Word
    BY DEF TripInv, Repackable
  <2> HIDE DEF f, g
  <2>2. HdrIs(g.hdr, d.meta, PartsOf(d), id) /\ SectionsOf(g) = PartsOf(d)
    BY <2>1 DEF IsImageOf
  <2>3. d = Abs!UnpackOf(f)
    OBVIOUS
  <2> HIDE DEF d, id
  <2>4. /\ g.hdr.page_size = f.hdr.page_size
        /\ g.hdr.header_version = f.hdr.header_version
        /\ g.hdr.attrs = f.hdr.attrs /\ g.hdr.dtb_addr = f.hdr.dtb_addr
    <3> DEFINE h == g.hdr
    <3>1. HdrIs(h, d.meta, PartsOf(d), id)
      BY <2>2
    <3> HIDE DEF h
    <3>2. /\ h.page_size = f.hdr.page_size /\ h.header_version = f.hdr.header_version
          /\ h.attrs = f.hdr.attrs /\ h.dtb_addr = f.hdr.dtb_addr
      BY <2>1, <2>3, <3>1, HeaderReturns
    <3> QED BY <3>2 DEF h
  <2>5. /\ PartsOf(d).kernel = KernelOf(f) /\ PartsOf(d).second = SecondOf(f)
        /\ PartsOf(d).recovery_dtbo = RecoveryDtboOf(f) /\ PartsOf(d).dtb = DtbOf(f)
        /\ Entries(PartsOf(d).ramdisk) = Entries(RamdiskOf(f))
    BY <2>1, <2>3, SectionsReturn
  <2>6. /\ SectionsOf(g).kernel = KernelOf(g) /\ SectionsOf(g).second = SecondOf(g)
        /\ SectionsOf(g).recovery_dtbo = RecoveryDtboOf(g) /\ SectionsOf(g).dtb = DtbOf(g)
        /\ SectionsOf(g).ramdisk = RamdiskOf(g)
    BY DEF SectionsOf
  <2> QED BY <2>2, <2>4, <2>5, <2>6, Zenon
<1> QED BY <1>1, TripAlways, PTL

(* An image with the header fields, the sections and the pages of another  *)
(* is the other.                                                           *)
LEMMA SameImage ==
  ASSUME NEW f \in Image, NEW g \in Image, g.data = f.data,
         g.hdr.magic = f.hdr.magic, g.hdr.header_version = f.hdr.header_version,
         g.hdr.page_size = f.hdr.page_size, g.hdr.kernel_size = f.hdr.kernel_size,
         g.hdr.ramdisk_size = f.hdr.ramdisk_size, g.hdr.second_size = f.hdr.second_size,
         g.hdr.recovery_dtbo_size = f.hdr.recovery_dtbo_size,
         g.hdr.dtb_size = f.hdr.dtb_size,
         g.hdr.recovery_dtbo_offset = f.hdr.recovery_dtbo_offset,
         g.hdr.dtb_addr = f.hdr.dtb_addr, g.hdr.attrs = f.hdr.attrs, g.hdr.id = f.hdr.id
  PROVE  g = f
<1>1. ASSUME NEW x \in Image
      PROVE  /\ x = [hdr |-> x.hdr, data |-> x.data]
             /\ x.hdr = [magic |-> x.hdr.magic, header_version |-> x.hdr.header_version,
                  page_size |-> x.hdr.page_size, kernel_size |-> x.hdr.kernel_size,
                  ramdisk_size |-> x.hdr.ramdisk_size, second_size |-> x.hdr.second_size,
                  recovery_dtbo_size |-> x.hdr.recovery_dtbo_size,
                  dtb_size |-> x.hdr.dtb_size,
                  recovery_dtbo_offset |-> x.hdr.recovery_dtbo_offset,
                  dtb_addr |-> x.hdr.dtb_addr, attrs |-> x.hdr.attrs, id |-> x.hdr.id]
  BY DEF Image, Hdr
<1>2. g.hdr = f.hdr
  BY <1>1, Zenon
<1>3. g = [hdr |-> g.hdr, data |-> g.data] /\ f = [hdr |-> f.hdr, data |-> f.data]
  BY <1>1
<1> QED BY <1>2, <1>3

(* No trailing data is unpacked from an image that has none.               *)
LEMMA NothingTrimmed ==
  ASSUME NEW f, PadOf(f) = << >>
  PROVE  Trimmed(f) = << >>
<1> DEFINE pad == PadOf(f)
<1>1. pad \in Seq(Cell) /\ Len(pad) = 0 /\ 0 \in 0..Len(pad)
  BY EmptySeq
<1>2. IsTrimmedSize(pad, 0)
  BY DEF IsTrimmedSize
<1>3. Trimmed(f) = SubSeq(pad, 1, CHOOSE ts \in 0..Len(pad) : Abs!IsTrimmedSize(pad, ts))
  BY DEF Trimmed
<1> HIDE DEF pad
<1>4. (CHOOSE ts \in 0..Len(pad) : Abs!IsTrimmedSize(pad, ts)) = 0
  BY <1>1, <1>2, AbsTrim
<1>5. SubSeq(pad, 1, 0) = << >>
  BY SubSeqEmpty
<1> QED BY <1>3, <1>4, <1>5

(* The directory of an image that pack made gives that image again.        *)
LEMMA PackedReturns ==
  ASSUME NEW f, CanUnpack(f), Repackable(f), IsPacked(f), PadOf(f) = << >>,
         NEW g \in Image, IsImageOf(g, Abs!UnpackOf(f))
  PROVE  g = f
<1> DEFINE d == Abs!UnpackOf(f)
           p == f.hdr.page_size
<1>1. /\ SectionsOf(g) = PartsOf(d)
      /\ HdrIs(g.hdr, d.meta, PartsOf(d), IdOf(d.meta.header_version, PartsOf(d)))
  BY DEF IsImageOf
<1>2. PICK skip \in BOOLEAN :
        g.data = DataOf(d.meta.page_size, PartsOf(d)) \o Page(ExtraOf(d, skip), d.meta.page_size)
  BY DEF IsImageOf
<1>3. d = Abs!UnpackOf(f)
  OBVIOUS
<1> HIDE DEF d
<1>4. f \in Image /\ B_PAD_o(f.hdr) <= Len(f.data) /\ f.hdr.dtb_addr < Word
  BY DEF CanUnpack, WellFormed, Repackable
<1>5. /\ d.meta.header_version = f.hdr.header_version /\ d.meta.page_size = p
      /\ d.extra = Trimmed(f)
  <2>1. d.meta = MetaOf(f) /\ d.extra = Trimmed(f)
    BY <1>3, AbsUnpackFields
  <2> QED BY <2>1 DEF MetaOf
<1>6. PartsOf(d) = SectionsOf(f)
  <2>1. /\ PartsOf(d).kernel = KernelOf(f) /\ PartsOf(d).second = SecondOf(f)
        /\ PartsOf(d).recovery_dtbo = RecoveryDtboOf(f) /\ PartsOf(d).dtb = DtbOf(f)
        /\ PartsOf(d).ramdisk = Abs!ArchiveOf(Entries(RamdiskOf(f)))
    BY <1>3, SectionsReturn
  <2>2. PartsOf(d).ramdisk = RamdiskOf(f)
    BY <2>1 DEF IsPacked
  <2>3. PartsOf(d) = [kernel |-> PartsOf(d).kernel, ramdisk |-> PartsOf(d).ramdisk,
                      second |-> PartsOf(d).second,
                      recovery_dtbo |-> PartsOf(d).recovery_dtbo, dtb |-> PartsOf(d).dtb]
    BY DEF PartsOf
  <2> QED BY <2>1, <2>2, <2>3, Zenon DEF SectionsOf
<1>7. /\ SectionsOf(f).kernel = KernelOf(f) /\ SectionsOf(f).ramdisk = RamdiskOf(f)
      /\ SectionsOf(f).second = SecondOf(f)
      /\ SectionsOf(f).recovery_dtbo = RecoveryDtboOf(f) /\ SectionsOf(f).dtb = DtbOf(f)
  BY DEF SectionsOf
<1>8. /\ Len(KernelOf(f)) = f.hdr.kernel_size /\ Len(RamdiskOf(f)) = f.hdr.ramdisk_size
      /\ Len(SecondOf(f)) = f.hdr.second_size
      /\ Len(RecoveryDtboOf(f)) = f.hdr.recovery_dtbo_size
      /\ Len(DtbOf(f)) = f.hdr.dtb_size
      /\ KernelOf(f) \in Seq(Cell) /\ RamdiskOf(f) \in Seq(Cell)
      /\ SecondOf(f) \in Seq(Cell) /\ RecoveryDtboOf(f) \in Seq(Cell)
      /\ DtbOf(f) \in Seq(Cell)
  BY <1>4, SectionTypes
<1>9. p \in Nat \ {0} /\ f.hdr.recovery_dtbo_offset \in Nat /\ f.hdr.magic \in BOOLEAN
  BY <1>4 DEF Image, Hdr
<1>10. g.data = f.data
  <2>1. ExtraOf(d, skip) = << >>
    BY <1>5, NothingTrimmed DEF ExtraOf
  <2>2. Page(<< >>, p) = << >>
    BY <1>8, <1>9, PageType
  <2>3. g.data = DataOf(p, SectionsOf(f)) \o << >>
    BY <1>2, <1>5, <1>6, <2>1, <2>2
  <2>4. f.data = DataOf(p, SectionsOf(f)) \o << >>
    BY DEF IsPacked
  <2> QED BY <2>3, <2>4
<1>11. /\ g.hdr.magic = TRUE /\ g.hdr.page_size = f.hdr.page_size
       /\ g.hdr.header_version = f.hdr.header_version
       /\ g.hdr.attrs = f.hdr.attrs /\ g.hdr.dtb_addr = f.hdr.dtb_addr
       /\ g.hdr.recovery_dtbo_offset = f.hdr.recovery_dtbo_offset % Word
  BY <1>1, <1>3, <1>4, HeaderReturns
<1>12. /\ f.hdr.magic = TRUE
       /\ f.hdr.recovery_dtbo_offset % Word = f.hdr.recovery_dtbo_offset
  <2>1. Word \in Nat \ {0} /\ f.hdr.recovery_dtbo_offset < Word /\ f.hdr.magic
    BY LayoutAssumption DEF IsPacked
  <2> QED BY <1>9, <2>1
<1>13. /\ g.hdr.kernel_size = f.hdr.kernel_size /\ g.hdr.ramdisk_size = f.hdr.ramdisk_size
       /\ g.hdr.second_size = f.hdr.second_size
       /\ g.hdr.recovery_dtbo_size = f.hdr.recovery_dtbo_size
       /\ g.hdr.dtb_size = f.hdr.dtb_size
  <2>1. HdrIs(g.hdr, d.meta, SectionsOf(f), IdOf(d.meta.header_version, PartsOf(d)))
    BY <1>1, <1>6
  <2>2. /\ g.hdr.kernel_size = Len(SectionsOf(f).kernel)
        /\ g.hdr.ramdisk_size = Len(SectionsOf(f).ramdisk)
        /\ g.hdr.second_size = Len(SectionsOf(f).second)
        /\ g.hdr.recovery_dtbo_size = Len(SectionsOf(f).recovery_dtbo)
        /\ g.hdr.dtb_size = Len(SectionsOf(f).dtb)
    BY <2>1, Zenon DEF HdrIs
  <2> QED BY <1>7, <1>8, <2>2
<1>14. g.hdr.id = f.hdr.id
  <2>1. g.hdr.id = IdOf(d.meta.header_version, PartsOf(d))
    BY <1>1 DEF HdrIs
  <2>2. f.hdr.id = IdOf(f.hdr.header_version, SectionsOf(f))
    BY DEF IsPacked
  <2> QED BY <1>5, <1>6, <2>1, <2>2
<1> QED BY <1>4, <1>10, <1>11, <1>12, <1>13, <1>14, SameImage

(* An image that bxxt packed, without trailing data, comes back cell for   *)
(* cell when it is unpacked and packed once more: header, id, padding and  *)
(* the order of the archive included.                                      *)
THEOREM SecondRoundTripReturns == Spec => []SecondRoundTrip
<1>1. IInv /\ TripInv => SecondRoundTrip
  <2> DEFINE f == hist.made_from
  <2> SUFFICES ASSUME IInv, TripInv, out.st = "whole", f # NoImage, hist.made_packed,
                      Repackable(f), PadOf(f) = << >>
               PROVE  out.img = f
    BY DEF SecondRoundTrip
  <2>1. CanUnpack(f) /\ IsPacked(f) /\ IsImageOf(out.img, Abs!UnpackOf(f))
    BY DEF TripInv
  <2>2. out.img \in Image
    BY DEF IInv, TypeOK, Out
  <2> HIDE DEF f
  <2> QED BY <2>1, <2>2, PackedReturns
<1>2. Spec => []IInv
  BY InitIInv, NextIInv, PTL DEF Spec
<1> QED BY <1>1, <1>2, TripAlways, PTL

=============================================================================
