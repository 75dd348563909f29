---------------------------- MODULE BootPackProofs ----------------------------
(***************************************************************************)
(* What `bxxt boot pack' makes: step by step the image that BootSpec's     *)
(* PackOf gives for the directory, and, after each of the ways README.md   *)
(* gives to replace the kernel, an image with the new kernel.              *)
(***************************************************************************)
EXTENDS BootSafetyProofs, BootRefinement, FiniteSetTheorems

-----------------------------------------------------------------------------
(* The invariant.                                                          *)

(* What bxxt_boot_compile_fs2blob appended for the first n .dts files.     *)
Trees(files, n) == [i \in 1..n |-> MkCell("dtb", files[i - 1])]

(* An entry of the archive; and the archive when the files in todo are     *)
(* still to come: each entry is at the place its rank among all files      *)
(* gives it.                                                               *)
Entry(e) == [MkCell("cpio", e) EXCEPT !.z = 1]
Below(files, e) == {x \in files : x < e}

Archived(files, todo, tmp) ==
  /\ todo \subseteq files
  /\ \A x \in files \ todo : \A y \in todo : x < y
  /\ Len(tmp) = Cardinality(files \ todo)
  /\ \A i \in 1..Len(tmp) : \E e \in files \ todo :
       tmp[i] = Entry(e) /\ Cardinality(Below(files, e)) = i - 1

(* A section on pages of its own, and the image of the given parts.        *)
Page(s, p) == s \o Cells(AlignExtra(p, Len(s)), Zero)

Upto0(p) == Page(Cells(HdrSize, MkCell("hdr", 0)), p)
Upto1(p, parts) == Upto0(p) \o Page(parts.kernel, p)
Upto2(p, parts) == Upto1(p, parts) \o Page(parts.ramdisk, p)
Upto3(p, parts) == Upto2(p, parts) \o Page(parts.second, p)
Upto4(p, parts) == Upto3(p, parts) \o Page(parts.recovery_dtbo, p)
DataOf(p, parts) == Upto4(p, parts) \o Page(parts.dtb, p)

HdrIs(h, meta, parts, id) ==
  /\ h.magic = TRUE /\ h.header_version = meta.header_version
  /\ h.page_size = meta.page_size
  /\ h.kernel_size = Len(parts.kernel) /\ h.ramdisk_size = Len(parts.ramdisk)
  /\ h.second_size = Len(parts.second)
  /\ h.recovery_dtbo_size = Len(parts.recovery_dtbo) /\ h.dtb_size = Len(parts.dtb)
  /\ h.recovery_dtbo_offset = meta.recovery_dtbo_offset % Word
  /\ h.dtb_addr = meta.dtb_addr % Word /\ h.attrs = meta.attrs /\ h.id = id

IdOf(version, parts) ==
  <<parts.kernel, parts.ramdisk, parts.second>>
    \o (IF version > 0 THEN <<parts.recovery_dtbo>> ELSE << >>)
    \o (IF version > 1 THEN <<parts.dtb>> ELSE << >>)

ExtraOf(d, skip) == IF skip THEN << >> ELSE d.extra

RamdiskArchived == {"p_second", "p_recovery_dtbo", "p_dtb", "p_extra"} \union Finished

(* The sections appended so far are those of the directory, and the buffer *)
(* `tmp' holds the beginning of the next one.                              *)
SectionsInv ==
  /\ pc \in Building \union Finished => MetaReads(dir)
  /\ pc \in {"p_kernel_dts"} \union KernelCompiled => dir.kernel # << >>
  /\ pc \in {"p_cpio"} \union RamdiskArchived => dir.ramdisk_dir
  /\ pc = "p_kernel_dts" =>
       /\ cur.base <= MaxDtb
       /\ cur.tmp = Compressed(dir.kernel, dir.meta.kernel_compression)
                      \o Trees(dir.kernel_dts, cur.base)
  /\ pc \in KernelCompiled =>
       /\ hist.parts.kernel = Abs!KernelSection(dir)
       /\ Abs!DtbsOf(dir.kernel_dts) = DtsCells(dir.kernel_dts)
  /\ pc = "p_cpio" => Archived(dir.ramdisk, cur.todo, cur.tmp)
  /\ pc \in RamdiskArchived => hist.parts.ramdisk = Abs!ArchiveOf(dir.ramdisk)
  /\ pc \in {"p_recovery_dtbo", "p_dtb", "p_extra"} \union Finished =>
       hist.parts.second = dir.second
  /\ pc \in {"p_dtb", "p_extra"} \union Finished =>
       hist.parts.recovery_dtbo = dir.recovery_dtbo
  /\ pc \in {"p_second", "p_recovery_dtbo"} => cur = NoCur
  /\ pc = "p_dtb" => cur.base <= MaxDtb /\ cur.tmp = Trees(dir.dt_dts, cur.base)
  /\ pc \in {"p_extra"} \union Finished => hist.parts.dtb = Abs!DtbsOf(dir.dt_dts)

(* The image in memory is the header of METADATA and these sections.       *)
BufferInv ==
  /\ pc \in Building \union {"p_check"} =>
       HdrIs(img.hdr, dir.meta, hist.parts, << >>)
  /\ pc \in {"p_write", "p_writing"} =>
       HdrIs(img.hdr, dir.meta, hist.parts, IdOf(dir.meta.header_version, hist.parts))
  /\ pc \in Building => img.data = DataOf(dir.meta.page_size, hist.parts)
  /\ pc \in Finished =>
       img.data = DataOf(dir.meta.page_size, hist.parts)
                    \o Page(ExtraOf(dir, opts.skip), dir.meta.page_size)

(* The image of a pack that reported success.                              *)
PackSucceeded == exit.op = "pack" /\ exit.how = "return" /\ exit.r = SUCCESS

ResultInv ==
  PackSucceeded =>
    /\ out = [st |-> "whole", img |-> Abs!PackOf(dir, opts.skip)]
    /\ KernelOf(out.img) = Abs!KernelSection(dir)
    /\ Abs!DtbsOf(dir.kernel_dts) = DtsCells(dir.kernel_dts)

(* The directory after the recipe that the user followed.                  *)
RecipeInv ==
  /\ pc \in UnpackPc => hist.recipe = "none"
  /\ hist.recipe = "Image.gz-dtb" =>
       /\ dir.kernel = NewImage(1) \o <<MkCell("dtb", NewId)>>
       /\ dir.meta.kernel_compression = NONE /\ dir.kernel_dts = NoDts
  /\ hist.recipe = "Image.gz" =>
       dir.kernel = NewImage(1) /\ dir.meta.kernel_compression = NONE
  /\ hist.recipe = "Image" =>
       dir.kernel = NewImage(0) /\ dir.meta.kernel_compression # LZMA

MadeInv ==
  /\ IsFiniteSet(dir.ramdisk)
  /\ SectionsInv /\ BufferInv /\ ResultInv /\ RecipeInv

-----------------------------------------------------------------------------
(* Sequences of cells.                                                     *)

(* A page of cells is a sequence of cells, and nothing takes no page.      *)
LEMMA PageType ==
  ASSUME NEW p \in Nat \ {0}, NEW s \in Seq(Cell)
  PROVE  Page(s, p) \in Seq(Cell) /\ Page(<< >>, p) = << >>
<1>1. Len(s) \in Nat /\ Len(<< >>) = 0
  BY LenProperties, EmptySeq
<1>2. AlignExtra(p, Len(s)) \in Nat
  BY <1>1, AlignExtraType
<1>3. Cells(AlignExtra(p, Len(s)), Zero) \in Seq(Cell)
  BY <1>2, CellsType, ZeroIsCell
<1>4. AlignExtra(p, 0) = 0
  BY AlignIsRoundUp, RoundUpFacts, AlignExtraType
<1>5. Cells(0, Zero) = << >>
  BY CellsType, ZeroIsCell, EmptySeq
<1>6. << >> \o << >> = << >>
  BY ConcatEmptySeq, EmptySeq
<1> QED BY <1>1, <1>3, <1>4, <1>5, <1>6, ConcatProperties DEF Page

(* pad_data adds a section's own pages to a buffer that ends on a page.    *)
LEMMA PadIsPage ==
  ASSUME NEW p \in Nat \ {0}, NEW buff \in Seq(Cell), NEW s \in Seq(Cell),
         Len(buff) % p = 0
  PROVE  pad_data(buff, s, p) = buff \o Page(s, p)
<1>1. Len(buff) \in Nat /\ Len(s) \in Nat /\ Len(buff \o s) = Len(buff) + Len(s)
  BY LenProperties, ConcatProperties
<1>2. AlignExtra(p, Len(buff \o s)) = AlignExtra(p, Len(s))
  BY <1>1, AlignFrom
<1>3. AlignExtra(p, Len(s)) \in Nat
  BY <1>1, AlignExtraType
<1>4. Cells(AlignExtra(p, Len(s)), Zero) \in Seq(Cell)
  BY <1>3, CellsType, ZeroIsCell
<1> QED BY <1>2, <1>4, ConcatAssociative DEF pad_data, bxxt_buffer_align, Page

(* The pages of the header are a sequence of cells.                        *)
LEMMA HdrPage ==
  ASSUME NEW p \in Nat \ {0}
  PROVE  /\ Cells(HdrSize, MkCell("hdr", 0)) \in Seq(Cell)
         /\ Page(Cells(HdrSize, MkCell("hdr", 0)), p) \in Seq(Cell)
         /\ Page(Cells(HdrSize, MkCell("hdr", 0)), p)
              = bxxt_buffer_align(Cells(HdrSize, MkCell("hdr", 0)), p)
<1>1. MkCell("hdr", 0) \in Cell
  BY DEF MkCell, Cell, Kinds
<1>2. Cells(HdrSize, MkCell("hdr", 0)) \in Seq(Cell)
  BY <1>1, CellsType, LayoutAssumption
<1> QED BY <1>2, PageType DEF bxxt_buffer_align, Page

(* What DataOf says of any parts, and of parts of which some are empty.    *)
LEMMA DataOfParts ==
  ASSUME NEW p \in Nat \ {0}, NEW parts \in Parts
  PROVE  /\ Upto0(p) \in Seq(Cell) /\ Upto1(p, parts) \in Seq(Cell)
         /\ Upto2(p, parts) \in Seq(Cell) /\ Upto3(p, parts) \in Seq(Cell)
         /\ Upto4(p, parts) \in Seq(Cell) /\ DataOf(p, parts) \in Seq(Cell)
         /\ parts.kernel = << >> => Upto1(p, parts) = Upto0(p)
         /\ parts.ramdisk = << >> => Upto2(p, parts) = Upto1(p, parts)
         /\ parts.second = << >> => Upto3(p, parts) = Upto2(p, parts)
         /\ parts.recovery_dtbo = << >> => Upto4(p, parts) = Upto3(p, parts)
         /\ parts.dtb = << >> => DataOf(p, parts) = Upto4(p, parts)
<1>0. /\ parts.kernel \in Seq(Cell) /\ parts.ramdisk \in Seq(Cell)
      /\ parts.second \in Seq(Cell) /\ parts.recovery_dtbo \in Seq(Cell)
      /\ parts.dtb \in Seq(Cell)
  BY DEF Parts
<1>1. Upto0(p) \in Seq(Cell)
  BY HdrPage DEF Upto0
<1>2. ASSUME NEW x \in Seq(Cell), NEW s \in Seq(Cell)
      PROVE  x \o Page(s, p) \in Seq(Cell) /\ (s = << >> => x \o Page(s, p) = x)
  <2>1. Page(s, p) \in Seq(Cell) /\ Page(<< >>, p) = << >>
    BY PageType
  <2> QED BY <2>1, ConcatProperties, ConcatEmptySeq
<1>4. /\ Upto1(p, parts) \in Seq(Cell)
      /\ parts.kernel = << >> => Upto1(p, parts) = Upto0(p)
  BY <1>0, <1>1, <1>2 DEF Upto1
<1>5. /\ Upto2(p, parts) \in Seq(Cell)
      /\ parts.ramdisk = << >> => Upto2(p, parts) = Upto1(p, parts)
  BY <1>0, <1>4, <1>2 DEF Upto2
<1>6. /\ Upto3(p, parts) \in Seq(Cell)
      /\ parts.second = << >> => Upto3(p, parts) = Upto2(p, parts)
  BY <1>0, <1>5, <1>2 DEF Upto3
<1>7. /\ Upto4(p, parts) \in Seq(Cell)
      /\ parts.recovery_dtbo = << >> => Upto4(p, parts) = Upto3(p, parts)
  BY <1>0, <1>6, <1>2 DEF Upto4
<1>8. /\ DataOf(p, parts) \in Seq(Cell)
      /\ parts.dtb = << >> => DataOf(p, parts) = Upto4(p, parts)
  BY <1>0, <1>7, <1>2 DEF DataOf
<1> QED BY <1>1, <1>4, <1>5, <1>6, <1>7, <1>8

-----------------------------------------------------------------------------
(* BootSpec's functions in the words of this module.                       *)

LEMMA AbsCardinality == ASSUME NEW S PROVE Abs!Cardinality(S) = Cardinality(S)
  BY DEF Abs!Cardinality, Cardinality

LEMMA AbsDtsRun ==
  ASSUME NEW files
  PROVE  Abs!DtsRun(files) = {i \in DtIndex : \A j \in 0..i : files[j] # MISSING}
  BY DEF Abs!DtsRun, Abs!DtIndex, Abs!MISSING, DtIndex, MISSING

LEMMA AbsDtbsOf ==
  ASSUME NEW files
  PROVE  Abs!DtbsOf(files) = Trees(files, Cardinality(Abs!DtsRun(files)))
  BY AbsCardinality DEF Abs!DtbsOf, Abs!MkCell, Trees, MkCell

LEMMA AbsArchiveOf ==
  ASSUME NEW files
  PROVE  Abs!ArchiveOf(files)
           = [i \in 1..Cardinality(files) |->
                Entry(CHOOSE e \in files : Cardinality(Below(files, e)) = i - 1)]
  BY DEF Abs!ArchiveOf, Abs!MkCell, Abs!Cardinality, Cardinality, Entry, Below, MkCell

LEMMA AbsKernelSection ==
  ASSUME NEW d
  PROVE  Abs!KernelSection(d)
           = Compressed(d.kernel, d.meta.kernel_compression) \o Abs!DtbsOf(d.kernel_dts)
  BY DEF Abs!KernelSection, Abs!Gzip, Abs!GZIP, Abs!NONE, Gzip, Compressed, GZIP, NONE

(* The parts of the image of a directory, and that image.                  *)
PartsOf(d) ==
  [kernel |-> Abs!KernelSection(d), ramdisk |-> Abs!ArchiveOf(d.ramdisk),
   second |-> d.second, recovery_dtbo |-> d.recovery_dtbo,
   dtb |-> Abs!DtbsOf(d.dt_dts)]

LEMMA AbsPackOf ==
  ASSUME NEW d, NEW skip \in BOOLEAN, NEW f \in Image,
         HdrIs(f.hdr, d.meta, PartsOf(d), IdOf(d.meta.header_version, PartsOf(d))),
         f.data = DataOf(d.meta.page_size, PartsOf(d))
                    \o Page(ExtraOf(d, skip), d.meta.page_size)
  PROVE  f = Abs!PackOf(d, skip)
<1> DEFINE parts == PartsOf(d)
           id == IdOf(d.meta.header_version, parts)
           data == DataOf(d.meta.page_size, parts)
                     \o Page(ExtraOf(d, skip), d.meta.page_size)
           h == [magic |-> TRUE, header_version |-> d.meta.header_version,
                 page_size |-> d.meta.page_size,
                 kernel_size |-> Len(parts.kernel), ramdisk_size |-> Len(parts.ramdisk),
                 second_size |-> Len(parts.second),
                 recovery_dtbo_size |-> Len(parts.recovery_dtbo),
                 dtb_size |-> Len(parts.dtb),
                 recovery_dtbo_offset |-> d.meta.recovery_dtbo_offset % Word,
                 dtb_addr |-> d.meta.dtb_addr % Word, attrs |-> d.meta.attrs, id |-> id]
<1>1. Abs!PackOf(d, skip) = [hdr |-> h, data |-> data]
  BY DEF Abs!PackOf, Abs!Cells, Abs!AlignExtra, Abs!Zero, Abs!MkCell, IdOf, DataOf,
    Upto0, Upto1, Upto2, Upto3, Upto4, Page, PartsOf, ExtraOf, Cells, AlignExtra, Zero, MkCell
<1>2. f = [hdr |-> f.hdr, data |-> f.data] /\ f.hdr \in Hdr
  BY DEF Image
<1> HIDE DEF parts, id, data
<1>3. f.hdr = [magic |-> f.hdr.magic, header_version |-> f.hdr.header_version,
               page_size |-> f.hdr.page_size, kernel_size |-> f.hdr.kernel_size,
               ramdisk_size |-> f.hdr.ramdisk_size, second_size |-> f.hdr.second_size,
               recovery_dtbo_size |-> f.hdr.recovery_dtbo_size,
               dtb_size |-> f.hdr.dtb_size,
               recovery_dtbo_offset |-> f.hdr.recovery_dtbo_offset,
               dtb_addr |-> f.hdr.dtb_addr, attrs |-> f.hdr.attrs, id |-> f.hdr.id]
  BY <1>2 DEF Hdr
<1>4. HdrIs(f.hdr, d.meta, parts, id)
  BY DEF parts, id
<1>5. f.hdr = h
  BY <1>3, <1>4, Zenon DEF HdrIs
<1>6. f.data = data
  BY DEF data, parts
<1> HIDE DEF h
<1> QED BY <1>1, <1>2, <1>5, <1>6

-----------------------------------------------------------------------------
(* The device trees that are compiled.                                     *)

(* When the loop of bxxt_boot_compile_fs2blob ends at n, the first n files *)
(* are the ones before the first missing one.                              *)
LEMMA TreesAll ==
  ASSUME NEW files \in [DtIndex -> Dts], NEW n \in Nat, n <= MaxDtb,
         Compiled(files, n), LastDts(files, n)
  PROVE  /\ Abs!DtsRun(files) = 0..(n - 1)
         /\ Abs!DtbsOf(files) = Trees(files, n)
         /\ DtsCells(files) = Trees(files, n)
<1>1. MaxDtb \in Nat /\ DtIndex = 0..(MaxDtb - 1)
  BY DirAssumption DEF DtIndex
<1>2. \A i \in 0..(n - 1) : i \in DtIndex /\ files[i] # MISSING
  BY <1>1 DEF Compiled, MISSING
<1>3. n < MaxDtb => files[n] = MISSING
  BY DEF LastDts
<1>4. Abs!DtsRun(files) = 0..(n - 1)
  <2>1. ASSUME NEW i \in 0..(n - 1) PROVE i \in Abs!DtsRun(files)
    <3>1. \A j \in 0..i : j \in 0..(n - 1)
      OBVIOUS
    <3> QED BY <1>2, <3>1, AbsDtsRun
  <2>2. ASSUME NEW i \in Abs!DtsRun(files) PROVE i \in 0..(n - 1)
    <3>1. i \in 0..(MaxDtb - 1) /\ \A j \in 0..i : files[j] # MISSING
      BY <1>1, AbsDtsRun
    <3>2. ~(n <= i)
      BY <1>1, <1>3, <3>1
    <3> QED BY <1>1, <3>1, <3>2
  <2> QED BY <2>1, <2>2
<1>5. Cardinality(0..(n - 1)) = n
  BY FS_Interval
<1>6. Abs!DtbsOf(files) = Trees(files, n)
  BY <1>4, <1>5, AbsDtbsOf
<1>7. DtsCells(files) = Trees(files, n)
  <2> DEFINE P(m) == LastDts(files, m) /\ \A i \in 0..(m - 1) : ~LastDts(files, i)
             c == CHOOSE m \in 0..MaxDtb : P(m)
  <2>1. \A i \in 0..(n - 1) : ~LastDts(files, i)
    BY <1>1, <1>2 DEF LastDts
  <2>2. n \in 0..MaxDtb /\ P(n)
    BY <1>1, <2>1
  <2>3. \A m \in 0..MaxDtb : P(m) => m = n
    <3> SUFFICES ASSUME NEW m \in 0..MaxDtb, P(m) PROVE m = n
      OBVIOUS
    <3>1. ~(m < n)
      BY <2>1
    <3>2. ~(n < m)
      <4> SUFFICES ASSUME n < m PROVE FALSE
        OBVIOUS
      <4>1. n \in 0..(m - 1)
        OBVIOUS
      <4> QED BY <4>1
    <3> QED BY <3>1, <3>2
  <2> HIDE DEF P
  <2>4. c = n
    BY <2>2, <2>3
  <2>5. DtsCells(files) = Trees(files, c)
    BY DEF DtsCells, Trees, P
  <2> HIDE DEF c
  <2> QED BY <2>4, <2>5
<1> QED BY <1>4, <1>6, <1>7

(* One more file.                                                          *)
LEMMA TreesNext ==
  ASSUME NEW files \in [DtIndex -> Dts], NEW n \in Nat, n < MaxDtb,
         Compiled(files, n), files[n] \in Nat
  PROVE  /\ Trees(files, n) \in Seq(Cell) /\ MkCell("dtb", files[n]) \in Cell
         /\ Trees(files, n + 1) = Append(Trees(files, n), MkCell("dtb", files[n]))
<1>1. MaxDtb \in Nat /\ DtIndex = 0..(MaxDtb - 1)
  BY DirAssumption DEF DtIndex
<1>2. \A m \in Nat : MkCell("dtb", m) \in Cell
  BY DEF MkCell, Cell, Kinds
<1>3. \A i \in 0..n : files[i] \in Nat
  BY <1>1 DEF Compiled
<1>4. \A m \in {n, n + 1} : Trees(files, m) \in Seq(Cell) /\ Len(Trees(files, m)) = m
  <2> SUFFICES ASSUME NEW m \in {n, n + 1}
               PROVE  Trees(files, m) \in Seq(Cell) /\ Len(Trees(files, m)) = m
    OBVIOUS
  <2>1. m \in Nat /\ \A i \in 1..m : i - 1 \in 0..n
    OBVIOUS
  <2>2. Trees(files, m) \in [1..m -> Cell]
    BY <1>2, <1>3, <2>1 DEF Trees
  <2> QED BY <2>1, <2>2
<1> DEFINE t == Trees(files, n)
           u == Trees(files, n + 1)
           e == MkCell("dtb", files[n])
<1>5. \A i \in 1..n : u[i] = t[i]
  BY DEF Trees
<1>6. u[n + 1] = e
  BY DEF Trees
<1>7. t \in Seq(Cell) /\ u \in Seq(Cell) /\ Len(t) = n /\ Len(u) = n + 1 /\ e \in Cell
  BY <1>2, <1>3, <1>4
<1> HIDE DEF t, u, e
<1>8. u = Append(t, e)
  BY <1>5, <1>6, <1>7
<1> QED BY <1>7, <1>8 DEF t, u, e

(* Before the first file there is nothing.                                 *)
LEMMA TreesNone == ASSUME NEW files PROVE Trees(files, 0) = << >>
  BY DEF Trees

-----------------------------------------------------------------------------
(* The archive of the ramdisk.                                             *)

(* A file is found by how many are below it.                               *)
LEMMA RankUnique ==
  ASSUME NEW files \in SUBSET Nat, IsFiniteSet(files), NEW e \in files, NEW f \in files,
         Cardinality(Below(files, e)) = Cardinality(Below(files, f))
  PROVE  e = f
<1>1. ASSUME NEW x \in files, NEW y \in files, x < y
      PROVE  Cardinality(Below(files, x)) < Cardinality(Below(files, y))
  <2>1. IsFiniteSet(Below(files, x)) /\ IsFiniteSet(Below(files, y))
    BY FS_Subset DEF Below
  <2>2. x \notin Below(files, x) /\ Below(files, x) \union {x} \subseteq Below(files, y)
    <3>1. \A z \in files : z \in Nat
      OBVIOUS
    <3>2. \A z \in Below(files, x) : z < y
      BY <1>1, <3>1 DEF Below
    <3>3. \A z \in Below(files, x) : z \in Below(files, y)
      BY <3>2 DEF Below
    <3>4. x \in Below(files, y) /\ x \notin Below(files, x)
      BY <1>1, <3>1 DEF Below
    <3> QED BY <3>3, <3>4
  <2>3. Cardinality(Below(files, x) \union {x}) = Cardinality(Below(files, x)) + 1
    BY <2>1, <2>2, FS_AddElement
  <2>4. Cardinality(Below(files, x) \union {x}) <= Cardinality(Below(files, y))
    BY <2>1, <2>2, FS_Subset
  <2>5. Cardinality(Below(files, x)) \in Nat /\ Cardinality(Below(files, y)) \in Nat
    BY <2>1, FS_CardinalityType
  <2> QED BY <2>3, <2>4, <2>5
<1>2. Cardinality(Below(files, e)) \in Nat
  BY FS_Subset, FS_CardinalityType DEF Below
<1>3. ~(e < f) /\ ~(f < e)
  BY <1>1, <1>2
<1> QED BY <1>3

(* The archive begins empty, the least file comes next, and when none is   *)
(* left it is the archive of all files.                                    *)
LEMMA ArchiveBegins ==
  ASSUME NEW files
  PROVE  Archived(files, files, << >>)
<1>1. files \ files = {} /\ Len(<< >>) = 0
  BY EmptySeq
<1> QED BY <1>1, FS_EmptySet DEF Archived

LEMMA EntryType == ASSUME NEW e \in Nat PROVE Entry(e) \in Cell
  BY DEF Entry, MkCell, Cell, Kinds

LEMMA ArchiveNext ==
  ASSUME NEW files \in SUBSET Nat, IsFiniteSet(files), NEW todo, NEW tmp \in Seq(Cell),
         Archived(files, todo, tmp), NEW e \in todo, \A other \in todo : e <= other
  PROVE  Archived(files, todo \ {e}, Append(tmp, Entry(e)))
<1> DEFINE done == files \ todo
           new == Append(tmp, Entry(e))
<1>1. /\ todo \subseteq files /\ \A x \in done : \A y \in todo : x < y
      /\ Len(tmp) = Cardinality(done)
      /\ \A i \in 1..Len(tmp) : \E x \in done :
           tmp[i] = Entry(x) /\ Cardinality(Below(files, x)) = i - 1
  BY DEF Archived
<1>2. e \in Nat /\ e \in files /\ e \notin done /\ done \subseteq files
  BY <1>1
<1>3. files \ (todo \ {e}) = done \union {e}
  BY <1>2
<1>4. Below(files, e) = done
  <2>1. \A x \in files : x \in Nat
    OBVIOUS
  <2>2. \A x \in files : x < e <=> x \in done
    BY <1>1, <1>2, <2>1
  <2> QED BY <1>2, <2>2 DEF Below
<1>5. /\ new \in Seq(Cell) /\ Len(new) = Len(tmp) + 1 /\ Len(tmp) \in Nat
      /\ \A i \in 1..Len(tmp) : new[i] = tmp[i]
      /\ new[Len(tmp) + 1] = Entry(e)
  BY <1>2, EntryType, AppendProperties, LenProperties
<1>6. Cardinality(done \union {e}) = Cardinality(done) + 1
  BY <1>2, FS_Subset, FS_AddElement
<1> HIDE DEF done, new
<1>7. \A x \in done \union {e} : \A y \in todo \ {e} : x < y
  BY <1>1, <1>2
<1>8. ASSUME NEW i \in 1..Len(new)
      PROVE  \E x \in done \union {e} :
               new[i] = Entry(x) /\ Cardinality(Below(files, x)) = i - 1
  <2>1. CASE i = Len(tmp) + 1
    BY <1>1, <1>4, <1>5, <2>1
  <2>2. CASE i # Len(tmp) + 1
    <3>1. i \in 1..Len(tmp)
      BY <1>5, <2>2
    <3> QED BY <1>1, <1>5, <3>1
  <2> QED BY <2>1, <2>2
<1> QED BY <1>1, <1>3, <1>5, <1>6, <1>7, <1>8 DEF Archived, done, new

LEMMA ArchiveEnds ==
  ASSUME NEW files \in SUBSET Nat, IsFiniteSet(files), NEW tmp \in Seq(Cell),
         Archived(files, {}, tmp)
  PROVE  tmp = Abs!ArchiveOf(files)
<1>1. files \ {} = files
  OBVIOUS
<1>2. /\ Len(tmp) = Cardinality(files)
      /\ \A i \in 1..Len(tmp) : \E e \in files :
           tmp[i] = Entry(e) /\ Cardinality(Below(files, e)) = i - 1
  BY <1>1 DEF Archived
<1>3. ASSUME NEW i \in 1..Len(tmp)
      PROVE  tmp[i] = Entry(CHOOSE e \in files : Cardinality(Below(files, e)) = i - 1)
  <2>1. PICK e \in files : tmp[i] = Entry(e) /\ Cardinality(Below(files, e)) = i - 1
    BY <1>2
  <2>2. \A f \in files : Cardinality(Below(files, f)) = i - 1 => f = e
    BY <2>1, RankUnique
  <2>3. (CHOOSE f \in files : Cardinality(Below(files, f)) = i - 1) = e
    BY <2>1, <2>2
  <2> QED BY <2>1, <2>3
<1>4. Abs!ArchiveOf(files)
        = [i \in 1..Cardinality(files) |->
             Entry(CHOOSE e \in files : Cardinality(Below(files, e)) = i - 1)]
  BY AbsArchiveOf
<1>5. tmp = [i \in 1..Len(tmp) |-> tmp[i]]
  BY LenProperties
<1> QED BY <1>2, <1>3, <1>4, <1>5

-----------------------------------------------------------------------------
(* Steps that do not touch what pack holds.                                *)

(* No pack runs, or it has not read METADATA yet.                          *)
LEMMA SectionsVoid ==
  ASSUME pc' \notin PackPc \/ pc' = "p_meta"
  PROVE  SectionsInv' /\ BufferInv'
  BY DEF SectionsInv, BufferInv, PackPc, Building, Finished, KernelCompiled, RamdiskArchived

(* A step of pack that goes on.                                            *)
LEMMA PackGoesOn ==
  ASSUME OutputInv, MadeInv, pc \in PackPc, pc' \in PackPc, UNCHANGED <<dir, exit>>,
         hist'.recipe = hist.recipe, SectionsInv', BufferInv'
  PROVE  MadeInv'
<1>1. ~PackSucceeded'
  BY DEF OutputInv, PackSucceeded
<1>2. RecipeInv'
  BY DEF MadeInv, RecipeInv, PackPc, UnpackPc
<1> QED BY <1>1, <1>2 DEF MadeInv, ResultInv

(* A command that ends without a new image.                                *)
LEMMA CommandFails ==
  ASSUME IInv, OutputInv, MadeInv, NEW how, NEW r, Leave(how, r), UNCHANGED <<dir, hist>>,
         ~(how = "return" /\ r = SUCCESS)
  PROVE  MadeInv'
<1>1. exit' = [exit EXCEPT !.how = how, !.r = r] /\ exit \in Exit /\ pc' = "idle"
  BY DEF Leave, IInv, TypeOK
<1>2. ~PackSucceeded'
  BY <1>1 DEF PackSucceeded, Exit
<1>3. SectionsInv' /\ BufferInv'
  BY <1>1, SectionsVoid DEF PackPc
<1>4. RecipeInv'
  BY <1>1 DEF MadeInv, RecipeInv, UnpackPc
<1> QED BY <1>2, <1>3, <1>4 DEF MadeInv, ResultInv

(* The values that the steps of pack work on.                              *)
LEMMA PackTypes ==
  ASSUME IInv
  PROVE  /\ dir \in Dir /\ dir.meta \in Meta /\ dir.kernel \in Seq(Cell)
         /\ dir.second \in Seq(Cell) /\ dir.recovery_dtbo \in Seq(Cell)
         /\ dir.extra \in Seq(Cell) /\ dir.ramdisk \in SUBSET Nat
         /\ dir.meta.page_size \in Nat \ {0}
         /\ dir.meta.kernel_compression \in Compressions
         /\ img \in Image /\ img.hdr \in Hdr /\ img.data \in Seq(Cell)
         /\ cur.tmp \in Seq(Cell) /\ cur.todo \in SUBSET Nat
         /\ hist \in Hist /\ hist.parts \in Parts /\ hist.recipe \in Recipes
         /\ opts.skip \in BOOLEAN
<1>1. /\ dir \in Dir /\ img \in Image /\ cur \in Cur /\ hist \in Hist /\ opts \in Opts
  BY DEF IInv, TypeOK
<1>2. dir.meta \in Meta
  BY <1>1 DEF Dir
<1> QED BY <1>1, <1>2 DEF Dir, Meta, Image, Cur, Hist, Opts

-----------------------------------------------------------------------------
(* The sections, one after the other.                                      *)

(* The given part and those after it are still empty.                      *)
NoneFrom(parts, part) ==
  /\ part \in {"kernel"} => parts.kernel = << >>
  /\ part \in {"kernel", "ramdisk"} => parts.ramdisk = << >>
  /\ part \in {"kernel", "ramdisk", "second"} => parts.second = << >>
  /\ part \in {"kernel", "ramdisk", "second", "recovery_dtbo"} => parts.recovery_dtbo = << >>
  /\ part \in {"kernel", "ramdisk", "second", "recovery_dtbo", "dtb"} => parts.dtb = << >>

(* Appending a section to the image of some parts gives the image of these *)
(* parts and that section.                                                 *)
LEMMA DataAdd ==
  ASSUME NEW p \in Nat \ {0}, NEW parts \in Parts, NEW s \in Seq(Cell),
         Len(DataOf(p, parts)) % p = 0,
         NEW part \in {"kernel", "ramdisk", "second", "recovery_dtbo", "dtb"},
         NoneFrom(parts, part)
  PROVE  pad_data(DataOf(p, parts), s, p) = DataOf(p, WithPart(parts, part, s))
<1> DEFINE q == WithPart(parts, part, s)
<1>1. /\ q \in Parts /\ q[part] = s
      /\ \A f \in {"kernel", "ramdisk", "second", "recovery_dtbo", "dtb"} :
           f # part => q[f] = parts[f]
  BY DEF WithPart, Parts
<1>2. /\ DataOf(p, parts) \in Seq(Cell)
      /\ parts.kernel = << >> => Upto1(p, parts) = Upto0(p)
      /\ parts.ramdisk = << >> => Upto2(p, parts) = Upto1(p, parts)
      /\ parts.second = << >> => Upto3(p, parts) = Upto2(p, parts)
      /\ parts.recovery_dtbo = << >> => Upto4(p, parts) = Upto3(p, parts)
      /\ parts.dtb = << >> => DataOf(p, parts) = Upto4(p, parts)
  BY DataOfParts
<1> HIDE DEF q
<1>3. /\ q.ramdisk = << >> => Upto2(p, q) = Upto1(p, q)
      /\ q.second = << >> => Upto3(p, q) = Upto2(p, q)
      /\ q.recovery_dtbo = << >> => Upto4(p, q) = Upto3(p, q)
      /\ q.dtb = << >> => DataOf(p, q) = Upto4(p, q)
  BY <1>1, DataOfParts
<1>4. pad_data(DataOf(p, parts), s, p) = DataOf(p, parts) \o Page(s, p)
  BY <1>2, PadIsPage
<1>5. CASE part = "kernel"
  <2>1. DataOf(p, parts) = Upto0(p)
    BY <1>2, <1>5 DEF NoneFrom
  <2>4. Upto1(p, q) = Upto0(p) \o Page(s, p)
    BY <1>1, <1>5 DEF Upto1
  <2>5. q.ramdisk = << >> /\ q.second = << >> /\ q.recovery_dtbo = << >> /\ q.dtb = << >>
    BY <1>1, <1>5 DEF NoneFrom
  <2>6. DataOf(p, q) = Upto1(p, q)
    BY <1>3, <2>5
  <2> QED BY <1>4, <2>1, <2>4, <2>6 DEF q
<1>6. CASE part = "ramdisk"
  <2>1. DataOf(p, parts) = Upto1(p, parts)
    BY <1>2, <1>6 DEF NoneFrom
  <2>2. q.kernel = parts.kernel
    BY <1>1, <1>6
  <2>3. Upto1(p, q) = Upto1(p, parts)
    BY <2>2 DEF Upto1
  <2>4. Upto2(p, q) = Upto1(p, parts) \o Page(s, p)
    BY <1>1, <1>6, <2>3 DEF Upto2
  <2>5. q.second = << >> /\ q.recovery_dtbo = << >> /\ q.dtb = << >>
    BY <1>1, <1>6 DEF NoneFrom
  <2>6. DataOf(p, q) = Upto2(p, q)
    BY <1>3, <2>5
  <2> QED BY <1>4, <2>1, <2>4, <2>6 DEF q
<1>7. CASE part = "second"
  <2>1. DataOf(p, parts) = Upto2(p, parts)
    BY <1>2, <1>7 DEF NoneFrom
  <2>2. q.kernel = parts.kernel /\ q.ramdisk = parts.ramdisk
    BY <1>1, <1>7
  <2>3. Upto2(p, q) = Upto2(p, parts)
    BY <2>2 DEF Upto1, Upto2
  <2>4. Upto3(p, q) = Upto2(p, parts) \o Page(s, p)
    BY <1>1, <1>7, <2>3 DEF Upto3
  <2>5. q.recovery_dtbo = << >> /\ q.dtb = << >>
    BY <1>1, <1>7 DEF NoneFrom
  <2>6. DataOf(p, q) = Upto3(p, q)
    BY <1>3, <2>5
  <2> QED BY <1>4, <2>1, <2>4, <2>6 DEF q
<1>8. CASE part = "recovery_dtbo"
  <2>1. DataOf(p, parts) = Upto3(p, parts)
    BY <1>2, <1>8 DEF NoneFrom
  <2>2. /\ q.kernel = parts.kernel /\ q.ramdisk = parts.ramdisk
        /\ q.second = parts.second
    BY <1>1, <1>8
  <2>3. Upto3(p, q) = Upto3(p, parts)
    BY <2>2 DEF Upto1, Upto2, Upto3
  <2>4. Upto4(p, q) = Upto3(p, parts) \o Page(s, p)
    BY <1>1, <1>8, <2>3 DEF Upto4
  <2>5. q.dtb = << >>
    BY <1>1, <1>8 DEF NoneFrom
  <2>6. DataOf(p, q) = Upto4(p, q)
    BY <1>3, <2>5
  <2> QED BY <1>4, <2>1, <2>4, <2>6 DEF q
<1>9. CASE part = "dtb"
  <2>1. DataOf(p, parts) = Upto4(p, parts)
    BY <1>2, <1>9 DEF NoneFrom
  <2>2. /\ q.kernel = parts.kernel /\ q.ramdisk = parts.ramdisk
        /\ q.second = parts.second /\ q.recovery_dtbo = parts.recovery_dtbo
    BY <1>1, <1>9
  <2>3. Upto4(p, q) = Upto4(p, parts)
    BY <2>2 DEF Upto1, Upto2, Upto3, Upto4
  <2>4. DataOf(p, q) = Upto4(p, parts) \o Page(s, p)
    BY <1>1, <1>9, <2>3 DEF DataOf
  <2> QED BY <1>4, <2>1, <2>4 DEF q
<1> QED BY <1>5, <1>6, <1>7, <1>8, <1>9

(* The header after a section: its size is stored.                         *)
LEMMA HdrAdd ==
  ASSUME NEW h \in Hdr, NEW meta, NEW parts \in Parts, NEW s \in Seq(Cell),
         HdrIs(h, meta, parts, << >>)
  PROVE
    /\ HdrIs([h EXCEPT !.kernel_size = Len(s)], meta, WithPart(parts, "kernel", s), << >>)
    /\ HdrIs([h EXCEPT !.ramdisk_size = Len(s)], meta, WithPart(parts, "ramdisk", s), << >>)
    /\ HdrIs([h EXCEPT !.second_size = Len(s)], meta, WithPart(parts, "second", s), << >>)
    /\ HdrIs([h EXCEPT !.recovery_dtbo_size = Len(s)], meta,
             WithPart(parts, "recovery_dtbo", s), << >>)
    /\ HdrIs([h EXCEPT !.dtb_size = Len(s)], meta, WithPart(parts, "dtb", s), << >>)
<1>0. \A part \in {"kernel", "ramdisk", "second", "recovery_dtbo", "dtb"} :
        /\ WithPart(parts, part, s)[part] = s
        /\ \A f \in {"kernel", "ramdisk", "second", "recovery_dtbo", "dtb"} :
             f # part => WithPart(parts, part, s)[f] = parts[f]
  BY DEF WithPart, Parts
<1>1. HdrIs([h EXCEPT !.kernel_size = Len(s)], meta, WithPart(parts, "kernel", s), << >>)
  BY <1>0 DEF HdrIs, Hdr
<1>2. HdrIs([h EXCEPT !.ramdisk_size = Len(s)], meta, WithPart(parts, "ramdisk", s), << >>)
  BY <1>0 DEF HdrIs, Hdr
<1>3. HdrIs([h EXCEPT !.second_size = Len(s)], meta, WithPart(parts, "second", s), << >>)
  BY <1>0 DEF HdrIs, Hdr
<1>4. HdrIs([h EXCEPT !.recovery_dtbo_size = Len(s)], meta,
            WithPart(parts, "recovery_dtbo", s), << >>)
  BY <1>0 DEF HdrIs, Hdr
<1>5. HdrIs([h EXCEPT !.dtb_size = Len(s)], meta, WithPart(parts, "dtb", s), << >>)
  BY <1>0 DEF HdrIs, Hdr
<1> QED BY <1>1, <1>2, <1>3, <1>4, <1>5

(* The sections that bxxt_boot_pack_all has not come to are empty.         *)
LEMMA Unfilled ==
  ASSUME IInv
  PROVE  /\ pc \in {"p_kernel", "p_kernel_dts"} => NoneFrom(hist.parts, "kernel")
         /\ pc \in {"p_ramdisk", "p_cpio"} => NoneFrom(hist.parts, "ramdisk")
         /\ pc = "p_second" => NoneFrom(hist.parts, "second")
         /\ pc = "p_recovery_dtbo" => NoneFrom(hist.parts, "recovery_dtbo")
         /\ pc = "p_dtb" => NoneFrom(hist.parts, "dtb")
<1> DEFINE p == hist.parts
<1>1. /\ p.kernel \in Seq(Cell) /\ p.ramdisk \in Seq(Cell) /\ p.second \in Seq(Cell)
      /\ p.recovery_dtbo \in Seq(Cell) /\ p.dtb \in Seq(Cell)
  BY PackTypes DEF Parts
<1>2. pc \in Building => Recorded(img, p)
  BY DEF IInv, Packing
<1>3. Unwritten
  BY DEF IInv, Packing
<1> HIDE DEF p
<1>4. /\ Len(p.kernel) = 0 => p.kernel = << >>
      /\ Len(p.ramdisk) = 0 => p.ramdisk = << >>
      /\ Len(p.second) = 0 => p.second = << >>
      /\ Len(p.recovery_dtbo) = 0 => p.recovery_dtbo = << >>
      /\ Len(p.dtb) = 0 => p.dtb = << >>
  BY <1>1, EmptyLen
<1>5. pc \in Building =>
        /\ img.hdr.kernel_size = 0 => p.kernel = << >>
        /\ img.hdr.ramdisk_size = 0 => p.ramdisk = << >>
        /\ img.hdr.second_size = 0 => p.second = << >>
        /\ img.hdr.recovery_dtbo_size = 0 => p.recovery_dtbo = << >>
        /\ img.hdr.dtb_size = 0 => p.dtb = << >>
  BY <1>2, <1>4 DEF Recorded
<1> QED BY <1>3, <1>5 DEF Unwritten, Building, NoneFrom, p

(* A section is appended to the image in memory.                           *)
LEMMA BufferAdd ==
  ASSUME IInv, BufferInv, pc \in Building, pc' \in Building, UNCHANGED <<dir, opts>>,
         NEW part \in {"kernel", "ramdisk", "second", "recovery_dtbo", "dtb"},
         NEW s \in Seq(Cell), NoneFrom(hist.parts, part),
         img'.data = pad_data(img.data, s, img.hdr.page_size),
         hist'.parts = WithPart(hist.parts, part, s),
         HdrIs(img'.hdr, dir.meta, hist'.parts, << >>)
  PROVE  BufferInv'
<1>1. /\ HdrIs(img.hdr, dir.meta, hist.parts, << >>)
      /\ img.data = DataOf(dir.meta.page_size, hist.parts)
  BY DEF BufferInv
<1>2. img.hdr.page_size = dir.meta.page_size /\ dir.meta.page_size \in Nat \ {0}
  BY <1>1, PackTypes DEF HdrIs
<1>3. Len(img.data) % dir.meta.page_size = 0
  BY <1>2 DEF IInv, Packing, PageEnd
<1>4. hist.parts \in Parts
  BY PackTypes
<1>5. img'.data = DataOf(dir.meta.page_size, hist'.parts)
  BY <1>1, <1>2, <1>3, <1>4, DataAdd
<1> QED BY <1>5 DEF BufferInv, Building, Finished

(* Nothing is appended.                                                    *)
LEMMA BufferSame ==
  ASSUME BufferInv, pc \in Building, pc' \in Building, UNCHANGED <<dir, opts, img>>,
         hist'.parts = hist.parts
  PROVE  BufferInv'
  BY DEF BufferInv, Building, Finished

-----------------------------------------------------------------------------
(* The steps of pack.                                                      *)

(* PackMeta: the header of METADATA, on a page of its own.                 *)
LEMMA MadePackMeta ==
  ASSUME IInv, OutputInv, MadeInv, PackMeta
  PROVE  MadeInv'
<1>1. CASE Leave("return", FAILED) /\ UNCHANGED hist
  BY <1>1, CommandFails DEF PackMeta, disk, SUCCESS, FAILED
<1>2. CASE ~(Leave("return", FAILED) /\ UNCHANGED hist)
  <2>1. /\ pc = "p_meta" /\ pc' = "p_kernel" /\ MetaReads(dir) /\ UNCHANGED <<dir, exit>>
        /\ img' = [hdr |-> bxxt_boot_hdr_from_metadata(dir.meta),
                   data |-> bxxt_buffer_align(Cells(HdrSize, MkCell("hdr", 0)),
                                              dir.meta.page_size)]
        /\ hist' = [hist EXCEPT !.parts = NoParts]
    BY <1>2 DEF PackMeta, Goto, disk
  <2>2. hist'.parts = NoParts /\ hist'.recipe = hist.recipe
    BY <2>1, PackTypes DEF Hist
  <2>3. HdrIs(img'.hdr, dir.meta, NoParts, << >>)
    <3>1. Len(<< >>) = 0
      BY EmptySeq
    <3> QED BY <2>1, <3>1 DEF HdrIs, bxxt_boot_hdr_from_metadata, NoParts
  <2>4. img'.data = DataOf(dir.meta.page_size, NoParts)
    <3> DEFINE p == dir.meta.page_size
    <3>1. p \in Nat \ {0} /\ NoParts \in Parts
      BY PackTypes, NoValues
    <3>2. img'.data = Upto0(p)
      BY <2>1, <3>1, HdrPage DEF Upto0
    <3> HIDE DEF p
    <3>3. DataOf(p, NoParts) = Upto0(p)
      BY <3>1, DataOfParts DEF NoParts
    <3> QED BY <3>2, <3>3 DEF p
  <2>5. BufferInv'
    BY <2>1, <2>2, <2>3, <2>4 DEF BufferInv, Building, Finished
  <2>6. SectionsInv'
    BY <2>1 DEF SectionsInv, Building, Finished, KernelCompiled, RamdiskArchived
  <2> QED BY <2>1, <2>2, <2>5, <2>6, PackGoesOn DEF PackPc
<1> QED BY <1>1, <1>2

(* PackKernel: the kernel file, compressed as METADATA says.               *)
LEMMA MadePackKernel ==
  ASSUME IInv, OutputInv, MadeInv, PackKernel
  PROVE  MadeInv'
<1>1. CASE Leave("return", FAILED)
  BY <1>1, CommandFails DEF PackKernel, disk, SUCCESS, FAILED
<1>2. CASE ~Leave("return", FAILED)
  <2>1. /\ pc = "p_kernel" /\ pc' = "p_kernel_dts" /\ dir.kernel # << >>
        /\ UNCHANGED <<dir, opts, exit, img, hist>>
        /\ cur' = [NoCur EXCEPT !.tmp = Compressed(dir.kernel, dir.meta.kernel_compression)]
    BY <1>2 DEF PackKernel, Goto, disk
  <2> DEFINE c == Compressed(dir.kernel, dir.meta.kernel_compression)
  <2>2. c \in Seq(Cell)
    BY <2>1, PackTypes, CompressedType
  <2> HIDE DEF c
  <2>3. cur'.base = 0 /\ cur'.tmp = c
    BY <2>1 DEF c, NoCur
  <2>4. cur'.base <= MaxDtb /\ cur'.tmp = c \o Trees(dir.kernel_dts, cur'.base)
    BY <2>2, <2>3, TreesNone, ConcatEmptySeq, DirAssumption
  <2>5. MetaReads(dir)
    BY <2>1 DEF MadeInv, SectionsInv, Building
  <2>6. SectionsInv'
    BY <2>1, <2>4, <2>5 DEF SectionsInv, Building, Finished, KernelCompiled, RamdiskArchived, c
  <2>7. BufferInv'
    BY <2>1, BufferSame DEF MadeInv, Building
  <2> QED BY <2>1, <2>6, <2>7, PackGoesOn DEF PackPc
<1> QED BY <1>1, <1>2

(* PackCompileKernelDts: one device tree more.                             *)
LEMMA MadePackCompileKernelDts ==
  ASSUME IInv, OutputInv, CompleteInv, MadeInv, PackCompileKernelDts
  PROVE  MadeInv'
<1>1. CASE Leave("die", 1)
  BY <1>1, CommandFails DEF PackCompileKernelDts, CompileDts, disk
<1>2. CASE ~Leave("die", 1)
  <2> DEFINE c == Compressed(dir.kernel, dir.meta.kernel_compression)
             n == cur.base
             e == MkCell("dtb", dir.kernel_dts[n])
  <2>1. /\ pc = "p_kernel_dts" /\ UNCHANGED <<pc, dir, opts, exit, img, hist>>
        /\ GoodDts(dir.kernel_dts, n)
        /\ cur' = [cur EXCEPT !.base = @ + 1, !.tmp = Append(@, e)]
    BY <1>2 DEF PackCompileKernelDts, CompileDts, disk
  <2>2. /\ MetaReads(dir) /\ dir.kernel # << >>
        /\ cur.tmp = c \o Trees(dir.kernel_dts, n)
    BY <2>1 DEF MadeInv, SectionsInv, Building
  <2>3. n \in Nat /\ n < MaxDtb /\ dir.kernel_dts[n] \in Nat /\ Compiled(dir.kernel_dts, n)
    <3>1. Compiled(dir.kernel_dts, n)
      BY <2>1 DEF CompleteInv, PackInv
    <3> QED BY <2>1, <3>1, DtsTypes DEF GoodDts, Dts
  <2>4. cur'.base = n + 1 /\ cur'.tmp = Append(cur.tmp, e)
    BY <2>1, DtsTypes DEF Cur
  <2>5. c \in Seq(Cell)
    BY <2>2, PackTypes, CompressedType
  <2>6. /\ Trees(dir.kernel_dts, n) \in Seq(Cell) /\ e \in Cell
        /\ Trees(dir.kernel_dts, n + 1) = Append(Trees(dir.kernel_dts, n), e)
    BY <2>3, DtsTypes, TreesNext
  <2>7. cur'.tmp = c \o Trees(dir.kernel_dts, n + 1)
    <3> DEFINE u == Trees(dir.kernel_dts, n)
    <3>1. u \in Seq(Cell) /\ <<e>> \in Seq(Cell)
      BY <2>6
    <3> HIDE DEF c, e, u
    <3>2. Append(c \o u, e) = c \o Append(u, e)
      <4>1. Append(c \o u, e) = (c \o u) \o <<e>> /\ Append(u, e) = u \o <<e>>
        BY <2>5, <2>6, <3>1, AppendIsConcat, ConcatProperties DEF u
      <4> QED BY <2>5, <3>1, <4>1, ConcatAssociative
    <3> QED BY <2>2, <2>4, <2>6, <3>2 DEF u
  <2>8. cur'.base <= MaxDtb
    BY <2>3, <2>4, DirAssumption
  <2> HIDE DEF e
  <2>9. SectionsInv'
    BY <2>1, <2>2, <2>4, <2>7, <2>8
       DEF SectionsInv, Building, Finished, KernelCompiled, RamdiskArchived
  <2>10. BufferInv'
    BY <2>1, BufferSame DEF MadeInv, Building
  <2> QED BY <2>1, <2>9, <2>10, PackGoesOn DEF PackPc
<1> QED BY <1>1, <1>2

(* What adding a section does to the header and to the parts.              *)
LEMMA AddedHdr ==
  ASSUME IInv, BufferInv, pc \in Building, NEW s \in Seq(Cell)
  PROVE  /\ \A size \in {"kernel_size", "ramdisk_size", "second_size", "recovery_dtbo_size",
                         "dtb_size"} :
              [img.hdr EXCEPT ![size] = Len(s)].page_size = img.hdr.page_size
         /\ HdrIs([img.hdr EXCEPT !.kernel_size = Len(s)], dir.meta,
                  WithPart(hist.parts, "kernel", s), << >>)
         /\ HdrIs([img.hdr EXCEPT !.ramdisk_size = Len(s)], dir.meta,
                  WithPart(hist.parts, "ramdisk", s), << >>)
         /\ HdrIs([img.hdr EXCEPT !.second_size = Len(s)], dir.meta,
                  WithPart(hist.parts, "second", s), << >>)
         /\ HdrIs([img.hdr EXCEPT !.recovery_dtbo_size = Len(s)], dir.meta,
                  WithPart(hist.parts, "recovery_dtbo", s), << >>)
         /\ HdrIs([img.hdr EXCEPT !.dtb_size = Len(s)], dir.meta,
                  WithPart(hist.parts, "dtb", s), << >>)
<1>1. img.hdr \in Hdr /\ hist.parts \in Parts
  BY PackTypes
<1>2. HdrIs(img.hdr, dir.meta, hist.parts, << >>)
  BY DEF BufferInv
<1>3. \A size \in {"kernel_size", "ramdisk_size", "second_size", "recovery_dtbo_size",
                   "dtb_size"} :
        [img.hdr EXCEPT ![size] = Len(s)].page_size = img.hdr.page_size
  BY <1>1 DEF Hdr
<1> QED BY <1>1, <1>2, <1>3, HdrAdd

(* PackAddKernel: the kernel and its device trees become the first         *)
(* section.                                                                *)
LEMMA MadePackAddKernel ==
  ASSUME IInv, OutputInv, CompleteInv, MadeInv, PackAddKernel
  PROVE  MadeInv'
<1> DEFINE s == cur.tmp
<1>1. /\ pc = "p_kernel_dts" /\ pc' = "p_ramdisk" /\ UNCHANGED <<dir, opts, exit>>
      /\ LastDts(dir.kernel_dts, cur.base)
      /\ AddSection([img.hdr EXCEPT !.kernel_size = Len(s)], s)
      /\ hist' = [hist EXCEPT !.parts.kernel = s]
  BY DEF PackAddKernel, Goto, disk
<1>2. s \in Seq(Cell) /\ hist \in Hist /\ hist.parts \in Parts
  BY PackTypes
<1>3. /\ MetaReads(dir) /\ dir.kernel # << >> /\ cur.base <= MaxDtb
      /\ s = Compressed(dir.kernel, dir.meta.kernel_compression)
               \o Trees(dir.kernel_dts, cur.base)
      /\ BufferInv
  BY <1>1 DEF MadeInv, SectionsInv, Building
<1>4. s = Abs!KernelSection(dir) /\ Abs!DtbsOf(dir.kernel_dts) = DtsCells(dir.kernel_dts)
  <2>1. Compiled(dir.kernel_dts, cur.base)
    BY <1>1 DEF CompleteInv, PackInv
  <2>2. /\ Abs!DtbsOf(dir.kernel_dts) = Trees(dir.kernel_dts, cur.base)
        /\ DtsCells(dir.kernel_dts) = Trees(dir.kernel_dts, cur.base)
    BY <1>1, <1>3, <2>1, DtsTypes, TreesAll
  <2> QED BY <1>3, <2>2, AbsKernelSection
<1> HIDE DEF s
<1>5. hist'.parts = WithPart(hist.parts, "kernel", s) /\ hist'.recipe = hist.recipe
  BY <1>1, <1>2 DEF Hist, WithPart
<1>6. hist'.parts.kernel = s
  BY <1>2, <1>5 DEF WithPart, Parts
<1>7. /\ img'.data = pad_data(img.data, s, img.hdr.page_size)
      /\ HdrIs(img'.hdr, dir.meta, hist'.parts, << >>)
  BY <1>1, <1>2, <1>3, <1>5, AddedHdr DEF AddSection, Building
<1>8. BufferInv'
  BY <1>1, <1>2, <1>3, <1>5, <1>7, Unfilled, BufferAdd DEF Building
<1>9. SectionsInv'
  BY <1>1, <1>3, <1>4, <1>6
     DEF SectionsInv, Building, Finished, KernelCompiled, RamdiskArchived
<1> QED BY <1>1, <1>5, <1>8, <1>9, PackGoesOn DEF PackPc

(* PackRamdisk: the tree is read, and the archive begins.                  *)
LEMMA MadePackRamdisk ==
  ASSUME IInv, OutputInv, MadeInv, PackRamdisk
  PROVE  MadeInv'
<1>1. CASE Leave("return", FAILED)
  BY <1>1, CommandFails DEF PackRamdisk, disk, SUCCESS, FAILED
<1>2. CASE ~Leave("return", FAILED)
  <2>1. /\ pc = "p_ramdisk" /\ pc' = "p_cpio" /\ dir.ramdisk_dir
        /\ UNCHANGED <<dir, opts, exit, img, hist>>
        /\ cur' = [NoCur EXCEPT !.todo = dir.ramdisk]
    BY <1>2 DEF PackRamdisk, Goto, disk
  <2>2. cur'.tmp = << >> /\ cur'.todo = dir.ramdisk
    BY <2>1 DEF NoCur
  <2>3. Archived(dir.ramdisk, cur'.todo, cur'.tmp)
    BY <2>2, ArchiveBegins
  <2>4. /\ MetaReads(dir) /\ dir.kernel # << >>
        /\ hist.parts.kernel = Abs!KernelSection(dir)
        /\ Abs!DtbsOf(dir.kernel_dts) = DtsCells(dir.kernel_dts)
    BY <2>1 DEF MadeInv, SectionsInv, Building, KernelCompiled
  <2>5. SectionsInv'
    BY <2>1, <2>3, <2>4 DEF SectionsInv, Building, Finished, KernelCompiled, RamdiskArchived
  <2>6. BufferInv'
    BY <2>1, BufferSame DEF MadeInv, Building
  <2> QED BY <2>1, <2>5, <2>6, PackGoesOn DEF PackPc
<1> QED BY <1>1, <1>2

(* PackCpioEntry: the least of the files that are left.                    *)
LEMMA MadePackCpioEntry ==
  ASSUME IInv, OutputInv, MadeInv, PackCpioEntry
  PROVE  MadeInv'
<1>1. /\ pc = "p_cpio" /\ pc' = "p_cpio" /\ UNCHANGED <<dir, opts, exit, img, hist>>
  BY DEF PackCpioEntry, Goto, disk
<1>2. PICK e \in cur.todo :
        /\ \A other \in cur.todo : e <= other
        /\ cur' = [cur EXCEPT !.todo = @ \ {e}, !.tmp = Append(@, Entry(e))]
  BY DEF PackCpioEntry, Entry
<1>3. cur'.todo = cur.todo \ {e} /\ cur'.tmp = Append(cur.tmp, Entry(e))
  BY <1>2, DtsTypes DEF Cur
<1>4. /\ MetaReads(dir) /\ dir.kernel # << >> /\ dir.ramdisk_dir
      /\ hist.parts.kernel = Abs!KernelSection(dir)
      /\ Abs!DtbsOf(dir.kernel_dts) = DtsCells(dir.kernel_dts)
      /\ Archived(dir.ramdisk, cur.todo, cur.tmp) /\ IsFiniteSet(dir.ramdisk)
  BY <1>1 DEF MadeInv, SectionsInv, Building, KernelCompiled
<1>5. Archived(dir.ramdisk, cur'.todo, cur'.tmp)
  <2>1. dir.ramdisk \in SUBSET Nat /\ cur.tmp \in Seq(Cell)
    BY PackTypes
  <2>2. Archived(dir.ramdisk, cur.todo \ {e}, Append(cur.tmp, Entry(e)))
    BY <1>2, <1>4, <2>1, ArchiveNext
  <2> QED BY <1>3, <2>2
<1>6. SectionsInv'
  BY <1>1, <1>4, <1>5 DEF SectionsInv, Building, Finished, KernelCompiled, RamdiskArchived
<1>7. BufferInv'
  BY <1>1, BufferSame DEF MadeInv, Building
<1> QED BY <1>1, <1>6, <1>7, PackGoesOn DEF PackPc

(* PackAddRamdisk: the archive of all files becomes the second section.    *)
LEMMA MadePackAddRamdisk ==
  ASSUME IInv, OutputInv, MadeInv, PackAddRamdisk
  PROVE  MadeInv'
<1> DEFINE s == cur.tmp
<1>1. /\ pc = "p_cpio" /\ pc' = "p_second" /\ UNCHANGED <<dir, opts, exit>>
      /\ cur.todo = {} /\ cur' = NoCur
      /\ AddSection([img.hdr EXCEPT !.ramdisk_size = Len(s)], s)
      /\ hist' = [hist EXCEPT !.parts.ramdisk = s]
  BY DEF PackAddRamdisk, Goto, disk
<1>2. s \in Seq(Cell) /\ hist \in Hist /\ hist.parts \in Parts
  BY PackTypes
<1>3. /\ MetaReads(dir) /\ dir.kernel # << >> /\ dir.ramdisk_dir
      /\ hist.parts.kernel = Abs!KernelSection(dir)
      /\ Abs!DtbsOf(dir.kernel_dts) = DtsCells(dir.kernel_dts)
      /\ Archived(dir.ramdisk, {}, s) /\ IsFiniteSet(dir.ramdisk)
      /\ BufferInv
  BY <1>1 DEF MadeInv, SectionsInv, Building, KernelCompiled
<1>4. s = Abs!ArchiveOf(dir.ramdisk)
  BY <1>2, <1>3, PackTypes, ArchiveEnds
<1> HIDE DEF s
<1>5. hist'.parts = WithPart(hist.parts, "ramdisk", s) /\ hist'.recipe = hist.recipe
  BY <1>1, <1>2 DEF Hist, WithPart
<1>6. hist'.parts.ramdisk = s /\ hist'.parts.kernel = hist.parts.kernel
  BY <1>2, <1>5 DEF WithPart, Parts
<1>7. /\ img'.data = pad_data(img.data, s, img.hdr.page_size)
      /\ HdrIs(img'.hdr, dir.meta, hist'.parts, << >>)
  BY <1>1, <1>2, <1>3, <1>5, AddedHdr DEF AddSection, Building
<1>8. BufferInv'
  BY <1>1, <1>2, <1>3, <1>5, <1>7, Unfilled, BufferAdd DEF Building
<1>9. SectionsInv'
  BY <1>1, <1>3, <1>4, <1>6
     DEF SectionsInv, Building, Finished, KernelCompiled, RamdiskArchived
<1> QED BY <1>1, <1>5, <1>8, <1>9, PackGoesOn DEF PackPc

(* PackSecond: the file `second', if there is one.                         *)
LEMMA MadePackSecond ==
  ASSUME IInv, OutputInv, MadeInv, PackSecond
  PROVE  MadeInv'
<1> DEFINE s == dir.second
<1>1. /\ pc = "p_second" /\ pc' = "p_recovery_dtbo" /\ UNCHANGED <<dir, opts, exit, cur>>
  BY DEF PackSecond, Goto, disk
<1>2. s \in Seq(Cell) /\ hist \in Hist /\ hist.parts \in Parts
  BY PackTypes
<1>3. /\ MetaReads(dir) /\ dir.kernel # << >> /\ dir.ramdisk_dir /\ cur = NoCur
      /\ hist.parts.kernel = Abs!KernelSection(dir)
      /\ Abs!DtbsOf(dir.kernel_dts) = DtsCells(dir.kernel_dts)
      /\ hist.parts.ramdisk = Abs!ArchiveOf(dir.ramdisk)
      /\ BufferInv
  BY <1>1 DEF MadeInv, SectionsInv, Building, KernelCompiled, RamdiskArchived
<1>4. NoneFrom(hist.parts, "second")
  BY <1>1, Unfilled
<1>5. CASE /\ AddSection([img.hdr EXCEPT !.second_size = Len(s)], s)
           /\ hist' = [hist EXCEPT !.parts.second = s]
  <2> HIDE DEF s
  <2>1. hist'.parts = WithPart(hist.parts, "second", s) /\ hist'.recipe = hist.recipe
    BY <1>2, <1>5 DEF Hist, WithPart
  <2>2. /\ hist'.parts.second = s /\ hist'.parts.kernel = hist.parts.kernel
        /\ hist'.parts.ramdisk = hist.parts.ramdisk
    BY <1>2, <2>1 DEF WithPart, Parts
  <2>3. /\ img'.data = pad_data(img.data, s, img.hdr.page_size)
        /\ HdrIs(img'.hdr, dir.meta, hist'.parts, << >>)
    BY <1>1, <1>2, <1>3, <1>5, <2>1, AddedHdr DEF AddSection, Building
  <2>4. BufferInv'
    BY <1>1, <1>2, <1>3, <1>4, <2>1, <2>3, BufferAdd DEF Building
  <2>5. SectionsInv'
    BY <1>1, <1>3, <2>2, TreesNone, DirAssumption
       DEF SectionsInv, Building, Finished, KernelCompiled, RamdiskArchived, NoCur, s
  <2> QED BY <1>1, <2>1, <2>4, <2>5, PackGoesOn DEF PackPc
<1>6. CASE s = << >> /\ UNCHANGED <<img, hist>>
  <2>1. hist.parts.second = s
    BY <1>4, <1>6 DEF NoneFrom
  <2>2. BufferInv'
    BY <1>1, <1>3, <1>6, BufferSame DEF Building
  <2>3. SectionsInv'
    BY <1>1, <1>3, <1>6, <2>1, TreesNone, DirAssumption
       DEF SectionsInv, Building, Finished, KernelCompiled, RamdiskArchived, NoCur
  <2> QED BY <1>1, <1>6, <2>2, <2>3, PackGoesOn DEF PackPc
<1> QED BY <1>5, <1>6 DEF PackSecond

(* PackRecoveryDtbo: the file `recovery_dtbo', if there is one.            *)
LEMMA MadePackRecoveryDtbo ==
  ASSUME IInv, OutputInv, MadeInv, PackRecoveryDtbo
  PROVE  MadeInv'
<1> DEFINE s == dir.recovery_dtbo
<1>1. /\ pc = "p_recovery_dtbo" /\ pc' = "p_dtb" /\ UNCHANGED <<dir, opts, exit, cur>>
  BY DEF PackRecoveryDtbo, Goto, disk
<1>2. s \in Seq(Cell) /\ hist \in Hist /\ hist.parts \in Parts
  BY PackTypes
<1>3. /\ MetaReads(dir) /\ dir.kernel # << >> /\ dir.ramdisk_dir /\ cur = NoCur
      /\ hist.parts.kernel = Abs!KernelSection(dir)
      /\ Abs!DtbsOf(dir.kernel_dts) = DtsCells(dir.kernel_dts)
      /\ hist.parts.ramdisk = Abs!ArchiveOf(dir.ramdisk)
      /\ hist.parts.second = dir.second
      /\ BufferInv
  BY <1>1 DEF MadeInv, SectionsInv, Building, KernelCompiled, RamdiskArchived
<1>4. NoneFrom(hist.parts, "recovery_dtbo")
  BY <1>1, Unfilled
<1>5. CASE /\ AddSection([img.hdr EXCEPT !.recovery_dtbo_size = Len(s)], s)
           /\ hist' = [hist EXCEPT !.parts.recovery_dtbo = s]
  <2> HIDE DEF s
  <2>1. hist'.parts = WithPart(hist.parts, "recovery_dtbo", s) /\ hist'.recipe = hist.recipe
    BY <1>2, <1>5 DEF Hist, WithPart
  <2>2. /\ hist'.parts.recovery_dtbo = s /\ hist'.parts.kernel = hist.parts.kernel
        /\ hist'.parts.ramdisk = hist.parts.ramdisk
        /\ hist'.parts.second = hist.parts.second
    BY <1>2, <2>1 DEF WithPart, Parts
  <2>3. /\ img'.data = pad_data(img.data, s, img.hdr.page_size)
        /\ HdrIs(img'.hdr, dir.meta, hist'.parts, << >>)
    BY <1>1, <1>2, <1>3, <1>5, <2>1, AddedHdr DEF AddSection, Building
  <2>4. BufferInv'
    BY <1>1, <1>2, <1>3, <1>4, <2>1, <2>3, BufferAdd DEF Building
  <2>5. SectionsInv'
    BY <1>1, <1>3, <2>2, TreesNone, DirAssumption
       DEF SectionsInv, Building, Finished, KernelCompiled, RamdiskArchived, NoCur, s
  <2> QED BY <1>1, <2>1, <2>4, <2>5, PackGoesOn DEF PackPc
<1>6. CASE s = << >> /\ UNCHANGED <<img, hist>>
  <2>1. hist.parts.recovery_dtbo = s
    BY <1>4, <1>6 DEF NoneFrom
  <2>2. BufferInv'
    BY <1>1, <1>3, <1>6, BufferSame DEF Building
  <2>3. SectionsInv'
    BY <1>1, <1>3, <1>6, <2>1, TreesNone, DirAssumption
       DEF SectionsInv, Building, Finished, KernelCompiled, RamdiskArchived, NoCur
  <2> QED BY <1>1, <1>6, <2>2, <2>3, PackGoesOn DEF PackPc
<1> QED BY <1>5, <1>6 DEF PackRecoveryDtbo

(* PackCompileDtDts: one device tree more.                                 *)
LEMMA MadePackCompileDtDts ==
  ASSUME IInv, OutputInv, CompleteInv, MadeInv, PackCompileDtDts
  PROVE  MadeInv'
<1>1. CASE Leave("die", 1)
  BY <1>1, CommandFails DEF PackCompileDtDts, CompileDts, disk
<1>2. CASE ~Leave("die", 1)
  <2> DEFINE n == cur.base
             e == MkCell("dtb", dir.dt_dts[n])
  <2>1. /\ pc = "p_dtb" /\ UNCHANGED <<pc, dir, opts, exit, img, hist>>
        /\ GoodDts(dir.dt_dts, n)
        /\ cur' = [cur EXCEPT !.base = @ + 1, !.tmp = Append(@, e)]
    BY <1>2 DEF PackCompileDtDts, CompileDts, disk
  <2>2. /\ MetaReads(dir) /\ dir.kernel # << >> /\ dir.ramdisk_dir
        /\ hist.parts.kernel = Abs!KernelSection(dir)
        /\ Abs!DtbsOf(dir.kernel_dts) = DtsCells(dir.kernel_dts)
        /\ hist.parts.ramdisk = Abs!ArchiveOf(dir.ramdisk)
        /\ hist.parts.second = dir.second
        /\ hist.parts.recovery_dtbo = dir.recovery_dtbo
        /\ cur.tmp = Trees(dir.dt_dts, n)
    BY <2>1 DEF MadeInv, SectionsInv, Building, KernelCompiled, RamdiskArchived
  <2>3. n \in Nat /\ n < MaxDtb /\ dir.dt_dts[n] \in Nat /\ Compiled(dir.dt_dts, n)
    <3>1. Compiled(dir.dt_dts, n)
      BY <2>1 DEF CompleteInv, PackInv
    <3> QED BY <2>1, <3>1, DtsTypes DEF GoodDts, Dts
  <2>4. cur'.base = n + 1 /\ cur'.tmp = Append(cur.tmp, e)
    BY <2>1, DtsTypes DEF Cur
  <2>5. Trees(dir.dt_dts, n + 1) = Append(Trees(dir.dt_dts, n), e)
    BY <2>3, DtsTypes, TreesNext
  <2> HIDE DEF e
  <2>6. cur'.tmp = Trees(dir.dt_dts, cur'.base)
    BY <2>2, <2>4, <2>5
  <2>7. cur'.base <= MaxDtb
    BY <2>3, <2>4, DirAssumption
  <2>8. SectionsInv'
    BY <2>1, <2>2, <2>6, <2>7
       DEF SectionsInv, Building, Finished, KernelCompiled, RamdiskArchived
  <2>9. BufferInv'
    BY <2>1, BufferSame DEF MadeInv, Building
  <2> QED BY <2>1, <2>8, <2>9, PackGoesOn DEF PackPc
<1> QED BY <1>1, <1>2

(* PackAddDtb: the device trees become the last section.                   *)
LEMMA MadePackAddDtb ==
  ASSUME IInv, OutputInv, CompleteInv, MadeInv, PackAddDtb
  PROVE  MadeInv'
<1> DEFINE s == cur.tmp
<1>1. /\ pc = "p_dtb" /\ pc' = "p_extra" /\ UNCHANGED <<dir, opts, exit>>
      /\ LastDts(dir.dt_dts, cur.base)
      /\ AddSection([img.hdr EXCEPT !.dtb_size = Len(s)], s)
      /\ hist' = [hist EXCEPT !.parts.dtb = s]
  BY DEF PackAddDtb, Goto, disk
<1>2. s \in Seq(Cell) /\ hist \in Hist /\ hist.parts \in Parts
  BY PackTypes
<1>3. /\ MetaReads(dir) /\ dir.kernel # << >> /\ dir.ramdisk_dir
      /\ hist.parts.kernel = Abs!KernelSection(dir)
      /\ Abs!DtbsOf(dir.kernel_dts) = DtsCells(dir.kernel_dts)
      /\ hist.parts.ramdisk = Abs!ArchiveOf(dir.ramdisk)
      /\ hist.parts.second = dir.second
      /\ hist.parts.recovery_dtbo = dir.recovery_dtbo
      /\ cur.base <= MaxDtb /\ s = Trees(dir.dt_dts, cur.base)
      /\ BufferInv
  BY <1>1 DEF MadeInv, SectionsInv, Building, KernelCompiled, RamdiskArchived
<1>4. s = Abs!DtbsOf(dir.dt_dts)
  <2>1. Compiled(dir.dt_dts, cur.base)
    BY <1>1 DEF CompleteInv, PackInv
  <2>2. Abs!DtbsOf(dir.dt_dts) = Trees(dir.dt_dts, cur.base)
    BY <1>1, <1>3, <2>1, DtsTypes, TreesAll
  <2> QED BY <1>3, <2>2
<1> HIDE DEF s
<1>5. hist'.parts = WithPart(hist.parts, "dtb", s) /\ hist'.recipe = hist.recipe
  BY <1>1, <1>2 DEF Hist, WithPart
<1>6. /\ hist'.parts.dtb = s /\ hist'.parts.kernel = hist.parts.kernel
      /\ hist'.parts.ramdisk = hist.parts.ramdisk
      /\ hist'.parts.second = hist.parts.second
      /\ hist'.parts.recovery_dtbo = hist.parts.recovery_dtbo
  BY <1>2, <1>5 DEF WithPart, Parts
<1>7. /\ img'.data = pad_data(img.data, s, img.hdr.page_size)
      /\ HdrIs(img'.hdr, dir.meta, hist'.parts, << >>)
  BY <1>1, <1>2, <1>3, <1>5, AddedHdr DEF AddSection, Building
<1>8. BufferInv'
  BY <1>1, <1>2, <1>3, <1>5, <1>7, Unfilled, BufferAdd DEF Building
<1>9. SectionsInv'
  BY <1>1, <1>3, <1>4, <1>6
     DEF SectionsInv, Building, Finished, KernelCompiled, RamdiskArchived
<1> QED BY <1>1, <1>5, <1>8, <1>9, PackGoesOn DEF PackPc

(* All sections are there: they stay as the image is finished.             *)
LEMMA SectionsDone ==
  ASSUME SectionsInv, pc \in {"p_extra"} \union Finished, pc' \in Finished,
         UNCHANGED <<dir, hist>>
  PROVE  SectionsInv'
  BY DEF SectionsInv, Building, Finished, KernelCompiled, RamdiskArchived

(* PackExtra: the trailing data, unless it is skipped or there is none.    *)
LEMMA MadePackExtra ==
  ASSUME IInv, OutputInv, MadeInv, PackExtra
  PROVE  MadeInv'
<1> DEFINE p == dir.meta.page_size
           d == DataOf(p, hist.parts)
           e == ExtraOf(dir, opts.skip)
<1>1. /\ pc = "p_extra" /\ pc' = "p_check" /\ UNCHANGED <<dir, opts, exit, hist>>
      /\ \/ ~opts.skip /\ AddSection(img.hdr, dir.extra)
         \/ (opts.skip \/ dir.extra = << >>) /\ UNCHANGED img
  BY DEF PackExtra, Goto, disk
<1>2. /\ HdrIs(img.hdr, dir.meta, hist.parts, << >>) /\ img.data = d
  BY <1>1 DEF MadeInv, BufferInv, Building
<1>3. /\ img.hdr.page_size = p /\ p \in Nat \ {0} /\ d \in Seq(Cell)
      /\ dir.extra \in Seq(Cell)
  BY <1>2, PackTypes DEF HdrIs
<1>4. Len(d) % p = 0
  BY <1>1, <1>2, <1>3 DEF IInv, Packing, PageEnd, Building
<1>5. img'.hdr = img.hdr /\ img'.data = d \o Page(e, p)
  <2>1. CASE ~opts.skip /\ AddSection(img.hdr, dir.extra)
    <3>1. e = dir.extra
      BY <2>1 DEF ExtraOf
    <3>2. pad_data(d, dir.extra, p) = d \o Page(dir.extra, p)
      BY <1>3, <1>4, PadIsPage
    <3> HIDE DEF d, e, p
    <3> QED BY <1>2, <1>3, <2>1, <3>1, <3>2 DEF AddSection
  <2>2. CASE (opts.skip \/ dir.extra = << >>) /\ UNCHANGED img
    <3>1. e = << >>
      BY <2>2 DEF ExtraOf
    <3>2. Page(<< >>, p) = << >>
      BY <1>3, PageType
    <3> HIDE DEF d, e, p
    <3>3. d \o << >> = d
      BY <1>3, ConcatEmptySeq
    <3> QED BY <1>2, <2>2, <3>1, <3>2, <3>3
  <2> QED BY <1>1, <2>1, <2>2
<1>6. BufferInv'
  BY <1>1, <1>2, <1>5 DEF BufferInv, Building, Finished
<1>7. SectionsInv'
  BY <1>1, SectionsDone DEF MadeInv, Finished
<1> QED BY <1>1, <1>6, <1>7, PackGoesOn DEF PackPc

(* PackCheck: the id, of the sections that bxxt_boot_init1 finds again.    *)
LEMMA MadePackCheck ==
  ASSUME IInv, OutputInv, MadeInv, PackCheck
  PROVE  MadeInv'
<1>1. /\ pc = "p_check" /\ pc' = "p_write" /\ UNCHANGED <<dir, opts, exit, hist>>
      /\ img' = [img EXCEPT !.hdr.id = bxxt_boot_img_signature(img)]
  BY DEF PackCheck, Goto, disk
<1>2. HdrIs(img.hdr, dir.meta, hist.parts, << >>)
  BY <1>1 DEF MadeInv, BufferInv
<1>3. bxxt_boot_img_signature(img) = IdOf(dir.meta.header_version, hist.parts)
  <2>1. Recorded(img, hist.parts)
    BY <1>1 DEF IInv, Packing, Finished
  <2> QED BY <1>2, <2>1 DEF Recorded, HdrIs, bxxt_boot_img_signature, IdOf
<1>4. /\ img'.data = img.data
      /\ img'.hdr = [img.hdr EXCEPT !.id = bxxt_boot_img_signature(img)]
  BY <1>1, PackTypes DEF Image
<1> DEFINE id == bxxt_boot_img_signature(img)
<1> HIDE DEF id
<1>5. HdrIs([img.hdr EXCEPT !.id = id], dir.meta, hist.parts, id)
  BY <1>2, PackTypes DEF HdrIs, Hdr
<1>6. HdrIs(img'.hdr, dir.meta, hist.parts, IdOf(dir.meta.header_version, hist.parts))
  BY <1>3, <1>4, <1>5 DEF id
<1>7. BufferInv'
  BY <1>1, <1>4, <1>6 DEF MadeInv, BufferInv, Building, Finished
<1>8. SectionsInv'
  BY <1>1, SectionsDone DEF MadeInv, Finished
<1> QED BY <1>1, <1>7, <1>8, PackGoesOn DEF PackPc

(* PackOpenOutput: the output is opened, or cannot be.                     *)
LEMMA MadePackOpenOutput ==
  ASSUME IInv, OutputInv, MadeInv, PackOpenOutput
  PROVE  MadeInv'
<1>1. CASE Leave("return", FAILED)
  BY <1>1, CommandFails DEF PackOpenOutput, SUCCESS, FAILED
<1>2. CASE ~Leave("return", FAILED)
  <2>1. /\ pc = "p_write" /\ pc' = "p_writing" /\ UNCHANGED <<dir, opts, exit, hist, img>>
    BY <1>2 DEF PackOpenOutput, Goto, mem
  <2>2. BufferInv'
    BY <2>1 DEF MadeInv, BufferInv, Building, Finished
  <2>3. SectionsInv'
    BY <2>1, SectionsDone DEF MadeInv, Finished
  <2> QED BY <2>1, <2>2, <2>3, PackGoesOn DEF PackPc
<1> QED BY <1>1, <1>2

(* The finished image is the one BootSpec gives for the directory.         *)
LEMMA FinishedImage ==
  ASSUME IInv, MadeInv, pc = "p_writing"
  PROVE  /\ img = Abs!PackOf(dir, opts.skip)
         /\ KernelOf(img) = Abs!KernelSection(dir)
         /\ Abs!DtbsOf(dir.kernel_dts) = DtsCells(dir.kernel_dts)
<1>1. /\ hist.parts.kernel = Abs!KernelSection(dir)
      /\ hist.parts.ramdisk = Abs!ArchiveOf(dir.ramdisk)
      /\ hist.parts.second = dir.second
      /\ hist.parts.recovery_dtbo = dir.recovery_dtbo
      /\ hist.parts.dtb = Abs!DtbsOf(dir.dt_dts)
      /\ Abs!DtbsOf(dir.kernel_dts) = DtsCells(dir.kernel_dts)
  BY DEF MadeInv, SectionsInv, Finished, KernelCompiled, RamdiskArchived
<1>2. hist.parts = PartsOf(dir)
  BY <1>1, PackTypes, Zenon DEF Parts, PartsOf
<1>3. /\ HdrIs(img.hdr, dir.meta, PartsOf(dir), IdOf(dir.meta.header_version, PartsOf(dir)))
      /\ img.data = DataOf(dir.meta.page_size, PartsOf(dir))
                      \o Page(ExtraOf(dir, opts.skip), dir.meta.page_size)
  BY <1>2 DEF MadeInv, BufferInv, Finished
<1>4. img = Abs!PackOf(dir, opts.skip)
  <2>1. img \in Image /\ opts.skip \in BOOLEAN
    BY PackTypes
  <2> QED BY <1>3, <2>1, AbsPackOf
<1>5. KernelOf(img) = hist.parts.kernel
  BY DEF IInv, Packing, Finished, Recorded
<1> QED BY <1>1, <1>4, <1>5

(* PackWriteOutput: the image reaches the output, or a part of it does and *)
(* the command fails.                                                      *)
LEMMA MadePackWriteOutput ==
  ASSUME IInv, OutputInv, MadeInv, PackWriteOutput
  PROVE  MadeInv'
<1>1. CASE \E n \in 0..(Len(img.data) - 1) :
             Leave("return", IF n = 0 THEN -1 ELSE n) /\ UNCHANGED <<dir, hist>>
  <2>1. PICK n \in 0..(Len(img.data) - 1) :
          Leave("return", IF n = 0 THEN -1 ELSE n) /\ UNCHANGED <<dir, hist>>
    BY <1>1
  <2> DEFINE r == IF n = 0 THEN -1 ELSE n
  <2>2. r # SUCCESS
    BY <2>1 DEF SUCCESS
  <2> HIDE DEF r
  <2>3. Leave("return", r) /\ UNCHANGED <<dir, hist>>
    BY <2>1 DEF r
  <2> QED BY <2>2, <2>3, CommandFails
<1>2. CASE ~(\E n \in 0..(Len(img.data) - 1) :
               Leave("return", IF n = 0 THEN -1 ELSE n) /\ UNCHANGED <<dir, hist>>)
  <2>1. /\ pc = "p_writing" /\ out' = [st |-> "whole", img |-> img]
        /\ Leave("return", SUCCESS) /\ UNCHANGED <<dir, opts>>
        /\ hist' = [hist EXCEPT !.made_from = hist.from,
                                !.made_complete = hist.complete,
                                !.made_packed = hist.packed]
    BY <1>2 DEF PackWriteOutput
  <2>2. pc' = "idle" /\ hist'.recipe = hist.recipe
    BY <2>1, PackTypes DEF Leave, Hist
  <2>3. /\ img = Abs!PackOf(dir, opts.skip)
        /\ KernelOf(img) = Abs!KernelSection(dir)
        /\ Abs!DtbsOf(dir.kernel_dts) = DtsCells(dir.kernel_dts)
    BY <2>1, FinishedImage
  <2>4. out'.img = img
    BY <2>1
  <2>5. ResultInv'
    BY <2>1, <2>3, <2>4 DEF ResultInv
  <2>6. SectionsInv' /\ BufferInv'
    BY <2>2, SectionsVoid DEF PackPc
  <2>7. RecipeInv'
    BY <2>1, <2>2 DEF MadeInv, RecipeInv, UnpackPc
  <2> QED BY <2>1, <2>5, <2>6, <2>7 DEF MadeInv
<1> QED BY <1>1, <1>2

LEMMA MadePack == IInv /\ OutputInv /\ CompleteInv /\ MadeInv /\ Pack => MadeInv'
  BY MadePackMeta, MadePackKernel, MadePackCompileKernelDts, MadePackAddKernel,
     MadePackRamdisk, MadePackCpioEntry, MadePackAddRamdisk, MadePackSecond,
     MadePackRecoveryDtbo, MadePackCompileDtDts, MadePackAddDtb, MadePackExtra,
     MadePackCheck, MadePackOpenOutput, MadePackWriteOutput DEF Pack

-----------------------------------------------------------------------------
(* Unpack, the user, and a kill.                                           *)

(* A step after which no pack has succeeded since the directory changed.   *)
LEMMA NoneMade ==
  ASSUME pc' \in UnpackPc \union {"idle", "p_meta"}, ~PackSucceeded',
         IsFiniteSet(dir'.ramdisk), RecipeInv'
  PROVE  MadeInv'
<1>1. SectionsInv' /\ BufferInv'
  BY SectionsVoid DEF UnpackPc, PackPc
<1> QED BY <1>1 DEF MadeInv, ResultInv

(* Unpacking: after UnpackStart no recipe has been followed, and one file  *)
(* at a time is added to ramdisk/.                                         *)
LEMMA MadeUnpack == IInv /\ OutputInv /\ MadeInv /\ Unpack => MadeInv'
<1> SUFFICES ASSUME IInv, OutputInv, MadeInv, Unpack PROVE MadeInv'
  OBVIOUS
<1>0. hist \in Hist /\ exit \in Exit /\ dir \in Dir
  BY DEF IInv, TypeOK
<1>1. pc \in UnpackPc
  BY DEF Unpack, UnpackOpen, UnpackScanKernel, UnpackScanDtb, UnpackKernel,
    UnpackRecoveryDtbo, UnpackSecond, UnpackExtra, UnpackKernelDts, UnpackDtDts,
    UnpackMkdir, UnpackRamdisk, UnpackMeta, UnpackExit, UnpackPc
<1>2. (pc' \in UnpackPc /\ UNCHANGED exit) \/ \E r \in {SUCCESS, FAILED} : Leave("return", r)
  BY DEF Unpack, UnpackOpen, UnpackScanKernel, UnpackScanDtb, UnpackKernel,
    UnpackRecoveryDtbo, UnpackSecond, UnpackExtra, UnpackKernelDts, UnpackDtDts,
    UnpackMkdir, UnpackRamdisk, UnpackMeta, UnpackExit, UnpackPc, Goto
<1>3. pc' \in UnpackPc \union {"idle"} /\ exit'.op = "unpack"
  BY <1>0, <1>1, <1>2 DEF OutputInv, Leave, Exit
<1>4. hist'.recipe = "none"
  <2>1. hist'.recipe = hist.recipe
    BY <1>0 DEF Unpack, UnpackOpen, UnpackScanKernel, UnpackScanDtb, UnpackKernel,
      UnpackRecoveryDtbo, UnpackSecond, UnpackExtra, UnpackKernelDts, UnpackDtDts,
      UnpackMkdir, UnpackRamdisk, UnpackMeta, UnpackExit, DiskWrite, Hist
  <2> QED BY <1>1, <2>1 DEF MadeInv, RecipeInv
<1>5. dir'.ramdisk = dir.ramdisk \/ \E id : dir'.ramdisk = dir.ramdisk \union {id}
  BY <1>0 DEF Unpack, UnpackOpen, UnpackScanKernel, UnpackScanDtb, UnpackKernel,
    UnpackRecoveryDtbo, UnpackSecond, UnpackExtra, UnpackKernelDts, UnpackDtDts,
    UnpackMkdir, UnpackRamdisk, UnpackMeta, UnpackExit, disk, Dir
<1>6. IsFiniteSet(dir'.ramdisk)
  BY <1>5, FS_AddElement DEF MadeInv
<1>7. RecipeInv'
  BY <1>4 DEF RecipeInv
<1> QED BY <1>3, <1>6, <1>7, NoneMade DEF PackSucceeded

(* What the user's edits leave of the directory.                           *)
LEMMA MadeUser == IInv /\ OutputInv /\ MadeInv /\ (User \/ Kill) => MadeInv'
<1> SUFFICES ASSUME IInv, OutputInv, MadeInv, User \/ Kill PROVE MadeInv'
  OBVIOUS
<1>0. /\ hist \in Hist /\ exit \in Exit /\ dir \in Dir /\ dir.meta \in Meta
      /\ dir.kernel_dts \in [DtIndex -> Dts]
      /\ IsFiniteSet(dir.ramdisk) /\ RecipeInv
  BY DEF IInv, TypeOK, Dir, MadeInv
<1>1. CASE Kill
  <2>1. Leave("kill", 0) /\ UNCHANGED <<dir, hist>>
    BY <1>1 DEF Kill, disk
  <2> QED BY <2>1, CommandFails
<1>2. CASE \E o \in BOOLEAN : UnpackStart(o)
  <2>1. /\ pc' = "u_open" /\ exit'.op = "unpack" /\ hist'.recipe = "none"
        /\ dir'.ramdisk = dir.ramdisk
    BY <1>0, <1>2 DEF UnpackStart, Hist, Dir
  <2>2. RecipeInv'
    BY <2>1 DEF RecipeInv
  <2> QED BY <1>0, <2>1, <2>2, NoneMade DEF PackSucceeded, UnpackPc
<1>3. CASE \E o \in BOOLEAN : PackStart(o)
  <2>1. /\ pc' = "p_meta" /\ exit'.how = "running" /\ hist'.recipe = hist.recipe
        /\ UNCHANGED dir
    BY <1>0, <1>3 DEF PackStart, Hist, disk
  <2>2. RecipeInv'
    BY <1>0, <2>1 DEF RecipeInv, UnpackPc
  <2> QED BY <1>0, <2>1, <2>2, NoneMade DEF PackSucceeded
<1>4. CASE UserTurn
  <2>1. pc' = "idle" /\ ~PackSucceeded'
    BY <1>4 DEF UserTurn, NoExit, PackSucceeded
  <2>2. CASE AddFile \/ RemoveFile \/ EditPageSize \/ Adopt
    <3>1. /\ dir'.kernel = dir.kernel /\ dir'.kernel_dts = dir.kernel_dts
          /\ dir'.meta.kernel_compression = dir.meta.kernel_compression
          /\ hist'.recipe = hist.recipe
      <4>1. hist'.recipe = hist.recipe
        BY <1>0, <2>2 DEF AddFile, RemoveFile, EditPageSize, Adopt, Hist
      <4>2. CASE AddFile \/ RemoveFile \/ Adopt
        <5>1. \/ UNCHANGED dir \/ \E files : dir' = [dir EXCEPT !.ramdisk = files]
          BY <4>2 DEF AddFile, RemoveFile, Adopt
        <5>2. ASSUME NEW files, dir' = [dir EXCEPT !.ramdisk = files]
              PROVE  /\ dir'.kernel = dir.kernel /\ dir'.kernel_dts = dir.kernel_dts
                     /\ dir'.meta = dir.meta
          BY <1>0, <5>2 DEF Dir
        <5> QED BY <4>1, <5>1, <5>2
      <4>3. CASE EditPageSize
        <5>1. PICK ps \in PageSizes : dir' = [dir EXCEPT !.meta.page_size = ps]
          BY <4>3 DEF EditPageSize
        <5>2. /\ dir'.kernel = dir.kernel /\ dir'.kernel_dts = dir.kernel_dts
              /\ dir'.meta = [dir.meta EXCEPT !.page_size = ps]
          BY <1>0, <5>1 DEF Dir
        <5>3. dir'.meta.kernel_compression = dir.meta.kernel_compression
          BY <1>0, <5>2 DEF Meta
        <5> QED BY <4>1, <5>2, <5>3
      <4> QED BY <2>2, <4>2, <4>3
    <3>2. \/ dir'.ramdisk = dir.ramdisk \/ \E id : dir'.ramdisk = dir.ramdisk \union {id}
          \/ dir'.ramdisk \subseteq dir.ramdisk
      BY <1>0, <2>2 DEF AddFile, RemoveFile, EditPageSize, Adopt, Dir
    <3>3. IsFiniteSet(dir'.ramdisk)
      BY <1>0, <3>2, FS_AddElement, FS_Subset
    <3>4. RecipeInv'
      BY <1>0, <2>1, <3>1 DEF RecipeInv, UnpackPc
    <3> QED BY <2>1, <3>3, <3>4, NoneMade
  <2>3. CASE EditDts
    <3>1. PICK i \in DtIndex : /\ GoodDts(dir.kernel_dts, i)
                               /\ dir' = [dir EXCEPT !.kernel_dts[i] = NewId]
      BY <2>3 DEF EditDts
    <3>2. hist.recipe # "Image.gz-dtb"
      BY <1>0, <3>1 DEF RecipeInv, GoodDts, NoDts
    <3>3. /\ dir'.kernel = dir.kernel /\ dir'.ramdisk = dir.ramdisk
          /\ dir'.meta = dir.meta /\ hist'.recipe = hist.recipe
      BY <1>0, <2>3, <3>1 DEF EditDts, Dir, Hist
    <3>4. RecipeInv'
      BY <1>0, <2>1, <3>2, <3>3 DEF RecipeInv, UnpackPc
    <3> QED BY <1>0, <2>1, <3>3, <3>4, NoneMade
  <2>4. CASE ReplaceKernel
    <3>1. CASE /\ dir' = [dir EXCEPT !.kernel = NewImage(1) \o <<MkCell("dtb", NewId)>>,
                            !.meta.kernel_compression = NONE, !.kernel_dts = NoDts]
               /\ hist' = [hist EXCEPT !.from = NoImage, !.recipe = "Image.gz-dtb",
                       !.complete = @ \/ \A i \in DtIndex : dir.dt_dts[i] # UNFLUSHED]
      <4>1. /\ dir'.kernel = NewImage(1) \o <<MkCell("dtb", NewId)>>
            /\ dir'.meta.kernel_compression = NONE /\ dir'.kernel_dts = NoDts
            /\ dir'.ramdisk = dir.ramdisk /\ hist'.recipe = "Image.gz-dtb"
        BY <1>0, <3>1 DEF Dir, Meta, Hist
      <4>2. RecipeInv'
        BY <2>1, <4>1 DEF RecipeInv, UnpackPc
      <4> QED BY <1>0, <2>1, <4>1, <4>2, NoneMade
    <3>2. CASE /\ dir' = [dir EXCEPT !.kernel = NewImage(1),
                            !.meta.kernel_compression = NONE]
               /\ hist' = [hist EXCEPT !.from = NoImage, !.recipe = "Image.gz"]
      <4>1. /\ dir'.kernel = NewImage(1) /\ dir'.meta.kernel_compression = NONE
            /\ dir'.ramdisk = dir.ramdisk /\ hist'.recipe = "Image.gz"
        BY <1>0, <3>2 DEF Dir, Meta, Hist
      <4>2. RecipeInv'
        BY <2>1, <4>1 DEF RecipeInv, UnpackPc
      <4> QED BY <1>0, <2>1, <4>1, <4>2, NoneMade
    <3>3. CASE /\ dir.meta.kernel_compression # LZMA
               /\ dir' = [dir EXCEPT !.kernel = NewImage(0)]
               /\ hist' = [hist EXCEPT !.from = NoImage, !.recipe = "Image"]
      <4>1. /\ dir'.kernel = NewImage(0) /\ dir'.meta = dir.meta
            /\ dir'.ramdisk = dir.ramdisk /\ hist'.recipe = "Image"
        BY <1>0, <3>3 DEF Dir, Hist
      <4>2. RecipeInv'
        BY <2>1, <3>3, <4>1 DEF RecipeInv, UnpackPc
      <4> QED BY <1>0, <2>1, <4>1, <4>2, NoneMade
    <3> QED BY <2>4, <3>1, <3>2, <3>3 DEF ReplaceKernel
  <2>5. CASE CleanDir
    <3>1. dir'.ramdisk = {} /\ hist'.recipe = "none"
      BY <1>0, <2>5 DEF CleanDir, EmptyDir, Hist
    <3>2. RecipeInv'
      BY <3>1 DEF RecipeInv
    <3> QED BY <2>1, <3>1, <3>2, FS_EmptySet, NoneMade
  <2> QED BY <1>1, <1>2, <1>3, <2>2, <2>3, <2>4, <2>5 DEF User
<1> QED BY <1>1, <1>2, <1>3, <1>4 DEF User, AddFile, RemoveFile, EditDts, EditPageSize,
  ReplaceKernel, CleanDir, Adopt, Edit

-----------------------------------------------------------------------------
(* The theorems.                                                           *)

(* The inductive invariant of this module, with those it rests on.         *)
LEMMA MadeAlways == Spec => [](IInv /\ MadeInv)
<1>1. Init => MadeInv
  <2> SUFFICES ASSUME Init PROVE MadeInv
    OBVIOUS
  <2>1. /\ pc = "idle" /\ dir.ramdisk = {} /\ exit.op = "none" /\ hist.recipe = "none"
    BY DEF Init, EmptyDir, NoExit, NoHist
  <2>2. SectionsInv /\ BufferInv
    BY <2>1 DEF SectionsInv, BufferInv, Building, Finished, KernelCompiled, RamdiskArchived
  <2> QED BY <2>1, <2>2, FS_EmptySet DEF MadeInv, ResultInv, PackSucceeded, RecipeInv
<1>2. IInv /\ OutputInv /\ CompleteInv /\ MadeInv /\ [Next]_vars => MadeInv'
  <2>1. MadeInv /\ UNCHANGED vars => MadeInv'
    BY DEF MadeInv, SectionsInv, BufferInv, ResultInv, PackSucceeded, RecipeInv, vars
  <2> QED BY <2>1, MadeUnpack, MadePack, MadeUser DEF Next
<1>3. Spec => []OutputInv
  BY OutputHolds
<1>4. Spec => []CompleteInv
  BY CompleteHolds
<1> QED BY <1>1, <1>2, <1>3, <1>4, InitIInv, NextIInv, PTL DEF Spec

(* bxxt_boot_pack_all, whatever interrupted it before: when it reports     *)
(* success the output is, cell by cell, the image that BootSpec gives for  *)
(* the directory, with or without the trailing data.                       *)
THEOREM PackMakesTheImage ==
  Spec => [](PackSucceeded =>
               out = [st |-> "whole", img |-> Abs!PackOf(dir, opts.skip)])
<1>1. MadeInv => (PackSucceeded =>
                    out = [st |-> "whole", img |-> Abs!PackOf(dir, opts.skip)])
  BY DEF MadeInv, ResultInv
<1> QED BY <1>1, MadeAlways, PTL

(* A raw kernel of one cell, compressed.                                   *)
LEMMA NewKernel == Gzip(NewImage(0)) = NewImage(1)
  BY DEF Gzip, NewImage, MkCell

(* Without .dts files no device tree follows the kernel.                   *)
LEMMA NoTrees == DtsCells(NoDts) = << >>
<1>1. NoDts \in [DtIndex -> Dts]
  BY DEF NoDts, Dts
<1>2. Compiled(NoDts, 0)
  BY DirAssumption DEF Compiled, DtIndex
<1>3. LastDts(NoDts, 0)
  BY DirAssumption DEF LastDts, NoDts, DtIndex
<1> QED BY <1>1, <1>2, <1>3, TreesAll, TreesNone, DirAssumption

(* Each of README.md's three ways to replace the kernel puts the new       *)
(* kernel, compressed once, and the device trees of the directory into the *)
(* image, in every instance.                                               *)
THEOREM ReplacedKernelIsPacked == Spec => []ReplacedKernelPacked
<1>1. IInv /\ MadeInv => ReplacedKernelPacked
  <2> SUFFICES ASSUME IInv, MadeInv, PackSucceeded PROVE ReplacedKernelPacked
    BY DEF ReplacedKernelPacked, PackSucceeded
  <2> DEFINE k == KernelOf(out.img)
             dts == DtsCells(dir.kernel_dts)
             c == dir.meta.kernel_compression
  <2>1. k = Compressed(dir.kernel, c) \o dts /\ RecipeInv
    BY AbsKernelSection DEF MadeInv, ResultInv
  <2>2. c \in {NONE, GZIP, LZMA} /\ GZIP # NONE /\ LZMA # NONE /\ GZIP # LZMA
    BY PackTypes DEF Compressions, NONE, GZIP, LZMA
  <2>3. hist.recipe = "Image.gz-dtb" => k = NewImage(1) \o <<MkCell("dtb", NewId)>>
    <3> SUFFICES ASSUME hist.recipe = "Image.gz-dtb"
                 PROVE  k = NewImage(1) \o <<MkCell("dtb", NewId)>>
      OBVIOUS
    <3> DEFINE s == NewImage(1) \o <<MkCell("dtb", NewId)>>
    <3>1. dir.kernel = s /\ c = NONE /\ dts = << >>
      BY <2>1, NoTrees DEF RecipeInv
    <3>2. s \in Seq(Cell)
      BY <3>1, PackTypes
    <3> HIDE DEF s, c, k, dts
    <3>3. Compressed(dir.kernel, c) = s
      BY <2>2, <3>1 DEF Compressed
    <3> QED BY <2>1, <3>1, <3>2, <3>3, ConcatEmptySeq DEF s
  <2>4. hist.recipe = "Image.gz" => k = NewImage(1) \o dts
    BY <2>1, <2>2 DEF RecipeInv, Compressed
  <2>5. hist.recipe = "Image" => k = NewImage(IF c = GZIP THEN 1 ELSE 0) \o dts
    <3> SUFFICES ASSUME hist.recipe = "Image"
                 PROVE  k = NewImage(IF c = GZIP THEN 1 ELSE 0) \o dts
      OBVIOUS
    <3>1. dir.kernel = NewImage(0) /\ c # LZMA
      BY <2>1 DEF RecipeInv
    <3> DEFINE z == IF c = GZIP THEN 1 ELSE 0
    <3>2. CASE c = GZIP
      <4>1. z = 1 /\ Compressed(dir.kernel, c) = Gzip(dir.kernel)
        BY <2>2, <3>2 DEF Compressed
      <4> HIDE DEF z, c, k, dts
      <4> QED BY <2>1, <3>1, <4>1, NewKernel DEF z, c
    <3>3. CASE c = NONE
      <4>1. z = 0 /\ Compressed(dir.kernel, c) = dir.kernel
        BY <2>2, <3>3 DEF Compressed
      <4> HIDE DEF z, c, k, dts
      <4> QED BY <2>1, <3>1, <4>1 DEF z, c
    <3> QED BY <2>2, <3>1, <3>2, <3>3
  <2> QED BY <2>3, <2>4, <2>5 DEF ReplacedKernelPacked
<1> QED BY <1>1, MadeAlways, PTL

=============================================================================
