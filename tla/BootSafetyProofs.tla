--------------------------- MODULE BootSafetyProofs ---------------------------
(***************************************************************************)
(* What `bxxt boot' never does to the output file and to the directory,    *)
(* whatever is killed and whatever fails: proofs of OutputSafe,            *)
(* PackedAccepted and NoPackOfPartialUnpack.                               *)
(***************************************************************************)
EXTENDS BootImageProofs

-----------------------------------------------------------------------------
(* The output file.                                                        *)

(* While pack runs its exit status is open, and until bxxt_boot_write_to   *)
(* opens the output the file is the one the command found.                 *)
OutputInv ==
  /\ pc \in UnpackPc => exit.op = "unpack"
  /\ pc \in PackPc => exit.op = "pack" /\ exit.how = "running"
  /\ pc \in PackPc \ {"p_writing"} => out = hist.before
  /\ OutputSafe

(* A step that neither ends the command nor touches the output.            *)
LEMMA OutputKept ==
  ASSUME IInv, OutputInv, UNCHANGED <<out, exit>>, hist'.before = hist.before,
         \/ pc \in UnpackPc /\ pc' \in UnpackPc
         \/ pc \in PackPc \ {"p_writing"} /\ pc' \in PackPc \ {"p_writing"}
  PROVE  OutputInv'
  BY DEF OutputInv, OutputSafe, UnpackPc, PackPc

(* The command ends before the output is opened.                           *)
LEMMA OutputLeave ==
  ASSUME IInv, OutputInv, NEW how, NEW r, Leave(how, r), UNCHANGED out,
         hist'.before = hist.before,
         \/ pc \in UnpackPc
         \/ pc \in PackPc \ {"p_writing"} /\ ~(how = "return" /\ r = SUCCESS)
         \/ how = "kill"
  PROVE  OutputInv'
<1>1. exit' = [exit EXCEPT !.how = how, !.r = r] /\ exit \in Exit /\ pc' = "idle"
  BY DEF Leave, IInv, TypeOK
<1>2. exit'.op = exit.op /\ exit'.how = how /\ exit'.r = r
  BY <1>1 DEF Exit
<1>3. exit.op = "pack" /\ how # "kill" => out = hist.before
  BY DEF OutputInv, UnpackPc, PackPc
<1> QED BY <1>1, <1>2, <1>3 DEF OutputInv, OutputSafe, UnpackPc, PackPc, SUCCESS, FAILED

(* Unpacking does not touch the output.                                    *)
LEMMA OutputUnpack == IInv /\ OutputInv /\ Unpack => OutputInv'
<1> SUFFICES ASSUME IInv, OutputInv, Unpack PROVE OutputInv'
  OBVIOUS
<1>0. hist \in Hist
  BY DEF IInv, TypeOK
<1>1. UNCHANGED out /\ hist'.before = hist.before
  BY <1>0 DEF Unpack, UnpackOpen, UnpackScanKernel, UnpackScanDtb, UnpackKernel,
    UnpackRecoveryDtbo, UnpackSecond, UnpackExtra, UnpackKernelDts, UnpackDtDts,
    UnpackMkdir, UnpackRamdisk, UnpackMeta, UnpackExit, disk, DiskWrite, Hist
<1>2. pc \in UnpackPc
  BY DEF Unpack, UnpackOpen, UnpackScanKernel, UnpackScanDtb, UnpackKernel,
    UnpackRecoveryDtbo, UnpackSecond, UnpackExtra, UnpackKernelDts, UnpackDtDts,
    UnpackMkdir, UnpackRamdisk, UnpackMeta, UnpackExit, UnpackPc
<1>3. (pc' \in UnpackPc /\ UNCHANGED exit) \/ \E r \in {SUCCESS, FAILED} : Leave("return", r)
  BY DEF Unpack, UnpackOpen, UnpackScanKernel, UnpackScanDtb, UnpackKernel,
    UnpackRecoveryDtbo, UnpackSecond, UnpackExtra, UnpackKernelDts, UnpackDtDts,
    UnpackMkdir, UnpackRamdisk, UnpackMeta, UnpackExit, UnpackPc, Goto
<1> QED BY <1>1, <1>2, <1>3, OutputKept, OutputLeave

(* A command of pack ends before the output is opened, in one of its own   *)
(* error paths.                                                            *)
LEMMA OutputPackLeave ==
  ASSUME IInv, OutputInv, pc \in PackPc \ {"p_writing"}, UNCHANGED <<out, hist>>,
         Leave("return", FAILED) \/ Leave("die", 1)
  PROVE  OutputInv'
  BY OutputLeave DEF SUCCESS, FAILED

(* Packing, up to the output: its steps and its error paths.               *)
LEMMA OutputPack == IInv /\ OutputInv /\ Pack => OutputInv'
<1> SUFFICES ASSUME IInv, OutputInv, Pack PROVE OutputInv'
  OBVIOUS
<1>0. hist \in Hist
  BY DEF IInv, TypeOK
<1>1. CASE PackMeta
  <2>1. UNCHANGED out /\ pc \in PackPc \ {"p_writing"} /\ hist'.before = hist.before
    BY <1>0, <1>1 DEF PackMeta, disk, PackPc, Hist
  <2>2. (UNCHANGED hist /\ Leave("return", FAILED)) \/ (pc' = "p_kernel" /\ UNCHANGED exit)
    BY <1>1 DEF PackMeta, Goto
  <2> QED BY <2>1, <2>2, OutputPackLeave, OutputKept DEF PackPc
<1>2. CASE PackKernel \/ PackRamdisk
  <2>1. UNCHANGED <<out, hist>> /\ pc \in PackPc \ {"p_writing"}
    BY <1>2 DEF PackKernel, PackRamdisk, disk, PackPc
  <2>2. Leave("return", FAILED) \/ (pc' \in PackPc \ {"p_writing"} /\ UNCHANGED exit)
    BY <1>2 DEF PackKernel, PackRamdisk, Goto, PackPc
  <2> QED BY <2>1, <2>2, OutputPackLeave, OutputKept
<1>3. CASE PackCompileKernelDts \/ PackCompileDtDts
  <2>1. UNCHANGED <<out, hist>> /\ pc \in PackPc \ {"p_writing"}
    BY <1>3 DEF PackCompileKernelDts, PackCompileDtDts, CompileDts, disk, PackPc
  <2>2. Leave("die", 1) \/ (UNCHANGED <<pc, exit>>)
    BY <1>3 DEF PackCompileKernelDts, PackCompileDtDts, CompileDts
  <2> QED BY <2>1, <2>2, OutputPackLeave, OutputKept
<1>4. CASE \/ PackAddKernel \/ PackCpioEntry \/ PackAddRamdisk \/ PackSecond
           \/ PackRecoveryDtbo \/ PackAddDtb \/ PackExtra \/ PackCheck
  <2>1. UNCHANGED <<out, exit>> /\ hist'.before = hist.before
    BY <1>0, <1>4 DEF PackAddKernel, PackCpioEntry, PackAddRamdisk, PackSecond,
      PackRecoveryDtbo, PackAddDtb, PackExtra, PackCheck, disk, Goto, Hist
  <2>2. pc \in PackPc \ {"p_writing"} /\ pc' \in PackPc \ {"p_writing"}
    BY <1>4 DEF PackAddKernel, PackCpioEntry, PackAddRamdisk, PackSecond,
      PackRecoveryDtbo, PackAddDtb, PackExtra, PackCheck, Goto, PackPc
  <2> QED BY <2>1, <2>2, OutputKept
<1>5. CASE PackOpenOutput
  <2>1. pc = "p_write" /\ UNCHANGED hist
    BY <1>5 DEF PackOpenOutput
  <2>2. CASE Leave("return", FAILED) /\ UNCHANGED out
    BY <2>1, <2>2, OutputPackLeave DEF PackPc
  <2>3. CASE pc' = "p_writing" /\ UNCHANGED exit
    BY <2>1, <2>3 DEF OutputInv, OutputSafe, PackPc, UnpackPc
  <2> QED BY <1>5, <2>2, <2>3 DEF PackOpenOutput, Goto
<1>6. CASE PackWriteOutput
  <2>1. pc = "p_writing" /\ exit \in Exit /\ Len(img.data) \in Nat
    BY <1>6, LenProperties DEF PackWriteOutput, IInv, TypeOK, Image
  <2>2. CASE out' = [st |-> "whole", img |-> img] /\ Leave("return", SUCCESS)
    BY <2>1, <2>2 DEF Leave, OutputInv, OutputSafe, PackPc, UnpackPc, SUCCESS, FAILED, Exit
  <2>3. CASE \E n \in 0..(Len(img.data) - 1) : Leave("return", IF n = 0 THEN -1 ELSE n)
    <3>1. PICK n \in 0..(Len(img.data) - 1) : Leave("return", IF n = 0 THEN -1 ELSE n)
      BY <2>3
    <3>2. exit'.r # SUCCESS /\ exit'.r # FAILED /\ exit'.how = "return" /\ pc' = "idle"
      BY <2>1, <3>1 DEF Leave, Exit, SUCCESS, FAILED
    <3> QED BY <3>2 DEF OutputInv, OutputSafe, PackPc, UnpackPc
  <2> QED BY <1>6, <2>2, <2>3 DEF PackWriteOutput
<1> QED BY <1>1, <1>2, <1>3, <1>4, <1>5, <1>6 DEF Pack

(* The user, and a kill.                                                   *)
LEMMA OutputUser == IInv /\ OutputInv /\ (User \/ Kill) => OutputInv'
<1> SUFFICES ASSUME IInv, OutputInv, User \/ Kill PROVE OutputInv'
  OBVIOUS
<1>1. CASE Kill
  <2>1. UNCHANGED <<out, hist>> /\ Leave("kill", 0)
    BY <1>1 DEF Kill, disk
  <2> QED BY <2>1, OutputLeave
<1>2. CASE \E o \in BOOLEAN : UnpackStart(o)
  BY <1>2 DEF UnpackStart, OutputInv, OutputSafe, PackPc, UnpackPc
<1>3. CASE \E o \in BOOLEAN : PackStart(o)
  <2>1. hist \in Hist /\ out \in Out
    BY DEF IInv, TypeOK
  <2>2. hist'.before = out /\ UNCHANGED out
    BY <1>3, <2>1 DEF PackStart, Hist, disk
  <2> QED BY <1>3, <2>2 DEF PackStart, OutputInv, OutputSafe, PackPc, UnpackPc
<1>4. CASE UserTurn
  BY <1>4 DEF UserTurn, NoExit, OutputInv, OutputSafe, PackPc, UnpackPc
<1> QED BY <1>1, <1>2, <1>3, <1>4 DEF User, AddFile, RemoveFile, EditDts, EditPageSize,
  ReplaceKernel, CleanDir, Adopt, Edit

(* The invariant holds in every behaviour.                                 *)
LEMMA OutputHolds == Spec => []OutputInv
<1>1. Init => OutputInv
  BY DEF Init, OutputInv, OutputSafe, NoExit, PackPc, UnpackPc
<1>2. IInv /\ OutputInv /\ [Next]_vars => OutputInv'
  <2>1. IInv /\ OutputInv /\ UNCHANGED vars => OutputInv'
    BY DEF OutputInv, OutputSafe, vars
  <2> QED BY <2>1, OutputUnpack, OutputPack, OutputUser DEF Next
<1> QED BY <1>1, <1>2, InitIInv, NextIInv, PTL DEF Spec

(* Success is reported for a finished image only, and a pack that is       *)
(* refused or dies in the device tree compiler leaves the earlier output   *)
(* as it was, in every instance.                                           *)
THEOREM OutputIsSafe == Spec => []OutputSafe
<1>1. OutputInv => OutputSafe
  BY DEF OutputInv
<1> QED BY <1>1, OutputHolds, PTL

-----------------------------------------------------------------------------
(* The packed image.                                                       *)

(* METADATA only ever holds a header version that bxxt_boot_init1 has      *)
(* accepted, so that pack writes no other, and the id that pack stores is  *)
(* the digest of what it wrote.                                            *)
AcceptInv ==
  /\ dir.meta.header_version <= 2
  /\ pc \in UnpackPc \ {"u_open"} => boot.hdr.header_version <= 2
  /\ pc \in Building \union Finished => img.hdr.magic /\ img.hdr.header_version <= 2
  /\ pc \in {"p_write", "p_writing"} => img.hdr.id = bxxt_boot_img_signature(img)
  /\ PackedAccepted

(* An image with that digest and an accepted version passes the full check *)
(* unless base_check refuses it.                                           *)
LEMMA Accepted ==
  ASSUME NEW f, f.hdr.magic, f.hdr.header_version <= 2,
         f.hdr.id = bxxt_boot_img_signature(f)
  PROVE  /\ bxxt_boot_img_compat_check(f, FALSE)
         /\ bxxt_boot_img_base_check(f.hdr) => bxxt_boot_init1(f, TRUE, FALSE)
  BY DEF bxxt_boot_img_compat_check, bxxt_boot_init1, bxxt_boot_img_version_check

(* A step that changes neither the output nor the version in METADATA, in  *)
(* a process that holds no image in memory afterwards, or the same.        *)
LEMMA AcceptKept ==
  ASSUME AcceptInv, UNCHANGED out, dir'.meta.header_version = dir.meta.header_version,
         \/ pc' \in {"idle", "u_open", "p_meta"}
         \/ UNCHANGED boot /\ pc \in UnpackPc \ {"u_open"} /\ pc' \in UnpackPc
  PROVE  AcceptInv'
  BY DEF AcceptInv, PackedAccepted, UnpackPc, PackPc, Building, Finished

(* Unpacking: bxxt_boot_init1 has accepted the version that METADATA gets. *)
LEMMA AcceptUnpack == IInv /\ AcceptInv /\ Unpack => AcceptInv'
<1> SUFFICES ASSUME IInv, AcceptInv, Unpack PROVE AcceptInv'
  OBVIOUS
<1>0. dir \in Dir /\ boot \in Image /\ dir.meta \in Meta
  BY DEF IInv, TypeOK, Dir
<1>1. CASE UnpackOpen
  <2>1. UNCHANGED <<dir, boot, out>>
    BY <1>1 DEF UnpackOpen, disk
  <2>2. pc' = "idle" \/ (pc' = "u_scan_kernel" /\ boot.hdr.header_version <= 2)
    BY <1>1 DEF UnpackOpen, Leave, Goto, bxxt_boot_open_file, bxxt_boot_init1,
      bxxt_boot_img_version_check
  <2> QED BY <2>1, <2>2 DEF AcceptInv, PackedAccepted, UnpackPc, PackPc, Building, Finished
<1>2. CASE \/ UnpackScanKernel \/ UnpackScanDtb \/ UnpackKernel \/ UnpackRecoveryDtbo
           \/ UnpackSecond \/ UnpackExtra \/ UnpackKernelDts \/ UnpackDtDts
           \/ UnpackMkdir \/ UnpackRamdisk \/ UnpackExit
  <2>1. UNCHANGED <<boot, out>>
    BY <1>2 DEF UnpackScanKernel, UnpackScanDtb, UnpackKernel, UnpackRecoveryDtbo,
      UnpackSecond, UnpackExtra, UnpackKernelDts, UnpackDtDts, UnpackMkdir, UnpackRamdisk,
      UnpackExit, disk
  <2>2. dir'.meta = dir.meta
    BY <1>0, <1>2 DEF UnpackScanKernel, UnpackScanDtb, UnpackKernel, UnpackRecoveryDtbo,
      UnpackSecond, UnpackExtra, UnpackKernelDts, UnpackDtDts, UnpackMkdir, UnpackRamdisk,
      UnpackExit, disk, Dir
  <2>3. pc \in UnpackPc \ {"u_open"} /\ pc' \in UnpackPc \union {"idle"}
    BY <1>2 DEF UnpackScanKernel, UnpackScanDtb, UnpackKernel, UnpackRecoveryDtbo,
      UnpackSecond, UnpackExtra, UnpackKernelDts, UnpackDtDts, UnpackMkdir, UnpackRamdisk,
      UnpackExit, Goto, Leave, UnpackPc
  <2> QED BY <2>1, <2>2, <2>3, AcceptKept
<1>3. CASE UnpackMeta
  <2>1. pc = "u_meta" /\ pc' = "u_exit" /\ UNCHANGED <<boot, out>>
    BY <1>3 DEF UnpackMeta, Goto
  <2>2. dir'.meta.header_version = boot.hdr.header_version
    BY <1>0, <1>3 DEF UnpackMeta, MetaOf, Dir
  <2> QED BY <2>1, <2>2 DEF AcceptInv, PackedAccepted, UnpackPc, PackPc, Building, Finished
<1> QED BY <1>1, <1>2, <1>3 DEF Unpack

(* Adding a section, or the header of an empty image.                      *)
LEMMA AcceptBuild ==
  ASSUME AcceptInv, UNCHANGED <<dir, out>>, pc' \in Building \union {"p_check"},
         img'.hdr.magic, img'.hdr.header_version <= 2
  PROVE  AcceptInv'
  BY DEF AcceptInv, PackedAccepted, UnpackPc, PackPc, Building, Finished

(* Packing.                                                                *)
LEMMA AcceptPack == IInv /\ AcceptInv /\ Pack => AcceptInv'
<1> SUFFICES ASSUME IInv, AcceptInv, Pack PROVE AcceptInv'
  OBVIOUS
<1>0. dir \in Dir /\ img \in Image /\ img.hdr \in Hdr /\ hist \in Hist
  BY DEF IInv, TypeOK, Image
<1>1. CASE PackMeta
  <2>1. UNCHANGED <<dir, out>>
    BY <1>1 DEF PackMeta, disk
  <2>2. CASE pc' = "idle"
    BY <2>1, <2>2, AcceptKept
  <2>3. CASE pc' # "idle"
    <3>1. pc' = "p_kernel" /\ img'.hdr = bxxt_boot_hdr_from_metadata(dir.meta)
      BY <1>1, <2>3 DEF PackMeta, Leave, Goto
    <3>2. img'.hdr.magic /\ img'.hdr.header_version = dir.meta.header_version
      BY <3>1 DEF bxxt_boot_hdr_from_metadata
    <3> QED BY <2>1, <3>1, <3>2, AcceptBuild DEF AcceptInv, Building
  <2> QED BY <2>2, <2>3
<1>2. CASE \/ PackKernel \/ PackRamdisk \/ PackCompileKernelDts \/ PackCompileDtDts
           \/ PackCpioEntry
  <2>1. UNCHANGED <<dir, out>> /\ pc \in Building
    BY <1>2 DEF PackKernel, PackRamdisk, PackCompileKernelDts, PackCompileDtDts, CompileDts,
      PackCpioEntry, disk, Building
  <2>2. pc' = "idle" \/ (UNCHANGED img /\ pc' \in Building)
    BY <1>2 DEF PackKernel, PackRamdisk, PackCompileKernelDts, PackCompileDtDts, CompileDts,
      PackCpioEntry, Leave, Goto, Building
  <2> QED BY <2>1, <2>2, AcceptKept, AcceptBuild DEF AcceptInv
<1>3. CASE \/ PackAddKernel \/ PackAddRamdisk \/ PackSecond \/ PackRecoveryDtbo
           \/ PackAddDtb \/ PackExtra
  <2>1. /\ UNCHANGED <<dir, out>> /\ pc \in Building
        /\ pc' \in Building \union {"p_check"}
    BY <1>3 DEF PackAddKernel, PackAddRamdisk, PackSecond, PackRecoveryDtbo, PackAddDtb,
      PackExtra, Goto, disk, Building
  <2>2. /\ img'.hdr.magic = img.hdr.magic
        /\ img'.hdr.header_version = img.hdr.header_version
    <3>1. CASE PackAddKernel
      BY <1>0, <3>1 DEF PackAddKernel, AddSection, Hdr
    <3>2. CASE PackAddRamdisk
      BY <1>0, <3>2 DEF PackAddRamdisk, AddSection, Hdr
    <3>3. CASE PackSecond
      <4>1. CASE AddSection([img.hdr EXCEPT !.second_size = Len(dir.second)], dir.second)
        BY <1>0, <4>1 DEF AddSection, Hdr
      <4> QED BY <3>3, <4>1 DEF PackSecond
    <3>4. CASE PackRecoveryDtbo
      <4>1. CASE AddSection([img.hdr EXCEPT !.recovery_dtbo_size = Len(dir.recovery_dtbo)],
                            dir.recovery_dtbo)
        BY <1>0, <4>1 DEF AddSection, Hdr
      <4> QED BY <3>4, <4>1 DEF PackRecoveryDtbo
    <3>5. CASE PackAddDtb
      BY <1>0, <3>5 DEF PackAddDtb, AddSection, Hdr
    <3>6. CASE PackExtra
      BY <1>0, <3>6 DEF PackExtra, AddSection, Hdr
    <3> QED BY <1>3, <3>1, <3>2, <3>3, <3>4, <3>5, <3>6
  <2> QED BY <2>1, <2>2, AcceptBuild DEF AcceptInv
<1>4. CASE PackCheck
  <2>1. pc = "p_check" /\ pc' = "p_write" /\ UNCHANGED <<dir, out>>
    BY <1>4 DEF PackCheck, Goto, disk
  <2>2. img' = WithId(img, bxxt_boot_img_signature(img))
    BY <1>4 DEF PackCheck, WithId
  <2>3. /\ KernelOf(img') = KernelOf(img) /\ RamdiskOf(img') = RamdiskOf(img)
        /\ SecondOf(img') = SecondOf(img) /\ RecoveryDtboOf(img') = RecoveryDtboOf(img)
        /\ DtbOf(img') = DtbOf(img)
    <3>1. /\ img'.data = img.data
          /\ \A field \in {"page_size", "kernel_size", "ramdisk_size", "second_size",
                           "recovery_dtbo_size", "dtb_size"} :
               img'.hdr[field] = img.hdr[field]
      BY <1>0, <2>2 DEF WithId, Image, Hdr
    <3> QED BY <3>1 DEF KernelOf, RamdiskOf, SecondOf, RecoveryDtboOf, DtbOf,
      B_KE_o, B_RA_o, B_SE_o, B_RE_o, B_DT_o
  <2>4. /\ img'.hdr.magic = img.hdr.magic
        /\ img'.hdr.header_version = img.hdr.header_version
        /\ img'.hdr.id = bxxt_boot_img_signature(img)
    BY <1>0, <2>2 DEF WithId, Image, Hdr
  <2>5. bxxt_boot_img_signature(img') = bxxt_boot_img_signature(img)
    BY <2>3, <2>4 DEF bxxt_boot_img_signature
  <2> QED BY <2>1, <2>4, <2>5
    DEF AcceptInv, PackedAccepted, UnpackPc, PackPc, Building, Finished
<1>5. CASE PackOpenOutput
  <2>1. UNCHANGED dir /\ pc = "p_write" /\ (out' = out \/ out'.st = "torn")
    BY <1>5 DEF PackOpenOutput
  <2>2. pc' = "idle" \/ (pc' = "p_writing" /\ UNCHANGED img)
    BY <1>5 DEF PackOpenOutput, Leave, Goto, mem
  <2> QED BY <2>1, <2>2 DEF AcceptInv, PackedAccepted, UnpackPc, PackPc, Building, Finished
<1>6. CASE PackWriteOutput
  <2>1. UNCHANGED dir /\ pc = "p_writing" /\ pc' = "idle"
    BY <1>6 DEF PackWriteOutput, Leave
  <2>2. CASE out' = [st |-> "whole", img |-> img]
    <3>1. PackedAccepted'
      <4>1. /\ bxxt_boot_img_compat_check(img, FALSE)
            /\ bxxt_boot_img_base_check(img.hdr) => bxxt_boot_init1(img, TRUE, FALSE)
        BY <2>1, Accepted DEF AcceptInv, Finished
      <4>2. out'.img = img
        BY <2>2
      <4> QED BY <4>1, <4>2 DEF PackedAccepted
    <3> QED BY <2>1, <3>1 DEF AcceptInv, UnpackPc, PackPc, Building, Finished
  <2>3. CASE UNCHANGED out
    BY <2>1, <2>3, AcceptKept
  <2> QED BY <1>6, <2>2, <2>3 DEF PackWriteOutput
<1> QED BY <1>1, <1>2, <1>3, <1>4, <1>5, <1>6 DEF Pack

(* The user edits neither the version nor the output.                      *)
LEMMA AcceptUser == IInv /\ AcceptInv /\ (User \/ Kill) => AcceptInv'
<1> SUFFICES ASSUME IInv, AcceptInv, User \/ Kill PROVE AcceptInv'
  OBVIOUS
<1>0. dir \in Dir /\ dir.meta \in Meta
  BY DEF IInv, TypeOK, Dir
<1>1. pc' \in {"idle", "u_open", "p_meta"} /\ UNCHANGED out
  BY DEF User, Kill, UnpackStart, PackStart, AddFile, RemoveFile, EditDts, EditPageSize,
    ReplaceKernel, CleanDir, Adopt, Edit, UserTurn, Leave, disk
<1>2. dir'.meta.header_version \in {0, dir.meta.header_version}
  <2>1. CASE Kill \/ \E o \in BOOLEAN : PackStart(o)
    BY <2>1 DEF Kill, PackStart, disk
  <2>2. CASE \E o \in BOOLEAN : UnpackStart(o)
    BY <1>0, <2>2 DEF UnpackStart, NoMeta, Dir
  <2>3. CASE AddFile \/ RemoveFile \/ EditDts \/ EditPageSize \/ ReplaceKernel
    <3>1. CASE AddFile \/ RemoveFile \/ EditDts
      BY <1>0, <3>1 DEF AddFile, RemoveFile, EditDts, Dir
    <3>2. CASE EditPageSize
      BY <1>0, <3>2 DEF EditPageSize, Dir, Meta
    <3>3. CASE ReplaceKernel
      <4>1. \/ dir' = [dir EXCEPT !.kernel = NewImage(1) \o <<MkCell("dtb", NewId)>>,
                           !.meta.kernel_compression = NONE, !.kernel_dts = NoDts]
            \/ dir' = [dir EXCEPT !.kernel = NewImage(1), !.meta.kernel_compression = NONE]
            \/ dir' = [dir EXCEPT !.kernel = NewImage(0)]
        BY <3>3 DEF ReplaceKernel
      <4>2. dir'.meta \in {dir.meta, [dir.meta EXCEPT !.kernel_compression = NONE]}
        BY <1>0, <4>1 DEF Dir
      <4> QED BY <1>0, <4>2 DEF Meta
    <3> QED BY <2>3, <3>1, <3>2, <3>3
  <2>4. CASE CleanDir
    BY <2>4 DEF CleanDir, EmptyDir, NoMeta
  <2>5. CASE Adopt
    BY <2>5 DEF Adopt
  <2> QED BY <2>1, <2>2, <2>3, <2>4, <2>5 DEF User
<1>3. dir'.meta.header_version <= 2
  BY <1>2 DEF AcceptInv
<1>4. PackedAccepted'
  BY <1>1 DEF AcceptInv, PackedAccepted
<1> QED BY <1>1, <1>3, <1>4 DEF AcceptInv, UnpackPc, PackPc, Building, Finished

(* Whatever was unpacked, edited, killed or failed before, an image that   *)
(* pack completed carries the id of its own sections, and unless a section *)
(* is over the limits of base_check, bxxt_boot_init1 accepts it.           *)
THEOREM PackedIsAccepted == Spec => []PackedAccepted
<1>1. Init => AcceptInv
  BY DEF Init, AcceptInv, PackedAccepted, NoOut, EmptyDir, NoMeta, UnpackPc, PackPc,
    Building, Finished
<1>2. IInv /\ AcceptInv /\ [Next]_vars => AcceptInv'
  <2>1. IInv /\ AcceptInv /\ UNCHANGED vars => AcceptInv'
    BY DEF AcceptInv, PackedAccepted, vars
  <2> QED BY <2>1, AcceptUnpack, AcceptPack, AcceptUser DEF Next
<1>3. AcceptInv => PackedAccepted
  BY DEF AcceptInv
<1> QED BY <1>1, <1>2, <1>3, InitIInv, NextIInv, PTL DEF Spec

-----------------------------------------------------------------------------
(* Partial unpacks.                                                        *)

(* The .dts files of a kind are numbered without a gap.                    *)
NoGap(files) ==
  \A i, j \in DtIndex : (i < j /\ files[j] # MISSING) => files[i] # MISSING

Unflushed(files) == \E i \in DtIndex : files[i] = UNFLUSHED

(* The first n were opened by the unpack that runs, or compiled by pack.   *)
Opened(files, n) == \A i \in DtIndex : i < n => files[i] = UNFLUSHED
Compiled(files, n) == \A i \in DtIndex : i < n => files[i] \in Nat

DtsUnpacked == {"u_mkdir", "u_ramdisk", "u_meta", "u_exit"}
KernelCompiled ==
  {"p_ramdisk", "p_cpio", "p_second", "p_recovery_dtbo", "p_dtb", "p_extra"} \union Finished

UnpackInv ==
  /\ pc \in {"u_kernel", "u_recovery_dtbo", "u_second", "u_extra"} => cur.base = 0
  /\ pc \in UnpackPc \ {"u_exit"} => ~dir.meta_ok
  /\ pc = "u_kernel_dts" => Opened(dir.kernel_dts, cur.base)
  /\ pc \in {"u_dt_dts"} \union DtsUnpacked => Opened(dir.kernel_dts, Len(b.kernel_dtb))
  /\ pc = "u_dt_dts" => Opened(dir.dt_dts, cur.base)
  /\ pc \in DtsUnpacked => Opened(dir.dt_dts, Len(b.dtb))

PackInv ==
  /\ pc \in {"p_second", "p_recovery_dtbo"} => cur.base = 0
  /\ pc \in Building \union Finished => dir.meta_ok
  /\ pc = "p_kernel_dts" => Compiled(dir.kernel_dts, cur.base)
  /\ pc \in KernelCompiled => ~Unflushed(dir.kernel_dts)
  /\ pc = "p_dtb" => Compiled(dir.dt_dts, cur.base)
  /\ pc \in {"p_extra"} \union Finished => ~Unflushed(dir.dt_dts)

(* A directory with METADATA that an unpack did not finish holds a .dts    *)
(* file whose text never reached the disk: pack will meet it and die.      *)
CompleteInv ==
  /\ NoGap(dir.kernel_dts) /\ NoGap(dir.dt_dts)
  /\ (dir.meta_ok /\ ~hist.complete) => Unflushed(dir.kernel_dts) \/ Unflushed(dir.dt_dts)
  /\ UnpackInv /\ PackInv
  /\ NoPackOfPartialUnpack

(* The invariants about one command are void while it does not run.        *)
LEMMA UnpackVoid == pc' \notin UnpackPc => UnpackInv'
  BY DEF UnpackInv, UnpackPc, DtsUnpacked

LEMMA PackVoid == pc' \notin PackPc \/ pc' = "p_meta" => PackInv'
  BY DEF PackInv, PackPc, KernelCompiled, Building, Finished

(* The types these proofs rest on.                                         *)
LEMMA DtsTypes ==
  ASSUME IInv
  PROVE  /\ dir \in Dir /\ dir.kernel_dts \in [DtIndex -> Dts]
         /\ dir.dt_dts \in [DtIndex -> Dts]
         /\ cur \in Cur /\ cur.base \in Nat /\ hist \in Hist
         /\ b.kernel_dtb \in Seq(Nat) /\ b.dtb \in Seq(Nat)
         /\ Len(b.kernel_dtb) \in Nat /\ Len(b.dtb) \in Nat
         /\ MaxDtb \in Nat \ {0} /\ DtIndex = 0..(MaxDtb - 1)
<1>1. dir \in Dir /\ cur \in Cur /\ hist \in Hist /\ b \in BootT
  BY DEF IInv, TypeOK
<1>2. b.kernel_dtb \in Seq(Nat) /\ b.dtb \in Seq(Nat)
  BY <1>1 DEF BootT
<1> QED BY <1>1, <1>2, LenProperties, DirAssumption DEF Dir, Cur, DtIndex

(* A step that changes neither the .dts files nor METADATA's presence.     *)
LEMMA CompleteKept ==
  ASSUME CompleteInv, UNCHANGED out,
         dir'.kernel_dts = dir.kernel_dts, dir'.dt_dts = dir.dt_dts,
         dir'.meta_ok = dir.meta_ok,
         hist'.complete = hist.complete, hist'.made_complete = hist.made_complete,
         UnpackInv', PackInv'
  PROVE  CompleteInv'
  BY DEF CompleteInv, NoPackOfPartialUnpack

(* Opening the next .dts file leaves no gap.                               *)
LEMMA OpenNext ==
  ASSUME NEW files \in [DtIndex -> Dts], NEW n \in Nat, NoGap(files), Opened(files, n),
         NEW new, new = [files EXCEPT ![n] = UNFLUSHED]
  PROVE  NoGap(new) /\ Opened(new, n + 1)
<1>1. \A i \in DtIndex : i \in Int /\ new[i] = IF i = n THEN UNFLUSHED ELSE files[i]
  BY DEF DtIndex
<1>2. UNFLUSHED # MISSING
  BY DEF UNFLUSHED, MISSING
<1>3. Opened(new, n + 1)
  BY <1>1 DEF Opened
<1>4. NoGap(new)
  <2> SUFFICES ASSUME NEW i \in DtIndex, NEW j \in DtIndex, i < j, new[j] # MISSING
               PROVE  new[i] # MISSING
    BY DEF NoGap
  <2>1. CASE j = n
    BY <1>1, <1>2, <2>1 DEF Opened
  <2>2. CASE j # n
    BY <1>1, <1>2, <2>2 DEF NoGap
  <2> QED BY <2>1, <2>2
<1> QED BY <1>3, <1>4

(* Flushing the files that were opened leaves no gap.                      *)
LEMMA FlushNoGap ==
  ASSUME NEW files \in [DtIndex -> Dts], NEW dtb \in Seq(Nat), NoGap(files),
         Opened(files, Len(dtb))
  PROVE  NoGap(Flushed(files, dtb))
<1>1. /\ Len(dtb) \in Nat /\ \A i \in DtIndex : i \in Nat
      /\ \A i \in DtIndex : i < Len(dtb) => dtb[i + 1] # MISSING
  BY LenProperties, DirAssumption DEF DtIndex, MISSING
<1>2. \A i \in DtIndex :
        Flushed(files, dtb)[i] = IF i < Len(dtb) THEN dtb[i + 1] ELSE files[i]
  BY DEF Flushed
<1> SUFFICES ASSUME NEW i \in DtIndex, NEW j \in DtIndex, i < j,
                    Flushed(files, dtb)[j] # MISSING
             PROVE  Flushed(files, dtb)[i] # MISSING
  BY DEF NoGap
<1>3. CASE i < Len(dtb)
  BY <1>1, <1>2, <1>3
<1>4. CASE ~(i < Len(dtb))
  <2>1. ~(j < Len(dtb))
    BY <1>1, <1>4
  <2> QED BY <1>2, <1>4, <2>1 DEF NoGap
<1> QED BY <1>3, <1>4

(* When the loop of bxxt_boot_compile_fs2blob ends without dying, no file  *)
(* is unflushed.                                                           *)
LEMMA CompiledAll ==
  ASSUME NEW files \in [DtIndex -> Dts], NEW n \in Nat, NoGap(files), Compiled(files, n),
         LastDts(files, n)
  PROVE  ~Unflushed(files)
<1> SUFFICES ASSUME NEW i \in DtIndex, files[i] = UNFLUSHED PROVE FALSE
  BY DEF Unflushed
<1>1. i \in Nat /\ i < MaxDtb
  BY DirAssumption DEF DtIndex
<1>2. UNFLUSHED \notin Nat /\ UNFLUSHED # MISSING
  BY DEF UNFLUSHED, MISSING
<1>3. ~(i < n)
  BY <1>2 DEF Compiled
<1>4. n < MaxDtb /\ n \in DtIndex /\ files[n] = MISSING
  BY <1>1, <1>3, DirAssumption DEF LastDts, DtIndex
<1>5. n < i
  BY <1>1, <1>2, <1>3, <1>4
<1> QED BY <1>2, <1>4, <1>5 DEF NoGap

(* Compiling the next file.                                                *)
LEMMA CompileNext ==
  ASSUME NEW files \in [DtIndex -> Dts], NEW n \in Nat, Compiled(files, n), GoodDts(files, n)
  PROVE  Compiled(files, n + 1)
<1>1. n \in DtIndex /\ files[n] \in Nat
  BY DirAssumption DEF GoodDts, Dts, DtIndex
<1> QED BY <1>1 DEF Compiled, DtIndex

(* Unpacking, step by step.                                                *)
LEMMA CompleteUnpack == IInv /\ CompleteInv /\ Unpack => CompleteInv'
<1> SUFFICES ASSUME IInv, CompleteInv, Unpack PROVE CompleteInv'
  OBVIOUS
<1>0. UnpackInv /\ NoGap(dir.kernel_dts) /\ NoGap(dir.dt_dts)
  BY DEF CompleteInv
<1>1. CASE UnpackOpen \/ UnpackScanKernel \/ UnpackScanDtb
  <2>1. UNCHANGED <<dir, out, hist>> /\ pc \in {"u_open", "u_scan_kernel", "u_scan_dtb"}
    BY <1>1 DEF UnpackOpen, UnpackScanKernel, UnpackScanDtb, disk
  <2>2. \/ pc' \in {"idle", "u_scan_kernel", "u_scan_dtb"}
        \/ pc' = "u_kernel" /\ cur' = NoCur
    BY <1>1 DEF UnpackOpen, UnpackScanKernel, UnpackScanDtb, Leave, Goto
  <2>3. UnpackInv' /\ PackInv'
    BY <1>0, <2>1, <2>2, PackVoid DEF UnpackInv, UnpackPc, PackPc, DtsUnpacked, NoCur
  <2> QED BY <2>1, <2>3, CompleteKept
<1>2. CASE UnpackKernel \/ UnpackRecoveryDtbo \/ UnpackSecond \/ UnpackExtra
  <2>1. /\ UNCHANGED <<out, cur, b>> /\ hist'.complete = hist.complete
        /\ hist'.made_complete = hist.made_complete
    BY <1>2, DtsTypes DEF UnpackKernel, UnpackRecoveryDtbo, UnpackSecond, UnpackExtra,
      DiskWrite, Hist, mem
  <2>2. /\ dir'.kernel_dts = dir.kernel_dts /\ dir'.dt_dts = dir.dt_dts
        /\ dir'.meta_ok = dir.meta_ok
    BY <1>2, DtsTypes DEF UnpackKernel, UnpackRecoveryDtbo, UnpackSecond, UnpackExtra, Dir
  <2>3. /\ pc \in {"u_kernel", "u_recovery_dtbo", "u_second", "u_extra"}
        /\ pc' \in {"u_recovery_dtbo", "u_second", "u_extra", "u_kernel_dts"}
    BY <1>2 DEF UnpackKernel, UnpackRecoveryDtbo, UnpackSecond, UnpackExtra, Goto
  <2>4. cur'.base = 0 /\ ~dir'.meta_ok
    BY <1>0, <2>1, <2>2, <2>3 DEF UnpackInv, UnpackPc
  <2>5. Opened(dir'.kernel_dts, 0)
    BY DirAssumption DEF Opened, DtIndex
  <2>6. UnpackInv' /\ PackInv'
    BY <2>3, <2>4, <2>5, PackVoid DEF UnpackInv, UnpackPc, PackPc, DtsUnpacked
  <2> QED BY <2>1, <2>2, <2>6, CompleteKept
<1>3. CASE UnpackKernelDts
  <2>1. pc = "u_kernel_dts" /\ UNCHANGED <<out, hist, b>>
    BY <1>3 DEF UnpackKernelDts
  <2>2. CASE /\ dir' = [dir EXCEPT !.kernel_dts[cur.base] = UNFLUSHED]
             /\ cur' = [cur EXCEPT !.base = @ + 1] /\ pc' = "u_kernel_dts"
    <3>1. /\ dir'.kernel_dts = [dir.kernel_dts EXCEPT ![cur.base] = UNFLUSHED]
          /\ dir'.dt_dts = dir.dt_dts /\ dir'.meta_ok = dir.meta_ok
          /\ cur'.base = cur.base + 1
      BY <2>2, DtsTypes DEF Dir, Cur
    <3>2. NoGap(dir'.kernel_dts) /\ Opened(dir'.kernel_dts, cur'.base)
      <4>1. Opened(dir.kernel_dts, cur.base)
        BY <1>0, <2>1 DEF UnpackInv
      <4> QED BY <1>0, <3>1, <4>1, DtsTypes, OpenNext
    <3>3. UnpackInv' /\ PackInv' /\ ~dir'.meta_ok
      BY <1>0, <2>1, <2>2, <3>1, <3>2, PackVoid DEF UnpackInv, UnpackPc, PackPc, DtsUnpacked
    <3> QED BY <1>0, <2>1, <3>1, <3>2, <3>3 DEF CompleteInv, NoPackOfPartialUnpack
  <2>3. CASE /\ cur.base = Len(b.kernel_dtb) /\ cur' = NoCur /\ pc' = "u_dt_dts"
             /\ UNCHANGED dir
    <3>1. Opened(dir'.kernel_dts, Len(b'.kernel_dtb)) /\ ~dir'.meta_ok
      BY <1>0, <2>1, <2>3 DEF UnpackInv, UnpackPc
    <3>2. Opened(dir'.dt_dts, cur'.base)
      BY <2>3, DirAssumption DEF Opened, DtIndex, NoCur
    <3>3. UnpackInv' /\ PackInv'
      BY <2>3, <3>1, <3>2, PackVoid DEF UnpackInv, UnpackPc, PackPc, DtsUnpacked
    <3> QED BY <2>1, <2>3, <3>3, CompleteKept
  <2> QED BY <1>3, <2>2, <2>3 DEF UnpackKernelDts, Goto
<1>4. CASE UnpackDtDts
  <2>1. pc = "u_dt_dts" /\ UNCHANGED <<out, hist, b>>
    BY <1>4 DEF UnpackDtDts
  <2>2. CASE /\ dir' = [dir EXCEPT !.dt_dts[cur.base] = UNFLUSHED]
             /\ cur' = [cur EXCEPT !.base = @ + 1] /\ pc' = "u_dt_dts"
    <3>1. /\ dir'.dt_dts = [dir.dt_dts EXCEPT ![cur.base] = UNFLUSHED]
          /\ dir'.kernel_dts = dir.kernel_dts /\ dir'.meta_ok = dir.meta_ok
          /\ cur'.base = cur.base + 1
      BY <2>2, DtsTypes DEF Dir, Cur
    <3>2. NoGap(dir'.dt_dts) /\ Opened(dir'.dt_dts, cur'.base)
      <4>1. NoGap(dir.dt_dts) /\ Opened(dir.dt_dts, cur.base)
        BY <1>0, <2>1 DEF UnpackInv
      <4>2. dir.dt_dts \in [DtIndex -> Dts] /\ cur.base \in Nat
        BY DtsTypes
      <4> QED BY <3>1, <4>1, <4>2, OpenNext
    <3>3. UnpackInv' /\ PackInv' /\ ~dir'.meta_ok
      BY <1>0, <2>1, <2>2, <3>1, <3>2, PackVoid DEF UnpackInv, UnpackPc, PackPc, DtsUnpacked
    <3> QED BY <1>0, <2>1, <3>1, <3>2, <3>3 DEF CompleteInv, NoPackOfPartialUnpack
  <2>3. CASE cur.base = Len(b.dtb) /\ pc' = "u_mkdir" /\ UNCHANGED dir
    <3>1. UnpackInv' /\ PackInv'
      BY <1>0, <2>1, <2>3, PackVoid DEF UnpackInv, UnpackPc, PackPc, DtsUnpacked
    <3> QED BY <2>1, <2>3, <3>1, CompleteKept
  <2> QED BY <1>4, <2>2, <2>3 DEF UnpackDtDts, Goto
<1>5. CASE UnpackMkdir \/ UnpackRamdisk
  <2>1. /\ UNCHANGED <<out, hist, b>> /\ pc \in {"u_mkdir", "u_ramdisk"}
        /\ pc' \in {"u_ramdisk", "u_meta"}
    BY <1>5 DEF UnpackMkdir, UnpackRamdisk, Goto, mem
  <2>2. /\ dir'.kernel_dts = dir.kernel_dts /\ dir'.dt_dts = dir.dt_dts
        /\ dir'.meta_ok = dir.meta_ok
    BY <1>5, DtsTypes DEF UnpackMkdir, UnpackRamdisk, Dir
  <2>3. UnpackInv' /\ PackInv'
    BY <1>0, <2>1, <2>2, PackVoid DEF UnpackInv, UnpackPc, PackPc, DtsUnpacked
  <2> QED BY <2>1, <2>2, <2>3, CompleteKept
<1>6. CASE UnpackMeta
  <2>1. pc = "u_meta" /\ pc' = "u_exit" /\ UNCHANGED <<out, b>>
    BY <1>6 DEF UnpackMeta, Goto, mem
  <2>2. dir'.kernel_dts = dir.kernel_dts /\ dir'.dt_dts = dir.dt_dts
    BY <1>6, DtsTypes DEF UnpackMeta, Dir
  <2>3. /\ hist'.complete = (b.kernel_dtb = << >> /\ b.dtb = << >>)
        /\ hist'.made_complete = hist.made_complete
    BY <1>6, DtsTypes DEF UnpackMeta, Hist
  <2>4. Opened(dir.kernel_dts, Len(b.kernel_dtb)) /\ Opened(dir.dt_dts, Len(b.dtb))
    BY <1>0, <2>1 DEF UnpackInv, DtsUnpacked
  <2>5. UnpackInv' /\ PackInv'
    BY <2>1, <2>2, <2>4, PackVoid DEF UnpackInv, UnpackPc, PackPc, DtsUnpacked
  <2>6. ~hist'.complete => Unflushed(dir.kernel_dts) \/ Unflushed(dir.dt_dts)
    <3>1. ~hist'.complete => Len(b.kernel_dtb) > 0 \/ Len(b.dtb) > 0
      <4>1. ~hist'.complete => b.kernel_dtb # << >> \/ b.dtb # << >>
        BY <2>3
      <4> QED BY <4>1, DtsTypes, EmptySeq
    <3>2. 0 \in DtIndex
      BY DirAssumption DEF DtIndex
    <3> QED BY <2>4, <3>1, <3>2, DtsTypes DEF Opened, Unflushed
  <2> QED BY <1>0, <2>1, <2>2, <2>3, <2>5, <2>6 DEF CompleteInv, NoPackOfPartialUnpack
<1>7. CASE UnpackExit
  <2>1. pc = "u_exit" /\ pc' = "idle" /\ UNCHANGED out
    BY <1>7 DEF UnpackExit, Leave
  <2>2. /\ dir'.kernel_dts = Flushed(dir.kernel_dts, b.kernel_dtb)
        /\ dir'.dt_dts = Flushed(dir.dt_dts, b.dtb)
    BY <1>7, DtsTypes DEF UnpackExit, Dir
  <2>3. hist'.complete /\ hist'.made_complete = hist.made_complete
    BY <1>7, DtsTypes DEF UnpackExit, Hist
  <2>4. Opened(dir.kernel_dts, Len(b.kernel_dtb)) /\ Opened(dir.dt_dts, Len(b.dtb))
    BY <1>0, <2>1 DEF UnpackInv, DtsUnpacked
  <2>5. NoGap(dir'.kernel_dts) /\ NoGap(dir'.dt_dts)
    BY <1>0, <2>2, <2>4, DtsTypes, FlushNoGap
  <2>6. UnpackInv' /\ PackInv'
    BY <2>1, UnpackVoid, PackVoid DEF UnpackPc, PackPc
  <2> QED BY <2>1, <2>3, <2>5, <2>6 DEF CompleteInv, NoPackOfPartialUnpack
<1> QED BY <1>1, <1>2, <1>3, <1>4, <1>5, <1>6, <1>7 DEF Unpack

(* Packing: only a directory without unflushed files reaches the output.   *)
LEMMA CompletePack == IInv /\ CompleteInv /\ Pack => CompleteInv'
<1> SUFFICES ASSUME IInv, CompleteInv, Pack PROVE CompleteInv'
  OBVIOUS
<1>0. PackInv /\ NoGap(dir.kernel_dts) /\ NoGap(dir.dt_dts)
  BY DEF CompleteInv
<1>1. UNCHANGED dir /\ hist'.complete = hist.complete
  BY DtsTypes DEF Pack, PackMeta, PackKernel, PackCompileKernelDts, PackAddKernel,
    PackRamdisk, PackCpioEntry, PackAddRamdisk, PackSecond, PackRecoveryDtbo,
    PackCompileDtDts, PackAddDtb, PackExtra, PackCheck, PackOpenOutput, PackWriteOutput,
    CompileDts, disk, Hist
<1>2. pc' \in PackPc \union {"idle"}
  BY DEF Pack, PackMeta, PackKernel, PackCompileKernelDts, PackAddKernel,
    PackRamdisk, PackCpioEntry, PackAddRamdisk, PackSecond, PackRecoveryDtbo,
    PackCompileDtDts, PackAddDtb, PackExtra, PackCheck, PackOpenOutput, PackWriteOutput,
    CompileDts, Goto, Leave, PackPc
<1>3. UnpackInv'
  BY <1>2, UnpackVoid DEF UnpackPc, PackPc
<1>4. PackInv'
  <2>1. CASE pc' = "idle"
    BY <2>1, PackVoid DEF PackPc
  <2>2. CASE PackMeta /\ pc' # "idle"
    <3>1. pc' = "p_kernel" /\ dir.meta_ok
      BY <2>2 DEF PackMeta, Leave, Goto, MetaReads
    <3> QED BY <1>1, <3>1 DEF PackInv, KernelCompiled, Building, Finished
  <2>3. CASE PackKernel /\ pc' # "idle"
    <3>1. pc = "p_kernel" /\ pc' = "p_kernel_dts" /\ cur'.base = 0
      BY <2>3 DEF PackKernel, Leave, Goto, NoCur
    <3>2. Compiled(dir.kernel_dts, 0)
      BY DirAssumption DEF Compiled, DtIndex
    <3> QED BY <1>0, <1>1, <3>1, <3>2 DEF PackInv, KernelCompiled, Building, Finished
  <2>4. CASE PackCompileKernelDts /\ pc' # "idle"
    <3>1. /\ pc = "p_kernel_dts" /\ pc' = pc /\ GoodDts(dir.kernel_dts, cur.base)
          /\ cur'.base = cur.base + 1
      BY <2>4, DtsTypes DEF PackCompileKernelDts, CompileDts, Leave, Cur
    <3>2. Compiled(dir.kernel_dts, cur.base + 1)
      BY <1>0, <3>1, DtsTypes, CompileNext DEF PackInv
    <3> QED BY <1>0, <1>1, <3>1, <3>2 DEF PackInv, KernelCompiled, Building, Finished
  <2>5. CASE PackAddKernel
    <3>1. pc = "p_kernel_dts" /\ pc' = "p_ramdisk" /\ LastDts(dir.kernel_dts, cur.base)
      BY <2>5 DEF PackAddKernel, Goto
    <3>2. ~Unflushed(dir.kernel_dts)
      BY <1>0, <3>1, DtsTypes, CompiledAll DEF PackInv
    <3> QED BY <1>0, <1>1, <3>1, <3>2 DEF PackInv, KernelCompiled, Building, Finished
  <2>6. CASE (PackRamdisk \/ PackCpioEntry) /\ pc' # "idle"
    <3>1. pc \in {"p_ramdisk", "p_cpio"} /\ pc' = "p_cpio"
      BY <2>6 DEF PackRamdisk, PackCpioEntry, Leave, Goto
    <3> QED BY <1>0, <1>1, <3>1 DEF PackInv, KernelCompiled, Building, Finished
  <2>7. CASE PackAddRamdisk
    <3>1. pc = "p_cpio" /\ pc' = "p_second" /\ cur'.base = 0
      BY <2>7 DEF PackAddRamdisk, Goto, NoCur
    <3> QED BY <1>0, <1>1, <3>1 DEF PackInv, KernelCompiled, Building, Finished
  <2>8. CASE PackSecond \/ PackRecoveryDtbo
    <3>1. /\ pc \in {"p_second", "p_recovery_dtbo"} /\ pc' \in {"p_recovery_dtbo", "p_dtb"}
          /\ UNCHANGED cur
      BY <2>8 DEF PackSecond, PackRecoveryDtbo, Goto
    <3>2. Compiled(dir.dt_dts, 0)
      BY DirAssumption DEF Compiled, DtIndex
    <3> QED BY <1>0, <1>1, <3>1, <3>2 DEF PackInv, KernelCompiled, Building, Finished
  <2>9. CASE PackCompileDtDts /\ pc' # "idle"
    <3>1. /\ pc = "p_dtb" /\ pc' = pc /\ GoodDts(dir.dt_dts, cur.base)
          /\ cur'.base = cur.base + 1
      BY <2>9, DtsTypes DEF PackCompileDtDts, CompileDts, Leave, Cur
    <3>2. Compiled(dir.dt_dts, cur.base + 1)
      BY <1>0, <3>1, DtsTypes, CompileNext DEF PackInv
    <3> QED BY <1>0, <1>1, <3>1, <3>2 DEF PackInv, KernelCompiled, Building, Finished
  <2>10. CASE PackAddDtb
    <3>1. pc = "p_dtb" /\ pc' = "p_extra" /\ LastDts(dir.dt_dts, cur.base)
      BY <2>10 DEF PackAddDtb, Goto
    <3>2. ~Unflushed(dir.dt_dts)
      BY <1>0, <3>1, DtsTypes, CompiledAll DEF PackInv
    <3> QED BY <1>0, <1>1, <3>1, <3>2 DEF PackInv, KernelCompiled, Building, Finished
  <2>11. CASE (PackExtra \/ PackCheck \/ PackOpenOutput \/ PackWriteOutput) /\ pc' # "idle"
    <3>1. pc \in {"p_extra"} \union Finished /\ pc' \in Finished
      BY <2>11 DEF PackExtra, PackCheck, PackOpenOutput, PackWriteOutput, Leave, Goto, Finished
    <3> QED BY <1>0, <1>1, <3>1 DEF PackInv, KernelCompiled, Building, Finished
  <2> QED BY <2>1, <2>2, <2>3, <2>4, <2>5, <2>6, <2>7, <2>8, <2>9, <2>10, <2>11 DEF Pack
<1>5. NoPackOfPartialUnpack'
  <2>1. CASE PackWriteOutput
    <3>1. pc = "p_writing" /\ (UNCHANGED <<out, hist>> \/ hist'.made_complete = hist.complete)
      BY <2>1, DtsTypes DEF PackWriteOutput, Hist
    <3>2. hist.complete
      BY <3>1 DEF CompleteInv, PackInv, KernelCompiled, Building, Finished
    <3> QED BY <3>1, <3>2 DEF CompleteInv, NoPackOfPartialUnpack
  <2>2. CASE PackOpenOutput
    <3>1. UNCHANGED hist /\ (out'.st = "torn" \/ UNCHANGED out)
      BY <2>2 DEF PackOpenOutput
    <3> QED BY <3>1 DEF CompleteInv, NoPackOfPartialUnpack
  <2>3. CASE ~PackWriteOutput /\ ~PackOpenOutput
    <3>1. UNCHANGED out /\ hist'.made_complete = hist.made_complete
      BY <2>3, DtsTypes DEF Pack, PackMeta, PackKernel, PackCompileKernelDts, PackAddKernel,
        PackRamdisk, PackCpioEntry, PackAddRamdisk, PackSecond, PackRecoveryDtbo,
        PackCompileDtDts, PackAddDtb, PackExtra, PackCheck, CompileDts, disk, Hist
    <3> QED BY <3>1 DEF CompleteInv, NoPackOfPartialUnpack
  <2> QED BY <2>1, <2>2, <2>3
<1> QED BY <1>0, <1>1, <1>3, <1>4, <1>5 DEF CompleteInv

(* The user, and a kill.                                                   *)
LEMMA CompleteUser == IInv /\ CompleteInv /\ (User \/ Kill) => CompleteInv'
<1> SUFFICES ASSUME IInv, CompleteInv, User \/ Kill PROVE CompleteInv'
  OBVIOUS
<1>0. NoGap(dir.kernel_dts) /\ NoGap(dir.dt_dts)
  BY DEF CompleteInv
<1>1. UNCHANGED out /\ pc' \in {"idle", "u_open", "p_meta"}
  BY DEF User, Kill, UnpackStart, PackStart, AddFile, RemoveFile, EditDts, EditPageSize,
    ReplaceKernel, CleanDir, Adopt, Edit, UserTurn, Leave, disk
<1>2. hist'.made_complete = hist.made_complete
  BY DtsTypes DEF User, Kill, UnpackStart, PackStart, AddFile, RemoveFile, EditDts,
    EditPageSize, ReplaceKernel, CleanDir, Adopt, Hist
<1>3. PackInv'
  BY <1>1, PackVoid DEF PackPc
<1>4. NoPackOfPartialUnpack'
  BY <1>1, <1>2 DEF CompleteInv, NoPackOfPartialUnpack
<1>5. CASE \E o \in BOOLEAN : UnpackStart(o)
  <2>1. /\ dir'.kernel_dts = dir.kernel_dts /\ dir'.dt_dts = dir.dt_dts
        /\ ~dir'.meta_ok /\ pc' = "u_open"
    BY <1>5, DtsTypes DEF UnpackStart, Dir
  <2>2. UnpackInv'
    BY <2>1 DEF UnpackInv, DtsUnpacked
  <2> QED BY <1>0, <1>3, <1>4, <2>1, <2>2 DEF CompleteInv
<1>6. CASE pc' # "u_open"
  <2>0. UnpackInv'
    BY <1>1, <1>6, UnpackVoid DEF UnpackPc
  <2>1. CASE Kill \/ (\E o \in BOOLEAN : PackStart(o)) \/ Adopt
    <3>1. UNCHANGED dir /\ hist'.complete = hist.complete
      BY <2>1, DtsTypes DEF Kill, PackStart, Adopt, disk, Hist
    <3> QED BY <1>1, <1>2, <1>3, <2>0, <3>1, CompleteKept
  <2>2. CASE AddFile \/ RemoveFile \/ EditPageSize
    <3>1. /\ dir'.kernel_dts = dir.kernel_dts /\ dir'.dt_dts = dir.dt_dts
          /\ dir'.meta_ok = dir.meta_ok /\ hist'.complete = hist.complete
      BY <2>2, DtsTypes DEF AddFile, RemoveFile, EditPageSize, Dir, Hist
    <3> QED BY <1>1, <1>2, <1>3, <2>0, <3>1, CompleteKept
  <2>3. CASE EditDts
    <3>1. PICK i \in DtIndex : /\ GoodDts(dir.kernel_dts, i)
                               /\ dir' = [dir EXCEPT !.kernel_dts[i] = NewId]
      BY <2>3 DEF EditDts
    <3>2. /\ dir'.kernel_dts = [dir.kernel_dts EXCEPT ![i] = NewId]
          /\ dir'.dt_dts = dir.dt_dts /\ dir'.meta_ok = dir.meta_ok
          /\ hist'.complete = hist.complete
      BY <2>3, <3>1, DtsTypes DEF EditDts, Dir, Hist
    <3>3. NewId # MISSING /\ dir.kernel_dts[i] # MISSING /\ dir.kernel_dts[i] # UNFLUSHED
      BY <3>1, BootAssumption DEF GoodDts, MISSING
    <3>4. NoGap(dir'.kernel_dts)
      BY <1>0, <3>2, <3>3, DtsTypes DEF NoGap
    <3>5. Unflushed(dir.kernel_dts) => Unflushed(dir'.kernel_dts)
      BY <3>2, <3>3, DtsTypes DEF Unflushed
    <3> QED BY <1>0, <1>3, <1>4, <2>0, <3>2, <3>4, <3>5 DEF CompleteInv
  <2>4. CASE ReplaceKernel
    <3>1. CASE /\ dir' = [dir EXCEPT !.kernel = NewImage(1) \o <<MkCell("dtb", NewId)>>,
                            !.meta.kernel_compression = NONE, !.kernel_dts = NoDts]
               /\ hist' = [hist EXCEPT !.from = NoImage, !.recipe = "Image.gz-dtb",
                       !.complete = @ \/ \A i \in DtIndex : dir.dt_dts[i] # UNFLUSHED]
      <4>1. dir'.kernel_dts = NoDts /\ dir'.dt_dts = dir.dt_dts
        BY <3>1, DtsTypes DEF Dir
      <4>2. hist'.complete =
              (hist.complete \/ \A i \in DtIndex : dir.dt_dts[i] # UNFLUSHED)
        BY <3>1, DtsTypes DEF Hist
      <4>3. NoGap(dir'.kernel_dts)
        BY <4>1 DEF NoDts, NoGap
      <4>4. ~hist'.complete => Unflushed(dir'.dt_dts)
        BY <4>1, <4>2 DEF Unflushed
      <4> QED BY <1>0, <1>3, <1>4, <2>0, <4>1, <4>3, <4>4 DEF CompleteInv
    <3>2. CASE \/ /\ dir' = [dir EXCEPT !.kernel = NewImage(1),
                               !.meta.kernel_compression = NONE]
                  /\ hist' = [hist EXCEPT !.from = NoImage, !.recipe = "Image.gz"]
               \/ /\ dir' = [dir EXCEPT !.kernel = NewImage(0)]
                  /\ hist' = [hist EXCEPT !.from = NoImage, !.recipe = "Image"]
      <4>1. /\ dir'.kernel_dts = dir.kernel_dts /\ dir'.dt_dts = dir.dt_dts
            /\ dir'.meta_ok = dir.meta_ok /\ hist'.complete = hist.complete
        BY <3>2, DtsTypes DEF Dir, Hist
      <4> QED BY <1>1, <1>2, <1>3, <2>0, <4>1, CompleteKept
    <3> QED BY <2>4, <3>1, <3>2 DEF ReplaceKernel
  <2>5. CASE CleanDir
    <3>1. dir' = EmptyDir
      BY <2>5 DEF CleanDir
    <3> QED BY <1>3, <1>4, <2>0, <3>1 DEF CompleteInv, EmptyDir, NoDts, NoGap
  <2> QED BY <1>6, <2>1, <2>2, <2>3, <2>4, <2>5 DEF User, UnpackStart
<1> QED BY <1>1, <1>5, <1>6 DEF User, Kill, UnpackStart, PackStart, AddFile, RemoveFile,
  EditDts, EditPageSize, ReplaceKernel, CleanDir, Adopt, Edit, UserTurn, Leave

(* The invariant holds in every behaviour.                                 *)
LEMMA CompleteHolds == Spec => []CompleteInv
<1>1. Init => CompleteInv
  <2> SUFFICES ASSUME Init PROVE CompleteInv
    OBVIOUS
  <2>1. pc = "idle" /\ dir = EmptyDir /\ out = NoOut
    BY DEF Init
  <2>2. UnpackInv /\ PackInv
    BY <2>1 DEF UnpackInv, PackInv, UnpackPc, DtsUnpacked, KernelCompiled, Building, Finished
  <2>3. NoGap(NoDts)
    BY DEF NoGap, NoDts
  <2> QED BY <2>1, <2>2, <2>3 DEF CompleteInv, NoPackOfPartialUnpack, EmptyDir, NoOut
<1>2. IInv /\ CompleteInv /\ [Next]_vars => CompleteInv'
  <2>1. IInv /\ CompleteInv /\ UNCHANGED vars => CompleteInv'
    BY DEF CompleteInv, UnpackInv, PackInv, NoPackOfPartialUnpack, vars
  <2> QED BY <2>1, CompleteUnpack, CompletePack, CompleteUser DEF Next
<1> QED BY <1>1, <1>2, InitIInv, NextIInv, PTL DEF Spec

(* METADATA is emptied first and written last, and a .dts file that was    *)
(* not flushed stops the compiler: no image is ever packed from a          *)
(* directory in which an unpack was interrupted.                           *)
THEOREM PartialUnpackIsNotPacked == Spec => []NoPackOfPartialUnpack
<1>1. CompleteInv => NoPackOfPartialUnpack
  BY DEF CompleteInv
<1> QED BY <1>1, CompleteHolds, PTL

=============================================================================
