# bxxt: a TLA+ verification project

bxxt is a command line tool for Android devices: it unpacks and packs boot
images, edits SELinux policies, sets read-only properties and patches
binaries. This directory models it in TLA+, checks the models with TLC and
proves their safety properties with TLAPS. The reference is the code in the
repository's root (`boot.c`, `cpio.c`, `dtcc.c`, `util.c`, ...); paths and line
numbers below refer to it. `PROJECT.json` maps each definition to its lines.

## 1. Inventory

| Part | Source | State it keeps | Operations | What is hard |
|---|---|---|---|---|
| image format | `boot.c`, `boot.h`, `util.c` | header, buffer that grows | align, append; offsets, checks, trim | writer and reader compute offsets independently; boundaries of the page |
| unpack | `boot.c` 583-649 | image, directory, `bxxt_boot_t` | open and check, one step per file | killed half-way, failing writes, files left from before |
| pack | `boot.c` 672-813 | directory, buffer, output file | METADATA, five sections, extra data, id, write | what the user edited, stale METADATA fields, short write |
| ramdisk | `cpio.c` | archive, tree of files | extract, walk, sort, archive | order of entries, odd file types, guessed buffer size |
| device trees | `dtcc.c` (libdtc) | `.dts` files | decompile, compile | files never closed, compiler exits on a parse error |
| main | `bxxt.c` | argv, exit status | dispatch | exit status is the result modulo 256 |
| sepol | `sepol.c` (libsepol) | policy in memory, file, kernel | load, five statements, save, load into the kernel | uninitialised rule, no truncation, lost update in live mode |
| properties | `prop.c` | shared memory of properties | setprop, setdebuggable | two writes seen by concurrent readers, maximal length, reused pid |
| patch | `patch.c` | one file | overwrite up to 8 bytes | byte order, size 0 and 8 |
| SHA-1 | `sha1.c` | digest context | init, update, final | buffering across block boundaries |

Interaction: everything goes through files. `main` starts one command per
process. unpack and pack of two processes communicate only through the
directory, which the user edits in between; the image that pack wrote may be
unpacked next. pack calls the unpacker's `bxxt_boot_init1` on its own buffer to
find the sections that go into the id. The program has no threads: what is
concurrent is the user, the operating system (kills, failing writes) and, for
`sepol -l` and `setprop`, other processes that share the kernel's policy or the
property memory.

What makes each part correct:

* format: what pack appends as a section is what unpack finds at that section's
  offset; the checks accept what pack produces;
* unpack and pack: a round trip loses nothing, a second one changes nothing, a
  half-unpacked directory is not packed, a failing pack says so and does not
  damage what was there, every command ends;
* ramdisk: the same files come back, in an order that does not depend on the
  file system;
* sepol: a statement changes exactly the rule it names, in the file and live;
* properties: a reader sees the old value or the new one, and no other property
  changes;
* patch: exactly `size` bytes at `offset` change, and become the given digits.

`PROJECT.json` lists the hazards behind these, each at its line.

## 2. Modules

| Module | Contents |
|---|---|
| `BootLayout` | the image format: writer (`bxxt_buffer_align`, `pad_data`), reader (`B_..._o`, trim, checks, signature), compression. Operators only. |
| `BootDir` | the directory and the output file as values |
| `BootImage` | the boot commands as a state machine over the image, the directory, the output and the process; their properties |
| `BootSpec` | what the boot commands promise: unpack and pack as functions, each taking effect at one instant |
| `BootRefinement` | the mapping under which `BootImage` implements `BootSpec` |
| `MCBootImage` and `MCBoot*.cfg` | small images of every shape, and the bounds |
| `BootLayoutProofs` | lemmas about the writer's and the reader's operators |
| `BootImageProofs` | the inductive invariant `IInv`, one lemma per action; types and layout |
| `BootSafetyProofs` | what a failing or interrupted command never does |
| `BootPackProofs` | the packed image is the one `BootSpec` gives; the three kernel recipes |
| `BootRefinementProofs` | a clean unpack leaves the directory `BootSpec` gives; the refinement; the round trips |
| `PropProofs`, `Sha1Proofs`, `SepolProofs` | the theorems about `Prop`, `Sha1` and `Sepol` |
| `Sepol`, `MCSepol` | the sepol command, by several processes, over a policy file and the kernel's policy |
| `Prop`, `MCProp` | setprop and setdebuggable, with the readers, the property service and system_server around them |
| `Sha1`, `Patch`, `MCBytes` | the buffering and padding of SHA-1; the patch command |

`BootDir` extends `BootLayout`; `BootImage` and `BootSpec` extend `BootDir`;
`BootRefinement` extends `BootImage` and instantiates `BootSpec`; `MCBootImage`
extends `BootRefinement`. `BootImageProofs` extends `BootImage` and
`BootLayoutProofs`, `BootSafetyProofs` extends it, `BootPackProofs` extends that
one and `BootRefinement`, and `BootRefinementProofs` extends `BootPackProofs`. The other three groups stand alone: the commands share
no state with each other.

### 2.1 The boot commands

**Data.** A section is a sequence of cells. A cell is a unit of content that
takes a unit of space; it has a kind (kernel, LZMA data, device tree, archive
entry, other, zero, header), a name and a number of gzip layers. Compression
keeps the number of cells, which is why sizes, page boundaries and offsets stay
meaningful. The digest is modelled by what goes into it, so that two images have
the same id exactly when they have the same sections. Load addresses, OS
version and strings are one value `attrs`: both commands copy them.

**State.** `boot`, `dir` and `out` are the disk; `b`, `cur` and `img` are the
memory of the process, lost when it ends; `pc` names the step of
`bxxt_boot_unpack_all` or `bxxt_boot_pack_all` it is at; `exit` how the last
command ended; `used` counts against the bounds; `hist` is read by no action,
only by properties (what the directory was made from, what was appended, the
output before the command).

**Actions.** One per step that touches a file and one per loop iteration:
`UnpackStart` ... `UnpackExit` and `PackStart` ... `PackWriteOutput`. A write
that may fail takes some prefix (`DiskWrite`). `METADATA` is emptied by
`UnpackStart` (`fopen(..., "wb")`, line 590) and filled by `UnpackMeta` (the
`fclose`, line 646). `.dts` files are `UNFLUSHED` until `UnpackExit`, because
`bxxt_dtcc_dtb_to_source` never closes them and `exit` flushes them; compiling
an unflushed one ends the process (`die` in libdtc). `UnpackKernel` overwrites without
truncating (line 291). `Kill` may happen between any two steps. `AddFile`,
`RemoveFile`, `EditDts`, `EditPageSize`, `ReplaceKernel` (the three recipes of
`README.md` 117-119), `CleanDir` and `Adopt` are the user between commands.

**Assumed.** What `bxxt_boot_init1` relies on without checking, `WellFormed`:
the header fits its page, the sections lie in the file, at most `BOOT_MAX_DTB`
device trees per section (`WellFormed`). The user edits only what `README.md` allows, and
writes page sizes that hold the header. Files other than the output can be
opened; memory does not run out.

**External.** libarchive's gzip reader decodes the leading gzip members and stops
silently (`gzip_filter_read`), and one reader is put on the other as long as the data
starts with gzip (`choose_filters`), so that every layer of the first cell comes off; its memory writer drops the block that overruns the
buffer; LZMA needs a program that is not there, so nothing is decoded. libdtc's round trip is the
identity on a device tree's content.

**Abstract specification.** In `BootSpec` the directory is a value or partial.
`UnpackOf` is the directory of an image and `PackOf` the image of a directory,
both written without the order in which `boot.c` does things: all pages of the
image at once, the id from the sections and not from what is read back, the
ramdisk sorted. Unpack makes the directory partial when it begins
and whole when it ends; into an empty directory, with no failed write, it leaves
exactly `UnpackOf(boot)`. Pack replaces the output by exactly `PackOf` of the directory
or leaves it alone; it refuses exactly the directories that are not `Packable`
(no METADATA or one that does not read back, no kernel, no ramdisk
directory, a device tree that was not flushed), and gives up the old output only
when none of these can happen any more. A command fails otherwise only with a fault. The
mapping: a directory is partial while unpack runs and as long as `hist.complete`
is false; command, success and faults are read off `pc`, `exit` and `used`.

**Strings.** `Unterminated` are the `attrs` in which a string fills its field.
Such a field has no terminator: `METADATA` gets it together with what
follows in the header (lines 72-75), and pack refuses it as too long (lines
136-142).

### 2.2 `Sepol`

**State.** `kernel` is the policy in force, `file` the policy file, `proc[p]` a
process with its command, its `policydb_t` (initialised, loaded, or freed by a
failed load) and the last result, `seen[p]` the contents its mapping of the file has held. A policy is the part of `policydb_t` that
`sepol.c` reads or writes: types with their values, allow rules as sets of
permission bits, the permissive map, the types of the roles, the attribute map.
`policydb_write` turns it into a sequence of records with their counts and `policydb_read` back,
which is what makes a file that keeps an old tail, is cut short or is no policy
meaningful. `IsImage` is what `policydb_read` accepts: each type with a value of its own (no
aliases), and a rule table that is not empty (`avtab_read`).

**Actions.** `Start`, `Open`, `Load`, `Execute`, `Save`, `Reload`, `Return`: one per
step of `sepol_main` that touches something shared, and in `Execute` the whole
statement. `bxxt_sepol_load_policy_file` is two of them. `Open` maps the file, which is
shared with whoever writes it; the kernel's policy is copied by the kernel when it is opened.
`Load` parses a view of the mapping (`View`): its size is one the file had, and each record is
taken from any content the file held since `Open`, so a load that overlaps another
process's save may take the permissive map of one policy and the types of the other. The grain is
the record: a record that is itself half old and half new is not generated. Such a mixture often
parses and may be inconsistent; `hist.torn` notes it, as it notes a save cut short.
Every result is ignored as it is in the code. A name or a permission is cut where the scan
sets end it (`Cut`, `CutPerm`). The datum of a new rule is uninitialised: any set of bits.
After a failed load the process works on freed tables: it dies or finds nothing;
on a policy that was never loaded, creating a domain dereferences null.

### 2.3 `Prop`

`mem[n]` is the shared `prop_info`: the serial (length, counter, dirty bit), the
value's characters, and behind them the first character of the name. The setter
finds the mapping of the property (`FindProp`), reads the serial, writes it with
the new length, writes the value: three steps other processes may come between.
setdebuggable then looks system_server up and kills the pid it found. The readers
(`ReadBegin` ... `ReadEnd`), the property service (`UpdateBegin`, `UpdateEnd`) and
system_server are external: they follow the C library's protocol of waiting for a
clean serial, copying, and comparing the serial again. Pids are reused.

### 2.4 `Sha1` and `Patch`

`Sha1` keeps the context of `sha1.c`, the state being the sequence of bytes that
went through `SHA1Transform`, so the digest is right when that sequence is the
message, the mark, the zeros and the length. Sizes are parameters: a block of 4,
a length of 2 bytes and a count word of 16, so that the count overflows.
`Patch` is the one action of the patch command on a file of digits, the word
being 3 digits of base 3. It is refused when the size is too large, when there is no
file, and when `lseek` cannot reach the offset (`SeekFails`); a write may be short.

## 3. Runs

| Run | Expect | Question |
|---|---|---|
| `boot_cycle` | pass | Do pack and unpack agree, through every sequence of commands and edits? |
| `boot_faults` | pass | Is that still so with a kill or an I/O error at any point, and for images that are refused? |
| `boot_extra` | violation | Is the trailing data kept, as `README.md` 68-70 says? |
| `boot_signature` | violation | Is the signature checked when `-n` is absent? |
| `boot_recovery_offset` | violation | Does `recovery_dtbo_offset` give the section's offset, as `boot.h` 60 says? |
| `boot_raw_kernel` | violation | Does a round trip keep an uncompressed kernel with device trees? |
| `boot_exit_status` | violation | Does the exit status tell a failed pack? |
| `sepol` | pass | Does a statement do what it says, in the file and live, with other commands and failures around it? |
| `sepol_only_allow` | violation | Does allow grant only what it names, as `README.md` 186 says? |
| `prop` | pass | What do the two writes of setprop guarantee to readers, and does setdebuggable reach the next system_server? |
| `prop_value` | violation | Is a value that does not fit refused, as the message of `prop.c` 73 says? |
| `bytes` | pass | Do SHA-1's buffering and padding, and patch's byte order, hold at every boundary? |

`boot_cycle` (about 170,000 states) checks

* `TypeOK`;
* `LayoutAgree`: at each stage the packer's buffer ends where the reader will look
  for the next section;
* `ReadBack`: the sections the reader finds in the finished image are the ones
  that were appended;
* `PackedAccepted`: the image passes the full check, signature included;
* `RoundTrip`: unpack into an empty directory, then pack, keeps the header fields,
  the sections and the ramdisk's files;
* `SecondRoundTrip`: for an image that bxxt made itself, the result is identical;
* `ReplacedKernelPacked`: each recipe puts the new kernel into the image,
  compressed once, with the right device trees;
* `ImplementsSpec`: every step is a step of `BootSpec` or none;
* `RunEnds`: a command that runs ends.

`boot_faults` (about 740,000 states) checks `NoPackOfPartialUnpack`, `OutputSafe`,
`RoundTrip` and `ImplementsSpec` again, with up to two faults, on images that include an unsupported version, a wrong
magic number, a wrong id, an LZMA kernel with a ramdisk that is no archive,
trailing data, and a name that fills its field.

`sepol` (about 590,000 states) checks

* `TypeOK`: what the kernel enforces and what a process takes for loaded is a policy;
* `PolicySound`: the statements keep the tables consistent with each other, unless a save
  was cut short or a load took parts of two contents;
* `LiveEffects`: no lost update, unless two live commands raced. Granted and denied are
  read in the rule of exactly that source, target and class, which is what `allow` and `disallow`
  edit; access through attributes is not looked at;
* `LiveExact`: a live command changes what its statement names and nothing else,
  and nothing at all when it failed;
* `FileLoadsBack`: a file saved to its end loads as the policy that was saved,
  although it is not truncated.

`prop` (about 160,000 states) checks

* `TypeOK`: in particular a length never exceeds the field;
* `Coherent`: after an undisturbed write, length, value, terminator and dirty bit
  agree, in the right property;
* `ReadsOldOrNew`: a reader that met one setter at most, and did not copy between
  its two writes, returns a value the property had;
* `HotRebootSees`: the system_server that starts after setdebuggable has the value;
* `KillRace`: another process is killed only if system_server went away between
  lookup and kill;
* `ReadEnds`: readers end, unless two writers met.

The conditions in `PolicySound`, `LiveEffects`, `ReadsOldOrNew` and `ReadEnds` are exact in the sense
that without them TLC finds the inconsistent policy, the lost update, the mixed value and the
reader that waits for ever: the code takes no lock and sets no dirty bit. The inconsistent
policy needs no failure: a load that overlaps one complete save is enough.

`bytes` (about 4,100 states) checks `Absorbed` (context and bytes fed agree after every
update), `DigestsPaddedMessage` (what was transformed at the end is the padded
message), `FinalEnds` (the padding loop ends) and `PatchExact` (exactly `size`
bytes at `offset` change and read as the low digits of the given number).

The seven violations are disagreements between the code and its own documentation
or messages; "findings" in `PROJECT.json` quotes both sides.

**Bounds.** Page sizes 2 to 5 with sections of 0 to 5 cells give sections that
are empty, shorter than a page, exactly a page and longer; `MaxDtb` 2 makes the
table of device trees full in one image; the user may write page size 5, which
`base_check` refuses (`MaxPageSize` 4) and pack, which ignores the result of
`bxxt_boot_init1`, does not. Four commands and two edits are
enough for unpack, pack, adopt, unpack, pack, with one edit to spare (adopting
and emptying the directory count as edits); three commands and two edits, with two
faults, for a failing command between two others and for a write that fails before
a kill. `ExitMod` 4 stands for 256 and `Word` 16 for 2^32: the
images are that much smaller too. Deadlock is not checked because the system
stops when its bounds are used up.

In `sepol` two processes run three commands: two that race and one before or after;
eleven command lines cover every statement, an existing and a missing rule and
domain, a name and a permission that are cut and a name that does not scan; the file is absent, no policy,
or longer than what is written over it. Processes are symmetric. In `prop` the
bounds are three budgets, because readers do not interact with pids: two setters
with a reader and an update; one setter with a reader, an update and a fault; two
setters with an exit of the server, another process and a fault. Values reach one
below, at and one above `PROP_VALUE_MAX` 3. In `bytes` chunks reach from 0 to more than
two blocks and messages to 40 bytes of 2 bits, where the count wraps at 16.

**Fairness.** `FairSpec` assumes `WF_vars(Unpack \/ Pack)`: a process that is not
killed is scheduled again. Nothing is assumed of the user. `RunEnds` is checked
without faults (`MaxFaults` 0); a kill ends a command anyway. `Prop` assumes weak
fairness of each running setter, of the reader, of the property service once it has
begun an update, and of the restart of system_server, which init guarantees; none of
starting a command. `MCBytes` assumes that `SHA1Final`, a call without I/O, runs on.

**Mutants.** Each property of a passing run has a mutated definition next to the
real one (`Mut_...`), a bug this code could have, under which TLC finds the
property violated.

## 4. Proofs

The theorems hold for every value of the constants that satisfies the named
assumptions; none bounds the number of images, properties, processes, commands,
edits or faults. Each rests on an inductive invariant that TLC checked first, on
the instances of the runs.

| Theorem | States | Module |
|---|---|---|
| `TypeCorrect` | `Spec => []TypeOK` | `BootImageProofs`, `PropProofs`, `SepolProofs` |
| `WriterAgreesWithReader` | `Spec => []LayoutAgree` | `BootImageProofs` |
| `SectionsReadBack` | `Spec => []ReadBack` | `BootImageProofs` |
| `OutputIsSafe` | `Spec => []OutputSafe` | `BootSafetyProofs` |
| `PackedIsAccepted` | `Spec => []PackedAccepted` | `BootSafetyProofs` |
| `PartialUnpackIsNotPacked` | `Spec => []NoPackOfPartialUnpack` | `BootSafetyProofs` |
| `PackMakesTheImage` | a pack that reports success has written `PackOf` of the directory | `BootPackProofs` |
| `ReplacedKernelIsPacked` | `Spec => []ReplacedKernelPacked` | `BootPackProofs` |
| `BootRefinesSpec` | `Spec => ImplementsSpec` | `BootRefinementProofs` |
| `RoundTripReturns` | `Spec => []RoundTrip` | `BootRefinementProofs` |
| `SecondRoundTripReturns` | `Spec => []SecondRoundTrip` | `BootRefinementProofs` |
| `CoherentMemory` | `Spec => []Coherent` | `PropProofs` |
| `ReaderGetsAValue` | `Spec => []ReadsOldOrNew` | `PropProofs` |
| `HotRebootWorks` | `Spec => []HotRebootSees` | `PropProofs` |
| `SignalHitsTheServer` | `KillRace`, an action property | `PropProofs` |
| `MessageIsAbsorbed` | `[]Absorbed` | `Sha1Proofs` |
| `DigestIsOfThePaddedMessage` | `[]DigestsPaddedMessage` | `Sha1Proofs` |
| `PolicyStaysConsistent` | `Spec => []PolicySound` | `SepolProofs` |
| `SavedFileLoads` | `Spec => []FileLoadsBack` | `SepolProofs` |
| `NoLostStatement` | `Spec => []LiveEffects` | `SepolProofs` |
| `LiveCommandIsExact` | `LiveExact`, an action property | `SepolProofs` |

### 4.1 The boot commands

Assumptions: `LayoutAssumption` and `DirAssumption` (sizes are numbers, the table of
device trees has a place), `BootAssumption` (the images are `WellFormed`, the user
writes page sizes that hold the header).

**Layout.** `AlignIsRoundUp` (in `BootLayoutProofs`) says that the writer's
padding, `(ps - n % ps) % ps` more, and the reader's rounding,
`((n + ps - 1) \div ps) * ps`, are the same number; `PadData` that appending a
section leaves what was there in place and ends on a page boundary;
`OffsetsBelow` that the offsets are ordered. Neither `LayoutAgree` nor `ReadBack` is
inductive: `LayoutAgree` says nothing of sections not yet written, whose sizes must
be 0 for the later offsets to be right, and `ReadBack` nothing of the time before
the image is finished. The invariant `IInv` adds

* `Fits`: page sizes, of the image and of METADATA, hold the header, the image's
  sections lie within the file and the trimmed trailing data within what follows;
* `Packing`: while pack runs, the header's sizes are those of the recorded parts
  (`Recorded`), the sections written so far read back, the buffer ends on a page
  at the offset of the next section (`PageEnd`), never before the end of the last
  section once the extra data may follow, and the sizes of later sections are
  still 0 (`Unwritten`).

`NextIInv` combines one lemma per action; `AddKernel` ... `AddDtb` and
`AddExtra` do the five sections and the extra data, `NewIdKeeps` the
step that writes the id into the header. The later modules start from `IInv`.

**Safety** (`BootSafetyProofs`). `OutputInv` adds to `OutputSafe` that the exit status
is open while pack runs, and that until `bxxt_boot_write_to` opens the output it is
the file the command found. `AcceptInv` adds to `PackedAccepted` that METADATA only
ever holds a header version `bxxt_boot_init1` has accepted, that the packer's image
keeps it, and that the id is the signature of the image before it is written.
`CompleteInv` says why a directory that was not unpacked to its end is not packed:
while unpack runs METADATA is empty (`~dir.meta_ok`), and if it is there although
`hist.complete` is false then some `.dts` file is `UNFLUSHED`, in a numbering without
gaps (`NoGap`), so that the compiler meets it before it meets a missing file.
Replacing the kernel by an `Image.gz-dtb` removes the kernel's `.dts` files, which is
why the invariant speaks of both kinds of them.

**Pack** (`BootPackProofs`). `MadeInv` follows the image through
`bxxt_boot_pack_all`: `SectionsInv` says what the buffer `tmp` and each finished
section hold in terms of `BootSpec`'s functions (`KernelSection`, `ArchiveOf`,
`DtbsOf`), `BufferInv` that the image in memory is the header of METADATA and those
sections on pages of their own. The two loops need an invariant each: after n device
trees `tmp` is the compressed kernel and `Trees(..., n)`, and `TreesAll` shows that at
the end n counts exactly the files before the first missing one; in the archive every
entry is at the place its rank among all files gives it (`Archived`), although the code
only ever takes the least file that is left. `RecipeInv` keeps what
the recipe left in the directory through later edits: `EditDts` cannot follow an
`Image.gz-dtb`, because there is no `.dts` file to edit. `PackMakesTheImage` is the
half of the refinement that is about pack's result: header fields (the `% Word` of
`"%x"` included), sections, padding, id and trailing data are those of `PackOf`.

**Unpack and the refinement** (`BootRefinementProofs`). `UnpackedInv` is the other half:

* `ScanInv`: what the scans of `bxxt_boot_parse_dtb_sections` have recorded are the
  device trees before the cursor, in order, each told by how many trees precede it
  (`Found`, `TreeNo`); the trimmed size is that of the image's trailing data;
* `FreshInv`: of a directory that was empty and met no failed write, the files
  written so far are those of `UnpackOf(boot)` and the others are still empty. It is
  needed because the kernel is written over what is there, without truncation;
* `FilesInv`: METADATA that is absent holds no fields, and is there only beside a
  ramdisk directory. Without it, emptying METADATA could make a directory look empty
  that was not;
* `EndInv`: `hist.fresh` is true of an empty directory only, and a directory counts as
  complete before `exit` only if there is no `.dts` file left to flush.

`UnpackLeaves` concludes that at the end the directory is `UnpackOf(boot)`, field by field:
each of `BootSpec`'s functions is a `CHOOSE` or a set where the code is a loop, and
a lemma shows the choice unique (`GzipRunUnique`, `AbsTrim`, `TreeNoUnique`).
`StepRefines` has one lemma per group of actions; most steps change nothing `BootSpec`
sees. Those that are not obvious: a step that refuses must refuse a directory
that is not `Packable` and must do so before the output is opened, so
`OutputReady` shows that by then nothing is missing and every `.dts` file
has been compiled; a kill may come when METADATA is whole and the device trees are
not (`KillRefines`); and a failed write is seen at once although unpack goes on.

**The round trips** (`BootRefinementProofs`). `TripInv` ties the two commands together
over everything the user and the system do in between: if the directory is said to
hold image `f`, it is `UnpackOf(f)` and `f` was accepted; a whole output made from `f` is
an image of `UnpackOf(f)` (`IsImageOf`); an image that pack made has the id and the pages of
its own sections, in sorted order (`IsPacked`), and keeps this when the user adopts it.
What remains is about values: `PackOf(UnpackOf(f))` has the sections of `f`. `TreesReturn`:
trees at the end of a section are numbered without gaps, so that decompiled and compiled
they are that end again; `GzipReturns`: gzip data unwrapped and wrapped is what it was;
`ArchiveEntries`: the archive of a set holds each file (every place is some file's rank, by
`FS_Injection`); `DataLen`: the pages of the sections end where the reader expects
the trailing data. `Repackable` asks for a kernel whose first cell is compressed exactly once: one
compressed more often is unwrapped entirely, every layer of it, and wrapped once, so it
does not come back.
`SecondRoundTripReturns` needs `f.hdr.recovery_dtbo_offset < Word`, which holds of what pack wrote
because `"%x"` cut it there.

### 4.2 Properties

Assumptions: `PropAssumption` (the mappings are disjoint and in order, each property
lies in one, and no two mappings are of the same file, which is true of property areas though
not of every line of a `/proc/self/maps`) and `CommandAssumption` (values have no NUL, setdebuggable names its own
property). `Located` says that a setter's address is that of the property it names.
`CoherentInv` describes a property at every point of a write: who is setting it alone
(`Sole`), what is in memory between the two writes (`Between`), and what the
property service has under way. `RebootInv` carries the value that setdebuggable
wrote to the server that starts next. `ReaderInv` says of a reader that has noted a
serial: either what it noted is stale, and it will look again, or what it copied is what
the property held. `KillInv`: the pid that was looked up is the server's as long as
that server runs.

### 4.3 SHA-1

Assumption: `Sha1Assumption` (a block is larger than the length field, the count word is
a multiple of a block's bits, the length fits two words: `MaxLen * Bits < Word * Word`,
which for SHA-1 is 2^64 bits). `Sha1Inv`: the bytes transformed, followed by those that
wait in the buffer, are the bytes fed; the two count words are their exact number of
bits; and in `SHA1Final`, the message with the mark and at most as many zeros as the
standard's padding has (`ZerosAfter`), so that the loop stops at exactly that number.

### 4.4 sepol

Assumptions: `DeviceAssumption` (the policies and the images a device starts with are
consistent; a file may be anything else) and `StatementAssumption` (names are cut to
names, permissions are bits). `HeldInv`: a loaded policy is the one that was read
until the statement has edited it, and then what `bxxt_sepol_execute_stmt` makes of
that one. `SoundInv` includes what the file *would* load as, because the next process
loads it; `SeenInv` says the same of every whole content a process that is parsing has
seen, so that a load is inconsistent only if it took a mixture. `EffectInv` is stronger than `LiveEffects` in what is denied: by a rule
without the permission (`Denies`), not by the lack of a rule, because a new rule's bits
are uninitialised. `WriteReads` is the lemma behind `SavedFileLoads`: reading what was written
gives the policy back whatever follows it in the file, if the policy has a rule. The proof attempt for
`TypeCorrect` showed that two arms of the model's statement dispatch overlapped; the
model now dispatches as `sepol.c` does.

### 4.5 Only model-checked

* `RunEnds`, `ReadEnds` and `FinalEnds`: liveness is out of the prover's reach.
* `PatchExact`: the number a sequence of digits stands for is a fold, and what a fold
  computes for every input takes induction over data.

Every other property of a passing run is also a theorem.

## 5. Not modelled

* Images that are not well formed, page sizes the user may not write (0 divides by
  zero in `util.c` 122), allocation failures.
* The text of METADATA beyond strings that fill their field: the fields the user does
  not edit are copied.
* Modes and types of ramdisk files and the guessed size of the archive's buffer: they
  pass through libarchive unread.
* `sepol_rtexec` and `bxxt_sepol_reload_kernel_policy_from_file`, which nothing calls.
* In the policy, whatever `sepol.c` copies unread: users, constraints, conditional
  rules, MLS.
* The rounds of `SHA1Transform`.
* The vendored libraries beyond what the tool relies on, and the build scripts. They are most of
  the repository's lines (libarchive, libsepol's compiler and CIL writer, libdtc,
  zlib); bxxt enables one archive format, one compression filter and one kind of policy, and their data
  transformations are out of a model checker's reach.

## 6. State of the plan

Done: the boot commands with their abstract specification, sepol, the properties, patch,
SHA-1; every safety property of the passing runs but `PatchExact`, and the refinement, as
theorems.

Left: the hazards that `PROJECT.json` lists without a property (more device trees than the
table holds, a page size of 0, file types `readdir` does not report) lie outside what
`WellFormed` and the flat ramdisk can say; modelling them means modelling memory that is
overrun and libarchive's view of the file system.
