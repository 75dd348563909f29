---------------------------------- MODULE Patch ----------------------------------
(***************************************************************************)
(* `bxxt patch @offset:size=bytes file': up to eight bytes of a file are   *)
(* overwritten.                                                            *)
(***************************************************************************)
EXTENDS Integers, Sequences, SequencesExt

CONSTANTS
  WordBytes,   (* sizeof(uint64_t)                                         *)
  Base,        (* 256, the values of a byte                                *)
  Offsets, Sizes, Repls,    (* the numbers a command line may give         *)
  SeekMax,     (* the largest offset lseek takes: off_t, the file system   *)
  PatchFiles   (* files that may be there                                  *)

(* off_t is signed: the largest word is no offset.                         *)
ASSUME PatchAssumption ==
  /\ WordBytes \in Nat \ {0} /\ Base \in Nat \ {0, 1}
  /\ SeekMax \in 0..(Base^WordBytes - 2)

VARIABLES
  target,   (* the file, or "none"                                         *)
  patched   (* the last command, what the file was, and how it ended       *)

patchVars == <<target, patched>>

NoFile == <<"none">>
NoPatch == [cmd |-> "none", r |-> 0]

(* A number in memory, least significant byte first.                       *)
InMemory(x) == [i \in 1..WordBytes |-> (x \div Base^(i - 1)) % Base]

(* sscanf with %lX: a number that is too large becomes the largest.        *)
Scanned(x) == IF x >= Base^WordBytes THEN Base^WordBytes - 1 ELSE x

(* Mutant: the bytes at the front of the word.                             *)
Mut_PatchBytes(repl, size) == SubSeq(Reverse(InMemory(repl)), 1, size)

(* patch(): bswap_64, then the last `size' bytes of the word.              *)
PatchBytes(repl, size) ==
  SubSeq(Reverse(InMemory(repl)), WordBytes - size + 1, WordBytes)

(* lseek and write: a gap beyond the end of the file reads as zeros.       *)
WriteAt(f, offset, bytes) ==
  IF bytes = << >> THEN f
  ELSE [i \in 1..(IF Len(f) > offset + Len(bytes) THEN Len(f) ELSE offset + Len(bytes)) |->
          IF i > offset /\ i <= offset + Len(bytes) THEN bytes[i - offset]
          ELSE IF i <= Len(f) THEN f[i] ELSE 0]

PatchInit == target \in PatchFiles \union {NoFile} /\ patched = NoPatch

Ended(offset, size, repl, r, wrote) ==
  patched' = [cmd |-> "patch", offset |-> offset, size |-> size, repl |-> repl,
              r |-> r, wrote |-> wrote, old |-> target]

(* lseek does not end at the offset it was given.                          *)
SeekFails(offset) == offset > SeekMax

(* patch_main: refused when too large, when there is no such file or no    *)
(* such offset; what the write returns is not looked at.                   *)
patch_main(offset, size, repl) ==
  /\ patched = NoPatch
  /\ \/ /\ size > WordBytes \/ target = NoFile \/ SeekFails(offset)
        /\ Ended(offset, size, repl, -25, 0) /\ UNCHANGED target
     \/ /\ size <= WordBytes /\ target # NoFile /\ ~SeekFails(offset)
        /\ \E n \in 0..size :
             /\ target' = WriteAt(target, offset, SubSeq(PatchBytes(Scanned(repl), size), 1, n))
             /\ Ended(offset, size, repl, 0, n)

PatchNext == \E o \in Offsets, s \in Sizes, x \in Repls : patch_main(o, s, x)

-----------------------------------------------------------------------------
(* Properties.                                                             *)

Number(bytes) == FoldLeft(LAMBDA acc, d : acc * Base + d, 0, bytes)

(* Unless the write was cut short, exactly the bytes from offset to        *)
(* offset + size changed, and read in the order of a hex editor they are   *)
(* the number that was given, modulo their size; a refused command changes *)
(* nothing.                                                                *)
PatchExact ==
  patched # NoPatch =>
    LET o == patched.offset
        s == patched.size
    IN  IF patched.r # 0 THEN target = patched.old
        ELSE /\ \A i \in DOMAIN patched.old :
                  (i <= o \/ i > o + s) => i \in DOMAIN target /\ target[i] = patched.old[i]
             /\ (patched.wrote = s /\ s > 0) =>
                  /\ Len(target) >= o + s
                  /\ Number(SubSeq(target, o + 1, o + s)) = Scanned(patched.repl) % Base^s
             /\ \A i \in (Len(patched.old) + 1)..Len(target) : i <= o + s

=============================================================================
