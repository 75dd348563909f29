---------------------------------- MODULE Sha1 ----------------------------------
(***************************************************************************)
(* The message schedule of sha1.c: how SHA1Update cuts data of any length  *)
(* into blocks, through a buffer and a bit count of two words, and how     *)
(* SHA1Final pads.  What SHA1Transform computes from a block is left out:  *)
(* the state is the sequence of the bytes that went through it.            *)
(***************************************************************************)
EXTENDS Integers, Sequences

CONSTANTS
  Block,     (* bytes of a block: 64                                       *)
  LenBytes,  (* bytes of the length at the end of the last block: 8        *)
  Bits,      (* bits of a byte: 8                                          *)
  Word,      (* 2^32                                                       *)
  Chunks,    (* the lengths SHA1Update may be called with                  *)
  MaxLen     (* bound: bytes of a message                                  *)

ASSUME Sha1Assumption ==
  /\ Block \in Nat \ {0} /\ LenBytes \in 1..(Block - 1)
  /\ Bits \in Nat \ {0} /\ Word \in Nat \ {0} /\ Word % (Bits * Block) = 0
  /\ Chunks \subseteq Nat /\ \A n \in Chunks : n + Block < Word
  /\ MaxLen \in Nat /\ MaxLen * Bits < Word * Word

VARIABLES
  ctx,    (* SHA1_CTX                                                      *)
  pc,     (* "feed", in SHA1Final "mark", "zero" or "length", then "done"  *)
  final,  (* finalcount                                                    *)
  fed     (* history variable: the message so far                          *)

sha1Vars == <<ctx, pc, final, fed>>

Byte(kind, v) == [kind |-> kind, v |-> v]
MARK == Byte("mark", << >>)      (* 0200 *)
ZERO == Byte("zero", << >>)
LEN(hi, lo, i) == Byte("len", <<hi, lo, i>>)   (* byte i of the count      *)

(* SHA1Init; the buffer is not initialised.                                *)
SHA1Init ==
  [count0 |-> 0, count1 |-> 0, state |-> << >>, buffer |-> [i \in 0..(Block - 1) |-> ZERO]]

(* memcpy into the buffer at j.                                            *)
CopyAt(buffer, j, data) ==
  [i \in 0..(Block - 1) |-> IF i >= j /\ i < j + Len(data) THEN data[i - j + 1] ELSE buffer[i]]

Upto(buffer, n) == [i \in 1..n |-> buffer[i - 1]]

(* Mutant: the count overflows without a carry.                            *)
Mut_Carry(c, old) == 0

(* count[0] has wrapped.                                                   *)
Carry(c, old) == IF c < old THEN 1 ELSE 0

(* Mutant: a block that is exactly full waits for the next byte.           *)
Mut_Fills(j, len) == j + len > Block

Fills(j, len) == j + len > Block - 1

(* SHA1Update.  The buffer is filled and goes through SHA1Transform, then  *)
(* every whole block of the data, and the rest is kept in the buffer.      *)
SHA1Update(c, data) ==
  LET len == Len(data)
      count0 == (c.count0 + len * Bits) % Word
      count1 == (c.count1 + Carry(count0, c.count0) + (len * Bits) \div Word) % Word
      j == (c.count0 \div Bits) % Block
      fill == Block - j
      taken == IF Fills(j, len) THEN fill + ((len - fill) \div Block) * Block ELSE 0
      rest == SubSeq(data, taken + 1, len)
  IN  [count0 |-> count0, count1 |-> count1,
       state |-> IF Fills(j, len)
                 THEN c.state \o Upto(c.buffer, j) \o SubSeq(data, 1, taken) ELSE c.state,
       buffer |-> IF Fills(j, len)
                  THEN CopyAt(CopyAt(c.buffer, j, SubSeq(data, 1, fill)), 0, rest)
                  ELSE CopyAt(c.buffer, j, rest)]

HashInit ==
  /\ ctx = SHA1Init /\ pc = "feed" /\ final = << >> /\ fed = << >>

(* A call of SHA1Update, with the next n bytes of the message.             *)
Feed(n) ==
  LET data == [i \in 1..n |-> Byte("data", <<Len(fed) + i>>)] IN
    /\ pc = "feed" /\ Len(fed) + n <= MaxLen
    /\ ctx' = SHA1Update(ctx, data)
    /\ fed' = fed \o data
    /\ UNCHANGED <<pc, final>>

(* SHA1Final: the count is taken before the padding ...                    *)
FinalCount ==
  /\ pc = "feed"
  /\ final' = [i \in 1..LenBytes |-> LEN(ctx.count1, ctx.count0, i)]
  /\ pc' = "mark"
  /\ UNCHANGED <<ctx, fed>>

FinalMark ==
  /\ pc = "mark"
  /\ ctx' = SHA1Update(ctx, <<MARK>>)
  /\ pc' = "zero"
  /\ UNCHANGED <<final, fed>>

(* (count[0] & 504) = 448: there is just room for the length.              *)
AtLength(c) == (c.count0 \div Bits) % Block = Block - LenBytes

(* Mutant: the zero byte is not hashed.                                    *)
Mut_FinalZero ==
  /\ pc = "zero"
  /\ \/ ~AtLength(ctx) /\ UNCHANGED <<ctx, pc>>
     \/ AtLength(ctx) /\ pc' = "length" /\ UNCHANGED ctx
  /\ UNCHANGED <<final, fed>>

FinalZero ==
  /\ pc = "zero"
  /\ \/ ~AtLength(ctx) /\ ctx' = SHA1Update(ctx, <<ZERO>>) /\ UNCHANGED pc
     \/ AtLength(ctx) /\ pc' = "length" /\ UNCHANGED ctx
  /\ UNCHANGED <<final, fed>>

FinalLength ==
  /\ pc = "length"
  /\ ctx' = SHA1Update(ctx, final)
  /\ pc' = "done"
  /\ UNCHANGED <<final, fed>>

Sha1Next ==
  \/ \E n \in Chunks : Feed(n)
  \/ FinalCount \/ FinalMark \/ FinalZero \/ FinalLength

Sha1Spec == HashInit /\ [][Sha1Next]_sha1Vars

-----------------------------------------------------------------------------
(* Properties.                                                             *)

InBuffer(c) == (c.count0 \div Bits) % Block

(* Nothing is lost, doubled or out of order, however the message was cut   *)
(* into calls of SHA1Update: the blocks that were transformed and what     *)
(* waits in the buffer are the message, less than a block waits, and the   *)
(* two words count its bits.                                               *)
Absorbed ==
  pc = "feed" =>
    /\ ctx.state \o Upto(ctx.buffer, InBuffer(ctx)) = fed
    /\ Len(ctx.state) % Block = 0
    /\ ctx.count1 * Word + ctx.count0 = Len(fed) * Bits

(* The padding of FIPS 180: a one bit, as few zeros as give whole blocks,  *)
(* the length in bits.                                                     *)
Padding(msg) ==
  LET bits == Len(msg) * Bits
      zeros == CHOOSE z \in 0..(Block - 1) : (Len(msg) + 1 + z + LenBytes) % Block = 0
  IN  <<MARK>> \o [i \in 1..zeros |-> ZERO]
        \o [i \in 1..LenBytes |-> LEN(bits \div Word, bits % Word, i)]

(* What SHA1Final hashes is the message, padded.                           *)
DigestsPaddedMessage == pc = "done" => ctx.state = fed \o Padding(fed)

(* The padding loop of SHA1Final ends.                                     *)
FinalEnds == (pc = "mark") ~> (pc = "done")

=============================================================================
