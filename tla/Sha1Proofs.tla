------------------------------- MODULE Sha1Proofs -------------------------------
(***************************************************************************)
(* Proofs about Sha1, for every size of a block, of a word and of a byte:  *)
(* however a message is cut into calls of SHA1Update, what SHA1Transform   *)
(* sees is the message, and at the end the padded message.                 *)
(***************************************************************************)
EXTENDS Sha1, SequenceTheorems, TLAPS

-----------------------------------------------------------------------------
(* Quotients and remainders.                                               *)

LEMMA DivMod ==
  ASSUME NEW a \in Nat, NEW b \in Nat \ {0}
  PROVE  /\ a \div b \in Nat /\ a % b \in 0..(b - 1)
         /\ a = b * (a \div b) + (a % b)
OBVIOUS

LEMMA MulStep ==
  ASSUME NEW d \in Int, NEW b \in Nat \ {0}, d >= 1 PROVE d * b >= b
OBVIOUS

LEMMA DivModUnique ==
  ASSUME NEW b \in Nat \ {0}, NEW p \in Int, NEW q \in Int, NEW r \in 0..(b - 1), NEW s \in 0..(b - 1),
         b * p + r = b * q + s
  PROVE  p = q /\ r = s
<1>1. (p - q) * b = s - r OBVIOUS
<1>2. ~(p - q >= 1) BY <1>1, MulStep
<1>3. (q - p) * b = r - s OBVIOUS
<1>4. ~(q - p >= 1) BY <1>3, MulStep
<1>5. p = q BY <1>2, <1>4
<1> QED BY <1>1, <1>5

LEMMA ModIs ==
  ASSUME NEW a \in Nat, NEW b \in Nat \ {0}, NEW q \in Int, NEW r \in 0..(b - 1), a = b * q + r
  PROVE  a % b = r /\ a \div b = q
BY DivMod, DivModUnique

LEMMA ModOfSum ==
  ASSUME NEW a \in Nat, NEW c \in Nat, NEW b \in Nat \ {0}
  PROVE  ((a % b) + c) % b = (a + c) % b
<1> DEFINE q == a \div b
           r == a % b
<1>1. q \in Nat /\ r \in 0..(b - 1) /\ a = b * q + r BY DivMod
<1> HIDE DEF q, r
<1> DEFINE e == r + c
<1>2. e \in Nat /\ a + c = e + b * q /\ a + c \in Nat BY <1>1
<1> HIDE DEF e
<1> DEFINE s == a + c
           f == e \div b
           g == e % b
<1>3. f \in Nat /\ g \in 0..(b - 1) /\ e = b * f + g BY <1>2, DivMod
<1> HIDE DEF f, g
<1>4. s \in Nat /\ s = b * (q + f) + g /\ q + f \in Int BY <1>1, <1>2, <1>3
<1> HIDE DEF s
<1>5. s % b = g BY <1>3, <1>4, ModIs
<1> QED BY <1>5 DEF e, r, s, g

LEMMA ModSmall ==
  ASSUME NEW a \in Nat, NEW b \in Nat \ {0}, a < b PROVE a % b = a /\ a \div b = 0
<1>1. a = b * 0 + a /\ a \in 0..(b - 1) OBVIOUS
<1> QED BY <1>1, ModIs

(* How many blocks the counter of a word can hold.                         *)
LEMMA WordIs ==
  /\ Block \in Nat \ {0} /\ Bits \in Nat \ {0} /\ Word \in Nat \ {0}
  /\ LenBytes \in 1..(Block - 1) /\ MaxLen \in Nat
  /\ \E w \in Nat : Word = Bits * (Block * w)
<1>1. /\ Block \in Nat \ {0} /\ Bits \in Nat \ {0} /\ Word \in Nat \ {0}
      /\ LenBytes \in 1..(Block - 1) /\ MaxLen \in Nat /\ Word % (Bits * Block) = 0
  BY Sha1Assumption
<1> DEFINE b == Bits * Block
           w == Word \div b
<1>2. b \in Nat \ {0} BY <1>1
<1>3. w \in Nat /\ Word = b * w + (Word % b) BY <1>1, <1>2, DivMod
<1> HIDE DEF w
<1>4. Word = Bits * (Block * w) BY <1>1, <1>3
<1> QED BY <1>1, <1>3, <1>4

-----------------------------------------------------------------------------
(* The counters.                                                           *)

Kinds == {"data", "mark", "zero", "len"}
Bytes == [kind : Kinds, v : Seq(Nat)]

LEMMA ByteType ==
  ASSUME NEW k \in Kinds, NEW w \in Seq(Nat) PROVE Byte(k, w) \in Bytes
BY DEF Byte, Bytes

LEMMA ByteTypes ==
  /\ ZERO \in Bytes /\ MARK \in Bytes
  /\ \A n \in Nat : Byte("data", <<n>>) \in Bytes
  /\ \A h, l, i \in Nat : LEN(h, l, i) \in Bytes
<1>1. {"zero", "mark", "data", "len"} \subseteq Kinds BY DEF Kinds
<1>2. << >> \in Seq(Nat) BY EmptySeq
<1>3. ZERO \in Bytes BY <1>1, <1>2, ByteType DEF ZERO
<1>4. MARK \in Bytes BY <1>1, <1>2, ByteType DEF MARK
<1>5. ASSUME NEW n \in Nat PROVE Byte("data", <<n>>) \in Bytes
  <2>1. <<n>> \in Seq(Nat) OBVIOUS
  <2> QED BY <1>1, <2>1, ByteType
<1>6. ASSUME NEW h \in Nat, NEW l \in Nat, NEW i \in Nat PROVE LEN(h, l, i) \in Bytes
  <2>1. <<h, l, i>> \in Seq(Nat) OBVIOUS
  <2> QED BY <1>1, <2>1, ByteType DEF LEN
<1> QED BY <1>3, <1>4, <1>5, <1>6

(* A context: count[0] counts whole bytes.                                 *)
Context ==
  {c \in [count0 : 0..(Word - 1), count1 : 0..(Word - 1), state : Seq(Bytes),
          buffer : [0..(Block - 1) -> Bytes]] :
     c.count0 % Bits = 0 /\ Len(c.state) % Block = 0}

LEMMA InBufferType ==
  ASSUME NEW c \in Context
  PROVE  /\ InBuffer(c) \in 0..(Block - 1)
         /\ c.count0 = Bits * (c.count0 \div Bits) /\ c.count0 \div Bits \in Nat
<1>1. c.count0 \in Nat /\ c.count0 % Bits = 0 BY WordIs DEF Context
<1> DEFINE k == c.count0 \div Bits
<1>2. k \in Nat /\ c.count0 = Bits * k + (c.count0 % Bits) BY <1>1, WordIs, DivMod
<1>3. InBuffer(c) = k % Block BY DEF InBuffer
<1> HIDE DEF k
<1>4. k % Block \in 0..(Block - 1) BY <1>2, WordIs, DivMod
<1>5. c.count0 = Bits * k BY <1>1, <1>2, WordIs
<1> QED BY <1>2, <1>3, <1>4, <1>5 DEF k

(* Whatever wraps, the position in the buffer goes on by the length of the *)
(* data, modulo the block.                                                 *)
LEMMA CountOn ==
  ASSUME NEW c \in Context, NEW len \in Nat, NEW n, n = (c.count0 + len * Bits) % Word
  PROVE  /\ n \in 0..(Word - 1) /\ n % Bits = 0
         /\ (n \div Bits) % Block = (InBuffer(c) + len) % Block
<1> DEFINE k == c.count0 \div Bits
           t == (c.count0 + len * Bits) \div Word
<1>1. k \in Nat /\ c.count0 = Bits * k BY InBufferType
<1>2. /\ c.count0 + len * Bits \in Nat /\ Bits \in Nat \ {0} /\ Block \in Nat \ {0}
      /\ Word \in Nat \ {0}
  BY <1>1, WordIs
<1>3. t \in Nat /\ n \in 0..(Word - 1) /\ c.count0 + len * Bits = Word * t + n
  BY <1>2, DivMod
<1>4. PICK w \in Nat : Word = Bits * (Block * w) BY WordIs
<1> HIDE DEF k, t
<1> DEFINE e == Block * (w * t)
           m == k + len - e
<1>5. e \in Nat BY <1>2, <1>3
<1>6. Word * t = Bits * e
  <2>1. Word * t = (Bits * (Block * w)) * t BY <1>4
  <2>2. (Bits * (Block * w)) * t = Bits * (Block * (w * t)) BY <1>2, <1>3
  <2> QED BY <2>1, <2>2
<1>7. n = Bits * m
  <2> HIDE DEF e
  <2>0. Word * t \in Nat /\ len * Bits \in Nat BY <1>2, <1>3
  <2>1. n = Bits * k + len * Bits - Bits * e BY <1>1, <1>2, <1>3, <1>5, <1>6, <2>0
  <2> QED BY <1>1, <1>2, <1>5, <2>1
<1>8. m \in Int /\ n \in Nat BY <1>1, <1>3, <1>5, WordIs
<1>9. m \in Nat
  <2> HIDE DEF m
  <2>1. CASE m < 0
    <3>1. (0 - m) * Bits >= Bits BY <1>2, <1>8, <2>1, MulStep
    <3>2. n = Bits * m /\ n >= 0 BY <1>7, <1>8
    <3> QED BY <1>2, <1>8, <3>1, <3>2
  <2>2. CASE m >= 0 BY <1>8, <2>2
  <2> QED BY <1>8, <2>1, <2>2
<1>10. n % Bits = 0 /\ n \div Bits = m
  <2> HIDE DEF m
  <2>1. n = Bits * m + 0 /\ 0 \in 0..(Bits - 1) BY <1>2, <1>7, <1>9
  <2> QED BY <1>2, <1>8, <2>1, ModIs
<1>11. m % Block = (k + len) % Block
  <2> DEFINE u == w * t
             a == k + len
  <2>1. u \in Nat /\ a \in Nat /\ m = a + Block * (0 - u) BY <1>1, <1>2, <1>3, <1>5
  <2> HIDE DEF m, u, a
  <2> DEFINE f == a \div Block
             g == a % Block
  <2>2. f \in Nat /\ g \in 0..(Block - 1) /\ a = Block * f + g BY <1>2, <2>1, DivMod
  <2> HIDE DEF f, g
  <2>4. m = Block * (f - u) + g /\ f - u \in Int BY <1>2, <2>1, <2>2
  <2>5. m % Block = g BY <1>2, <1>9, <2>2, <2>4, ModIs
  <2>3. m % Block = a % Block BY <2>5 DEF g
  <2> QED BY <2>1, <2>3 DEF a
<1>12. ((k % Block) + len) % Block = (k + len) % Block BY <1>1, <1>2, ModOfSum
<1>13. InBuffer(c) = k % Block BY DEF InBuffer, k
<1> QED BY <1>3, <1>10, <1>11, <1>12, <1>13

LEMMA CountType ==
  ASSUME NEW c \in Context, NEW len \in Nat, NEW n \in 0..(Word - 1)
  PROVE  (c.count1 + Carry(n, c.count0) + (len * Bits) \div Word) % Word \in 0..(Word - 1)
<1> DEFINE h == (len * Bits) \div Word
<1>1. len * Bits \in Nat /\ Word \in Nat \ {0} BY WordIs
<1>2. h \in Nat BY <1>1, DivMod
<1>3. c.count1 \in Nat BY WordIs DEF Context
<1>4. Carry(n, c.count0) \in Nat BY DEF Carry
<1> HIDE DEF h
<1>5. c.count1 + Carry(n, c.count0) + h \in Nat BY <1>2, <1>3, <1>4
<1> QED BY <1>1, <1>5, DivMod DEF h

-----------------------------------------------------------------------------
(* The buffer.                                                             *)

Buffers == [0..(Block - 1) -> Bytes]

LEMMA UptoSeq ==
  ASSUME NEW buffer \in Buffers, NEW n \in 0..Block
  PROVE  /\ Upto(buffer, n) \in Seq(Bytes) /\ Len(Upto(buffer, n)) = n
         /\ \A i \in 1..n : Upto(buffer, n)[i] = buffer[i - 1]
<1>1. Block \in Nat /\ n \in Nat BY WordIs
<1>2. ASSUME NEW i \in 1..n PROVE buffer[i - 1] \in Bytes
  <2>1. i - 1 \in 0..(Block - 1) BY <1>1
  <2> QED BY <2>1 DEF Buffers
<1>3. Upto(buffer, n) = [i \in 1..n |-> buffer[i - 1]] BY DEF Upto
<1>4. Upto(buffer, n) \in [1..n -> Bytes] BY <1>2, <1>3
<1>5. Upto(buffer, n) \in Seq(Bytes) BY <1>1, <1>4
<1>6. Len(Upto(buffer, n)) = n BY <1>1, <1>4, <1>5
<1> QED BY <1>3, <1>5, <1>6

LEMMA CopyAtType ==
  ASSUME NEW buffer \in Buffers, NEW j \in Nat, NEW data \in Seq(Bytes)
  PROVE  CopyAt(buffer, j, data) \in Buffers
<1> DEFINE F(i) == IF i >= j /\ i < j + Len(data) THEN data[i - j + 1] ELSE buffer[i]
<1>1. ASSUME NEW i \in 0..(Block - 1) PROVE F(i) \in Bytes
  <2>1. i \in Nat /\ Len(data) \in Nat BY WordIs
  <2>2. CASE i >= j /\ i < j + Len(data)
    <3>1. i - j + 1 \in 1..Len(data) BY <2>1, <2>2
    <3>2. data[i - j + 1] \in Bytes BY <3>1, ElementOfSeq
    <3> QED BY <2>2, <3>2
  <2>3. CASE ~(i >= j /\ i < j + Len(data)) BY <2>3 DEF Buffers
  <2> QED BY <2>2, <2>3
<1> QED BY <1>1 DEF CopyAt, Buffers

(* memcpy puts the data behind what waited.                                *)
LEMMA CopyBehind ==
  ASSUME NEW buffer \in Buffers, NEW j \in Nat, NEW data \in Seq(Bytes), j + Len(data) <= Block
  PROVE  Upto(CopyAt(buffer, j, data), j + Len(data)) = Upto(buffer, j) \o data
<1> DEFINE d == CopyAt(buffer, j, data)
           n == j + Len(data)
           a == Upto(d, n)
           u == Upto(buffer, j)
           b == u \o data
<1>1. Block \in Nat /\ Len(data) \in Nat /\ n \in 0..Block /\ j \in 0..Block BY WordIs
<1>2. d \in Buffers BY CopyAtType
<1>3. a \in Seq(Bytes) /\ Len(a) = n /\ \A i \in 1..n : a[i] = d[i - 1]
  BY <1>1, <1>2, UptoSeq
<1>4. u \in Seq(Bytes) /\ Len(u) = j /\ \A i \in 1..j : u[i] = buffer[i - 1]
  BY <1>1, UptoSeq
<1>5. /\ b \in Seq(Bytes) /\ Len(b) = n
      /\ \A i \in 1..n : b[i] = IF i <= j THEN u[i] ELSE data[i - j]
  <2> HIDE DEF u
  <2>1. /\ b \in Seq(Bytes) /\ Len(b) = Len(u) + Len(data)
        /\ \A i \in 1..(Len(u) + Len(data)) :
             b[i] = IF i <= Len(u) THEN u[i] ELSE data[i - Len(u)]
    BY <1>4, ConcatProperties
  <2> QED BY <1>4, <2>1
<1>6. ASSUME NEW i \in 1..n PROVE a[i] = b[i]
  <2>1. i - 1 \in 0..(Block - 1) /\ i \in Nat BY <1>1
  <2>2. d[i - 1] = IF i - 1 >= j /\ i - 1 < j + Len(data) THEN data[(i - 1) - j + 1] ELSE buffer[i - 1]
    BY <2>1 DEF CopyAt
  <2>3. CASE i <= j
    <3>1. ~(i - 1 >= j) BY <1>1, <2>1, <2>3
    <3> QED BY <1>3, <1>4, <1>5, <2>1, <2>2, <2>3, <3>1
  <2>4. CASE ~(i <= j)
    <3>1. i - 1 >= j /\ i - 1 < j + Len(data) /\ (i - 1) - j + 1 = i - j BY <1>1, <2>1, <2>4
    <3>2. d[i - 1] = data[i - j] BY <2>2, <3>1
    <3>3. a[i] = d[i - 1] BY <1>3
    <3>4. b[i] = data[i - j] BY <1>5, <2>4
    <3> QED BY <3>2, <3>3, <3>4
  <2> QED BY <2>3, <2>4
<1> HIDE DEF a, b, n
<1>7. a = b BY <1>3, <1>5, <1>6, SeqEqual
<1> QED BY <1>7 DEF a, b, n

-----------------------------------------------------------------------------
(* SHA1Update.                                                             *)

(* The bytes a context has taken in.                                       *)
Held(c) == c.state \o Upto(c.buffer, InBuffer(c))

LEMMA ContextParts ==
  ASSUME NEW c \in Context
  PROVE  /\ c.count0 \in 0..(Word - 1) /\ c.count1 \in 0..(Word - 1)
         /\ c.state \in Seq(Bytes) /\ c.buffer \in Buffers
         /\ c.count0 % Bits = 0 /\ Len(c.state) % Block = 0
BY DEF Context, Buffers

LEMMA ContextFrom ==
  ASSUME NEW a \in 0..(Word - 1), NEW b \in 0..(Word - 1), NEW s \in Seq(Bytes), NEW t \in Buffers,
         a % Bits = 0, Len(s) % Block = 0
  PROVE  [count0 |-> a, count1 |-> b, state |-> s, buffer |-> t] \in Context
BY DEF Context, Buffers

(* The data fits behind what waits.                                        *)
LEMMA UpdateKeeps ==
  ASSUME NEW c \in Context, NEW data \in Seq(Bytes), ~Fills(InBuffer(c), Len(data)),
         NEW d, d = SHA1Update(c, data)
  PROVE  d \in Context /\ Held(d) = Held(c) \o data
<1> DEFINE len == Len(data)
           j == InBuffer(c)
           n == (c.count0 + len * Bits) % Word
           m == (c.count1 + Carry(n, c.count0) + (len * Bits) \div Word) % Word
           t == CopyAt(c.buffer, j, data)
<1>1. j \in 0..(Block - 1) /\ j \in Nat /\ len \in Nat /\ j + len < Block
  <2>1. j \in 0..(Block - 1) BY InBufferType
  <2>2. len \in Nat BY LenProperties
  <2> QED BY <2>1, <2>2, WordIs DEF Fills
<1>2. d = [count0 |-> n, count1 |-> m, state |-> c.state, buffer |-> t]
  <2>1. SubSeq(data, 0 + 1, len) = data BY SubSeqFull
  <2>2. d = [count0 |-> n, count1 |-> m, state |-> c.state,
             buffer |-> CopyAt(c.buffer, j, SubSeq(data, 0 + 1, len))]
    BY DEF SHA1Update, InBuffer
  <2> QED BY <2>1, <2>2
<1>3. n \in 0..(Word - 1) /\ n % Bits = 0 /\ (n \div Bits) % Block = (j + len) % Block
  BY <1>1, CountOn
<1>4. m \in 0..(Word - 1) BY <1>1, <1>3, CountType
<1>5. t \in Buffers BY <1>1, ContextParts, CopyAtType
<1>6. d.count0 = n /\ d.state = c.state /\ d.buffer = t BY <1>2
<1> HIDE DEF n, m, t, j, len
<1>7. d \in Context BY <1>2, <1>3, <1>4, <1>5, ContextParts, ContextFrom
<1>8. InBuffer(d) = j + len
  <2>1. (j + len) % Block = j + len BY <1>1, WordIs, ModSmall
  <2> QED BY <1>3, <1>6, <2>1 DEF InBuffer
<1> DEFINE b == c.buffer
           u == Upto(b, j)
<1>0. b \in Buffers /\ c.state \in Seq(Bytes) /\ j + len <= Block /\ j \in 0..Block
  <2>1. b \in Buffers /\ c.state \in Seq(Bytes) BY ContextParts
  <2>2. j + len <= Block /\ j \in 0..Block BY <1>1, WordIs
  <2> QED BY <2>1, <2>2
<1> HIDE DEF b
<1>9. Upto(t, j + len) = u \o data BY <1>0, <1>1, CopyBehind DEF t, len, b
<1>10. u \in Seq(Bytes) BY <1>0, UptoSeq
<1> HIDE DEF u
<1>11. Held(d) = c.state \o (u \o data) BY <1>6, <1>8, <1>9 DEF Held
<1>12. (c.state \o u) \o data = c.state \o (u \o data)
  <2> DEFINE s == c.state
  <2>1. s \in Seq(Bytes) BY <1>0
  <2> HIDE DEF s
  <2>2. (s \o u) \o data = s \o (u \o data) BY <1>10, <2>1, ConcatAssociative
  <2> QED BY <2>2 DEF s
<1>13. Held(c) = c.state \o u BY DEF Held, u, b, j
<1> QED BY <1>7, <1>11, <1>12, <1>13

(* The buffer and every whole block go through SHA1Transform, the rest     *)
(* waits.                                                                  *)
LEMMA UpdateTransforms ==
  ASSUME NEW c \in Context, NEW data \in Seq(Bytes), Fills(InBuffer(c), Len(data)),
         NEW d, d = SHA1Update(c, data)
  PROVE  d \in Context /\ Held(d) = Held(c) \o data
<1> DEFINE len == Len(data)
           j == InBuffer(c)
           fill == Block - j
           q == (len - fill) \div Block
           r == (len - fill) % Block
           taken == fill + q * Block
           rest == SubSeq(data, taken + 1, len)
           head == SubSeq(data, 1, taken)
           n == (c.count0 + len * Bits) % Word
           m == (c.count1 + Carry(n, c.count0) + (len * Bits) \div Word) % Word
           x == CopyAt(c.buffer, j, SubSeq(data, 1, fill))
           t == CopyAt(x, 0, rest)
           u == Upto(c.buffer, j)
           s == c.state \o u \o head
<1>1. /\ j \in 0..(Block - 1) /\ j \in Nat /\ len \in Nat /\ j + len >= Block
      /\ Block \in Nat \ {0} /\ fill \in 1..Block /\ len - fill \in Nat
  <2>1. j \in 0..(Block - 1) BY InBufferType
  <2>2. len \in Nat BY LenProperties
  <2>3. j + len > Block - 1 BY DEF Fills
  <2> HIDE DEF j, len
  <2> QED BY <2>1, <2>2, <2>3, WordIs
<1>2. d = [count0 |-> n, count1 |-> m, state |-> s, buffer |-> t]
  BY DEF SHA1Update, InBuffer
<1>3. n \in 0..(Word - 1) /\ n % Bits = 0 /\ (n \div Bits) % Block = (j + len) % Block
  BY <1>1, CountOn
<1>4. m \in 0..(Word - 1) BY <1>1, <1>3, CountType
<1>5. q \in Nat /\ r \in 0..(Block - 1) /\ len - fill = Block * q + r BY <1>1, DivMod
<1>6. d.count0 = n /\ d.state = s /\ d.buffer = t
  <2> HIDE DEF n, m, s, t
  <2> QED BY <1>2
<1>7. len = taken + r /\ taken \in 1..len /\ j + taken = Block * (1 + q)
      /\ taken \in Nat
  <2> HIDE DEF q, r, j, len
  <2>1. q * Block = Block * q /\ q * Block \in Nat /\ Block * (1 + q) = Block + Block * q BY <1>1, <1>5
  <2> QED BY <1>1, <1>5, <2>1
<1>8. (j + len) % Block = r
  <2> HIDE DEF q, r, j, len, taken
  <2>1. j + len = Block * (1 + q) + r /\ 1 + q \in Int /\ j + len \in Nat BY <1>1, <1>5, <1>7
  <2>2. Block \in Nat \ {0} /\ r \in 0..(Block - 1) BY <1>1, <1>5
  <2> QED BY ONLY <2>1, <2>2, ModIs
<1> HIDE DEF q, r, j, len, taken, fill, n, m
<1>9. InBuffer(d) = r BY <1>3, <1>6, <1>8 DEF InBuffer
<1>10. head \in Seq(Bytes) /\ Len(head) = taken /\ rest \in Seq(Bytes) /\ Len(rest) = r
  <2>1. \A i \in 1..len : data[i] \in Bytes BY ElementOfSeq DEF len
  <2>2. head \in Seq(Bytes) /\ Len(head) = taken
    <3>1. \A i \in 1..taken : data[i] \in Bytes BY <1>1, <1>7, <2>1
    <3> QED BY <1>7, <3>1, SubSeqProperties
  <2>3. \A i \in (taken + 1)..len : data[i] \in Bytes BY <1>1, <1>7, <2>1
  <2>4. /\ rest \in Seq(Bytes)
        /\ Len(rest) = IF taken + 1 <= len THEN len - (taken + 1) + 1 ELSE 0
    BY <1>1, <1>7, <2>3, SubSeqProperties
  <2>5. Len(rest) = r
    <3> HIDE DEF rest
    <3> QED BY <1>1, <1>5, <1>7, <2>4
  <2> QED BY <2>2, <2>4, <2>5
<1>11. head \o rest = data
  <2>1. 1 \in 1..(Len(data) + 1) /\ taken \in (1 - 1)..Len(data) /\ Len(data) \in taken..Len(data)
    BY <1>1, <1>7 DEF len
  <2>2. SubSeq(data, 1, taken) \o SubSeq(data, taken + 1, Len(data)) = SubSeq(data, 1, Len(data))
    BY <2>1, ConcatAdjacentSubSeq
  <2> QED BY <2>2, SubSeqFull DEF len
<1>12. x \in Buffers
  <2>1. \A i \in 1..fill : data[i] \in Bytes
    <3>1. \A i \in 1..len : data[i] \in Bytes BY ElementOfSeq DEF len
    <3> QED BY <1>1, <3>1
  <2>2. SubSeq(data, 1, fill) \in Seq(Bytes) BY <1>1, <2>1, SubSeqProperties
  <2> QED BY <1>1, <2>2, ContextParts, CopyAtType
<1> HIDE DEF x, rest, head
<1>13. t \in Buffers BY <1>10, <1>12, CopyAtType
<1>14. u \in Seq(Bytes) /\ Len(u) = j 
  <2> DEFINE b == c.buffer
  <2>1. b \in Buffers BY ContextParts
  <2>3. j \in 0..Block BY <1>1
  <2> HIDE DEF b
  <2>2. Upto(b, j) \in Seq(Bytes) /\ Len(Upto(b, j)) = j BY <2>1, <2>3, UptoSeq
  <2> QED BY <2>2 DEF b
<1> HIDE DEF u
<1>15. s \in Seq(Bytes) /\ Len(s) = Len(c.state) + j + taken
  <2>1. c.state \o u \in Seq(Bytes) /\ Len(c.state \o u) = Len(c.state) + j
    BY <1>14, ContextParts, ConcatProperties
  <2> DEFINE v == c.state \o u
  <2> HIDE DEF v
  <2>2. v \o head \in Seq(Bytes) /\ Len(v \o head) = Len(v) + taken
    BY <1>10, <2>1, ConcatProperties DEF v
  <2> QED BY <2>1, <2>2 DEF v
<1>16. Len(s) % Block = 0
  <2> DEFINE l == Len(c.state)
             p == l \div Block
             z == Len(s)
  <2>1. l \in Nat /\ l % Block = 0 BY ContextParts, LenProperties
  <2>2. p \in Nat /\ l = Block * p + (l % Block) BY <1>1, <2>1, DivMod
  <2> HIDE DEF p
  <2>3. z \in Nat /\ z = Len(c.state) + j + taken BY <1>15, LenProperties
  <2> HIDE DEF l, z
  <2>4. z = Block * (p + 1 + q) + 0 /\ p + 1 + q \in Int /\ 0 \in 0..(Block - 1)
    <3>1. z = l + j + taken BY <2>3 DEF l
    <3> QED BY <1>1, <1>5, <1>7, <2>1, <2>2, <3>1
  <2>5. z % Block = 0 BY <1>1, <2>3, <2>4, ModIs
  <2> QED BY <2>5 DEF z
<1>17. Upto(t, r) = rest
  <2>0. Len(rest) \in Nat /\ 0 + Len(rest) <= Block
    BY <1>1, <1>5, <1>10
  <2>1. Upto(CopyAt(x, 0, rest), 0 + Len(rest)) = Upto(x, 0) \o rest
    BY <1>10, <1>12, <2>0, CopyBehind
  <2>2. Upto(x, 0) \in Seq(Bytes) /\ Len(Upto(x, 0)) = 0 BY <1>1, <1>12, UptoSeq
  <2>3. Upto(x, 0) = << >> BY <2>2, EmptySeq
  <2>4. 0 + Len(rest) = r BY <1>5, <1>10
  <2> QED BY <1>10, <2>1, <2>3, <2>4, ConcatEmptySeq
<1> HIDE DEF s, t
<1>18. d \in Context BY <1>2, <1>3, <1>4, <1>13, <1>15, <1>16, ContextFrom
<1>19. Held(d) = s \o rest BY <1>6, <1>9, <1>17 DEF Held
<1>20. s \o rest = (c.state \o u) \o (head \o rest)
  <2> DEFINE v == c.state \o u
  <2>1. v \in Seq(Bytes) BY <1>14, ContextParts, ConcatProperties
  <2> HIDE DEF v
  <2>3. head \in Seq(Bytes) /\ rest \in Seq(Bytes) BY <1>10
  <2>2. (v \o head) \o rest = v \o (head \o rest)
    BY ONLY <2>1, <2>3, ConcatAssociative
  <2> QED BY <2>2 DEF v, s
<1> QED BY <1>11, <1>18, <1>19, <1>20 DEF Held, u, j

LEMMA Update ==
  ASSUME NEW c \in Context, NEW data \in Seq(Bytes)
  PROVE  /\ SHA1Update(c, data) \in Context
         /\ Held(SHA1Update(c, data)) = Held(c) \o data
BY UpdateKeeps, UpdateTransforms

-----------------------------------------------------------------------------
(* The two words of the count.                                             *)

LEMMA MulLess ==
  ASSUME NEW x \in Nat, NEW w \in Nat \ {0}, x * w < w * w PROVE x < w
<1>1. SUFFICES ASSUME x >= w PROVE FALSE OBVIOUS
<1>2. CASE x = w BY <1>2
<1>3. CASE x - w >= 1
  <2>1. (x - w) * w >= w BY <1>3, MulStep
  <2>2. (x - w) * w = x * w - w * w OBVIOUS
  <2>3. x * w \in Int /\ w * w \in Int OBVIOUS
  <2> QED BY <2>1, <2>2, <2>3
<1> QED BY <1>1, <1>2, <1>3

(* A carry out of count[0] arrives in count[1], also when the data alone   *)
(* has more bits than a word counts.                                       *)
LEMMA UpdateCounts ==
  ASSUME NEW c \in Context, NEW data \in Seq(Bytes),
         c.count1 * Word + c.count0 + Len(data) * Bits < Word * Word,
         NEW d, d = SHA1Update(c, data)
  PROVE  d.count1 * Word + d.count0 = c.count1 * Word + c.count0 + Len(data) * Bits
<1> DEFINE w == Word
           x == Len(data) * Bits
           a == c.count0
           b == c.count1
           n == (a + x) % w
           m == (b + Carry(n, a) + x \div w) % w
<1>a. d.count0 = n /\ d.count1 = m BY DEF SHA1Update
<1>b. a \in 0..(w - 1) /\ b \in 0..(w - 1) BY ContextParts
<1>c. x \in Nat
  <2>1. Len(data) \in Nat BY LenProperties
  <2> QED BY <2>1, WordIs
<1>d. b * w + a + x < w * w OBVIOUS
<1>e. w \in Nat \ {0} BY WordIs
<1>f. n = (a + x) % w /\ m = (b + Carry(n, a) + x \div w) % w OBVIOUS
<1> HIDE DEF w, x, a, b, n, m
<1> DEFINE h == x \div w
           l == x % w
           k == Carry(n, a)
<1>1. h \in Nat /\ l \in 0..(w - 1) /\ x = w * h + l BY <1>b, <1>c, <1>e, DivMod
<1>2. a + x \in Nat /\ b * w \in Nat /\ h * w \in Nat /\ w * h = h * w /\ w * w \in Nat BY <1>b, <1>c, <1>e, <1>1
<1> HIDE DEF h, l
<1>3. k \in {0, 1} /\ n \in Nat /\ a + l = n + k * w
  <2>1. CASE a + l < w
    <3>1. a + x = w * h + (a + l) /\ a + l \in 0..(w - 1) BY <1>b, <1>c, <1>e, <1>1, <1>2, <2>1
    <3>2. n = a + l
      <4> DEFINE y == a + x
                 z == a + l
      <4>1. y \in Nat /\ z \in 0..(w - 1) /\ y = w * h + z /\ h \in Int BY <1>b, <1>c, <1>e, <1>1, <1>2, <3>1
      <4> HIDE DEF y, z
      <4>2. y % w = z BY <1>e, <4>1, ModIs
      <4> QED BY <1>f, <4>2 DEF y, z
    <3>3. k = 0 BY <1>b, <1>c, <1>e, <1>1, <3>2 DEF Carry, k
    <3> QED BY <1>b, <1>c, <1>e, <1>1, <3>2, <3>3
  <2>2. CASE ~(a + l < w)
    <3>1. /\ a + x = w * (h + 1) + (a + l - w) /\ a + l - w \in 0..(w - 1) /\ h + 1 \in Int
      <4>1. w * (h + 1) = h * w + w BY <1>b, <1>c, <1>e, <1>1, <1>2
      <4> QED BY <1>b, <1>c, <1>e, <1>1, <1>2, <2>2, <4>1
    <3>2. n = a + l - w
      <4> DEFINE y == a + x
                 z == a + l - w
                 g == h + 1
      <4>1. y \in Nat /\ z \in 0..(w - 1) /\ y = w * g + z /\ g \in Int BY <1>b, <1>c, <1>e, <1>1, <1>2, <3>1
      <4> HIDE DEF y, z, g
      <4>2. y % w = z BY <1>e, <4>1, ModIs
      <4> QED BY <1>f, <4>2 DEF y, z
    <3>3. k = 1 BY <1>b, <1>c, <1>e, <1>1, <3>2 DEF Carry, k
    <3> QED BY <1>b, <1>c, <1>e, <1>1, <2>2, <3>2, <3>3
  <2> QED BY <1>b, <1>c, <1>e, <2>1, <2>2
<1>4. m = (b + k + h) % w BY <1>f DEF h, k
<1> HIDE DEF k
<1> DEFINE e == b + k + h
<1>5. e \in Nat /\ e * w = b * w + k * w + h * w /\ k * w \in Nat BY <1>b, <1>c, <1>e, <1>1, <1>3
<1>6. e * w + n = b * w + a + x
  <2> HIDE DEF e
  <2> QED BY <1>b, <1>c, <1>e, <1>1, <1>2, <1>3, <1>5
<1>7. m = e
  <2> HIDE DEF e
  <2>1. e * w < w * w
    <3>1. e * w \in Nat BY <1>b, <1>c, <1>e, <1>5
    <3> QED BY <1>d, <1>2, <1>3, <1>6, <3>1
  <2>2. e < w BY <1>b, <1>c, <1>e, <1>5, <2>1, MulLess
  <2>3. m = e % w BY <1>b, <1>c, <1>e, <1>4 DEF e
  <2> QED BY <1>b, <1>c, <1>e, <1>5, <2>2, <2>3, ModSmall
<1> QED BY <1>a, <1>6, <1>7 DEF w, x, a, b

-----------------------------------------------------------------------------
(* The padding.                                                            *)

LEMMA HeldLen ==
  ASSUME NEW c \in Context
  PROVE  Held(c) \in Seq(Bytes) /\ Len(Held(c)) \in Nat /\ InBuffer(c) = Len(Held(c)) % Block
<1> DEFINE j == InBuffer(c)
           s == c.state
           b == c.buffer
           u == Upto(b, j)
           l == Len(s)
           p == l \div Block
<1>1. j \in 0..(Block - 1) /\ Block \in Nat \ {0} BY InBufferType, WordIs
<1>2. s \in Seq(Bytes) /\ b \in Buffers /\ l % Block = 0 BY ContextParts
<1>3. Held(c) = s \o u BY DEF Held
<1> HIDE DEF j, s, b
<1>4. j \in 0..Block BY <1>1
<1>5. u \in Seq(Bytes) /\ Len(u) = j BY <1>2, <1>4, UptoSeq
<1> HIDE DEF u
<1>6. s \o u \in Seq(Bytes) /\ Len(s \o u) = l + j BY <1>2, <1>5, ConcatProperties
<1>7. l \in Nat BY <1>2, LenProperties
<1>8. p \in Nat /\ l = Block * p + (l % Block) BY <1>1, <1>7, DivMod
<1> HIDE DEF l, p
<1>9. l + j = Block * p + j /\ l + j \in Nat BY <1>1, <1>2, <1>7, <1>8
<1>10. (l + j) % Block = j
  <2> DEFINE e == l + j
  <2>1. e \in Nat /\ e = Block * p + j /\ p \in Int BY <1>8, <1>9
  <2> HIDE DEF e
  <2>2. e % Block = j BY <1>1, <2>1, ModIs
  <2> QED BY <2>2 DEF e
<1> QED BY <1>3, <1>6, <1>9, <1>10 DEF j

(* Room for the length is where the length ends on a block.                *)
LEMMA RoomForLength ==
  ASSUME NEW n \in Nat
  PROVE  n % Block = Block - LenBytes <=> (n + LenBytes) % Block = 0
<1> DEFINE q == n \div Block
           r == n % Block
           e == n + LenBytes
<1>1. q \in Nat /\ r \in 0..(Block - 1) /\ n = Block * q + r BY WordIs, DivMod
<1>2. LenBytes \in 1..(Block - 1) /\ Block \in Nat \ {0} BY WordIs
<1> HIDE DEF q, r
<1>3. e \in Nat /\ e = Block * q + (r + LenBytes) /\ Block * (q + 1) = Block * q + Block
  BY <1>1, <1>2
<1>4. CASE r + LenBytes < Block
  <2>1. r + LenBytes \in 0..(Block - 1) BY <1>1, <1>2, <1>4
  <2>2. e % Block = r + LenBytes
    <3> HIDE DEF e
    <3> QED BY <1>1, <1>2, <1>3, <2>1, ModIs
  <2> QED BY <1>1, <1>2, <1>4, <2>2 DEF r
<1>5. CASE ~(r + LenBytes < Block)
  <2> DEFINE f == r + LenBytes - Block
  <2>1. f \in 0..(Block - 1) /\ e = Block * (q + 1) + f /\ q + 1 \in Int
    BY <1>1, <1>2, <1>3, <1>5
  <2>2. e % Block = f
    <3> HIDE DEF e, f
    <3> QED BY <1>2, <1>3, <2>1, ModIs
  <2> QED BY <1>1, <1>2, <1>5, <2>2 DEF r
<1> QED BY <1>4, <1>5

(* How many zeros the padding of a message of n bytes has.                 *)
ZerosAfter(n) == CHOOSE z \in 0..(Block - 1) : (n + 1 + z + LenBytes) % Block = 0

Run(k) == [i \in 1..k |-> ZERO]

LEMMA ZerosExist ==
  ASSUME NEW n \in Nat
  PROVE  /\ ZerosAfter(n) \in 0..(Block - 1)
         /\ (n + 1 + ZerosAfter(n) + LenBytes) % Block = 0
<1> DEFINE e == n + 1 + LenBytes
           q == e \div Block
           r == e % Block
           z == IF r = 0 THEN 0 ELSE Block - r
           f == n + 1 + z + LenBytes
<1>1. LenBytes \in 1..(Block - 1) /\ Block \in Nat \ {0} BY WordIs
<1>2. e \in Nat BY <1>1
<1>3. q \in Nat /\ r \in 0..(Block - 1) /\ e = Block * q + r BY <1>1, <1>2, DivMod
<1> HIDE DEF q, r
<1>4. z \in 0..(Block - 1) /\ f = e + z /\ f \in Nat BY <1>1, <1>3
<1>5. f % Block = 0
  <2>1. CASE r = 0
    <3>1. f = Block * q + 0 /\ 0 \in 0..(Block - 1) /\ q \in Int BY <1>1, <1>3, <1>4, <2>1
    <3> HIDE DEF f
    <3> QED BY <1>1, <1>4, <3>1, ModIs
  <2>2. CASE r # 0
    <3> DEFINE g == q + 1
    <3>1. Block * g = Block * q + Block BY <1>1, <1>3
    <3>2. z = Block - r BY <2>2
    <3> HIDE DEF z, e
    <3>3. f = Block * g + 0 /\ 0 \in 0..(Block - 1) /\ g \in Int BY <1>1, <1>3, <1>4, <3>1, <3>2
    <3> HIDE DEF f, g
    <3> QED BY <1>1, <1>4, <3>3, ModIs
  <2> QED BY <2>1, <2>2
<1> HIDE DEF z
<1>6. \E y \in 0..(Block - 1) : (n + 1 + y + LenBytes) % Block = 0 BY <1>4, <1>5
<1> QED BY <1>6, Zenon DEF ZerosAfter

LEMMA ZerosUnique ==
  ASSUME NEW n \in Nat, NEW y \in 0..(Block - 1), (n + 1 + y + LenBytes) % Block = 0
  PROVE  y = ZerosAfter(n)
<1> DEFINE z == ZerosAfter(n)
           e == n + 1 + y + LenBytes
           f == n + 1 + z + LenBytes
           p == e \div Block
           q == f \div Block
<1>1. LenBytes \in 1..(Block - 1) /\ Block \in Nat \ {0} BY WordIs
<1>2. z \in 0..(Block - 1) /\ f % Block = 0 BY ZerosExist
<1> HIDE DEF z
<1>3. e \in Nat /\ f \in Nat BY <1>1, <1>2
<1>4. p \in Nat /\ e = Block * p + (e % Block) BY <1>1, <1>3, DivMod
<1>5. q \in Nat /\ f = Block * q + (f % Block) BY <1>1, <1>3, DivMod
<1> HIDE DEF p, q
<1>6. e = Block * p /\ f = Block * q
  <2>1. e % Block = 0 OBVIOUS
  <2> HIDE DEF e, f
  <2> QED BY <1>1, <1>2, <1>4, <1>5, <2>1
<1>7. (p - q) * Block = y - z BY <1>1, <1>2, <1>4, <1>5, <1>6
<1>8. (q - p) * Block = z - y BY <1>1, <1>2, <1>4, <1>5, <1>6
<1>9. ~(p - q >= 1)
  <2> SUFFICES ASSUME p - q >= 1 PROVE FALSE OBVIOUS
  <2>1. (p - q) * Block >= Block BY <1>1, <1>4, <1>5, MulStep
  <2> QED BY <1>1, <1>2, <1>7, <2>1
<1>10. ~(q - p >= 1)
  <2> SUFFICES ASSUME q - p >= 1 PROVE FALSE OBVIOUS
  <2>1. (q - p) * Block >= Block BY <1>1, <1>4, <1>5, MulStep
  <2> QED BY <1>1, <1>2, <1>8, <2>1
<1>11. p = q BY <1>4, <1>5, <1>9, <1>10
<1>12. y = z BY <1>1, <1>2, <1>4, <1>7, <1>11
<1> QED BY <1>12 DEF z

LEMMA RunType ==
  ASSUME NEW k \in Nat
  PROVE  /\ Run(k) \in Seq(Bytes) /\ Len(Run(k)) = k
         /\ Run(k + 1) = Run(k) \o <<ZERO>>
<1>1. ZERO \in Bytes /\ <<ZERO>> \in Seq(Bytes) /\ Len(<<ZERO>>) = 1 /\ <<ZERO>>[1] = ZERO
  <2>1. ZERO \in Bytes BY ByteTypes
  <2> HIDE DEF ZERO
  <2> QED BY <2>1
<1>2. ASSUME NEW l \in Nat
      PROVE  Run(l) \in Seq(Bytes) /\ Len(Run(l)) = l /\ \A i \in 1..l : Run(l)[i] = ZERO
  <2> HIDE DEF ZERO
  <2>1. Run(l) \in [1..l -> Bytes] BY <1>1 DEF Run
  <2>2. Run(l) \in Seq(Bytes) BY <2>1
  <2> QED BY <2>1, <2>2 DEF Run
<1> DEFINE a == Run(k + 1)
           u == Run(k)
           o == <<ZERO>>
           b == u \o o
<1>3. a \in Seq(Bytes) /\ Len(a) = k + 1 /\ \A i \in 1..(k + 1) : a[i] = ZERO BY <1>2
<1>4. u \in Seq(Bytes) /\ Len(u) = k /\ \A i \in 1..k : u[i] = ZERO BY <1>2
<1>5. o \in Seq(Bytes) /\ Len(o) = 1 /\ o[1] = ZERO BY <1>1
<1> HIDE DEF a, u, o
<1>6. /\ b \in Seq(Bytes) /\ Len(b) = Len(u) + Len(o)
      /\ \A i \in 1..(Len(u) + Len(o)) : b[i] = IF i <= Len(u) THEN u[i] ELSE o[i - Len(u)]
  BY <1>4, <1>5, ConcatProperties
<1> HIDE DEF b
<1>7. ASSUME NEW i \in 1..(k + 1) PROVE b[i] = ZERO
  <2>1. CASE i <= k BY <1>4, <1>5, <1>6, <2>1
  <2>2. CASE ~(i <= k)
    <3>1. i = k + 1 /\ i - k = 1 BY <2>2
    <3> QED BY <1>4, <1>5, <1>6, <2>2, <3>1
  <2> QED BY <2>1, <2>2
<1>8. Len(b) = k + 1 BY <1>4, <1>5, <1>6
<1>9. a = b BY <1>3, <1>6, <1>7, <1>8, SeqEqual
<1> QED BY <1>4, <1>9 DEF a, b, u, o

-----------------------------------------------------------------------------
(* The invariant.                                                          *)

(* The length at the end of the padding.                                   *)
CountOf(msg) ==
  LET bits == Len(msg) * Bits IN [i \in 1..LenBytes |-> LEN(bits \div Word, bits % Word, i)]

(* What a context holds at each point of SHA1Final.                        *)
Progress ==
  /\ pc \in {"feed", "mark"} => Held(ctx) = fed
  /\ pc = "feed" => ctx.count1 * Word + ctx.count0 = Len(fed) * Bits
  /\ pc # "feed" => final = CountOf(fed)
  /\ pc = "zero" => \E k \in 0..ZerosAfter(Len(fed)) : Held(ctx) = (fed \o <<MARK>>) \o Run(k)
  /\ pc = "length" => Held(ctx) = (fed \o <<MARK>>) \o Run(ZerosAfter(Len(fed)))
  /\ pc = "done" => Held(ctx) = ((fed \o <<MARK>>) \o Run(ZerosAfter(Len(fed)))) \o CountOf(fed)

Sha1Inv ==
  /\ ctx \in Context /\ fed \in Seq(Bytes) /\ Len(fed) <= MaxLen
  /\ pc \in {"feed", "mark", "zero", "length", "done"}
  /\ Progress

LEMMA DataType ==
  ASSUME NEW n \in Nat, NEW l \in Nat
  PROVE  /\ [i \in 1..n |-> Byte("data", <<l + i>>)] \in Seq(Bytes)
         /\ Len([i \in 1..n |-> Byte("data", <<l + i>>)]) = n
<1> DEFINE d == [i \in 1..n |-> Byte("data", <<l + i>>)]
<1>1. ASSUME NEW i \in 1..n PROVE Byte("data", <<l + i>>) \in Bytes
  <2>1. l + i \in Nat OBVIOUS
  <2> QED BY <2>1, ByteTypes
<1>2. d \in [1..n -> Bytes] BY <1>1
<1> HIDE DEF d
<1>3. d \in Seq(Bytes) BY <1>2
<1>4. Len(d) = n BY <1>2, <1>3
<1> QED BY <1>3, <1>4 DEF d

LEMMA CountOfType ==
  ASSUME NEW msg \in Seq(Bytes)
  PROVE  CountOf(msg) \in Seq(Bytes) /\ Len(CountOf(msg)) = LenBytes
<1> DEFINE bits == Len(msg) * Bits
           h == bits \div Word
           l == bits % Word
           d == [i \in 1..LenBytes |-> LEN(h, l, i)]
<1>1. Len(msg) \in Nat /\ Bits \in Nat /\ Word \in Nat \ {0} /\ LenBytes \in Nat
  BY LenProperties, WordIs
<1>2. bits \in Nat BY <1>1
<1>3. h \in Nat /\ l \in Nat BY <1>1, <1>2, DivMod
<1>4. CountOf(msg) = d BY DEF CountOf
<1> HIDE DEF h, l
<1>5. ASSUME NEW i \in 1..LenBytes PROVE LEN(h, l, i) \in Bytes
  <2>1. i \in Nat BY <1>1
  <2> QED BY <1>3, <2>1, ByteTypes
<1>6. d \in [1..LenBytes -> Bytes] BY <1>5
<1> HIDE DEF d
<1>7. d \in Seq(Bytes) BY <1>1, <1>6
<1>8. Len(d) = LenBytes BY <1>1, <1>6, <1>7
<1> QED BY <1>4, <1>7, <1>8

LEMMA MarkType == <<MARK>> \in Seq(Bytes) /\ Len(<<MARK>>) = 1
<1>1. MARK \in Bytes BY ByteTypes
<1> HIDE DEF MARK
<1> QED BY <1>1

LEMMA ZeroType == <<ZERO>> \in Seq(Bytes)
<1>1. ZERO \in Bytes BY ByteTypes
<1> HIDE DEF ZERO
<1> QED BY <1>1

(* The message, the mark and k zeros.                                      *)
LEMMA PrefixType ==
  ASSUME NEW msg \in Seq(Bytes), NEW k \in Nat
  PROVE  /\ msg \o <<MARK>> \in Seq(Bytes)
         /\ (msg \o <<MARK>>) \o Run(k) \in Seq(Bytes)
         /\ Len((msg \o <<MARK>>) \o Run(k)) = Len(msg) + 1 + k
<1> DEFINE o == <<MARK>>
           m == msg \o o
           u == Run(k)
<1>1. o \in Seq(Bytes) /\ Len(o) = 1 BY MarkType
<1> HIDE DEF o
<1>2. m \in Seq(Bytes) /\ Len(m) = Len(msg) + 1
  <2>1. m \in Seq(Bytes) /\ Len(m) = Len(msg) + Len(o) BY <1>1, ConcatProperties
  <2> QED BY <1>1, <2>1
<1>3. u \in Seq(Bytes) /\ Len(u) = k BY RunType
<1> HIDE DEF m, u
<1>4. m \o u \in Seq(Bytes) /\ Len(m \o u) = Len(m) + Len(u) BY <1>2, <1>3, ConcatProperties
<1> QED BY <1>2, <1>3, <1>4 DEF m, u, o

(* The condition of the loop of SHA1Final, by the bytes that were hashed.  *)
LEMMA AtLengthIs ==
  ASSUME NEW c \in Context, NEW msg \in Seq(Bytes), NEW k \in 0..ZerosAfter(Len(msg)),
         Held(c) = (msg \o <<MARK>>) \o Run(k)
  PROVE  AtLength(c) <=> k = ZerosAfter(Len(msg))
<1> DEFINE l == Len(msg)
           z == ZerosAfter(l)
           e == l + 1 + k
<1>1. l \in Nat BY LenProperties
<1>2. z \in 0..(Block - 1) /\ (l + 1 + z + LenBytes) % Block = 0 BY <1>1, ZerosExist
<1>3. k \in 0..(Block - 1) /\ k \in Nat
  <2> HIDE DEF z
  <2>1. k \in 0..z BY DEF z
  <2> QED BY <1>2, <2>1, WordIs
<1>4. Len(Held(c)) = e BY <1>3, PrefixType
<1>5. InBuffer(c) = e % Block BY <1>4, HeldLen
<1>6. e \in Nat BY <1>1, <1>3
<1>7. AtLength(c) <=> e % Block = Block - LenBytes BY <1>5 DEF AtLength, InBuffer
<1>8. AtLength(c) <=> (e + LenBytes) % Block = 0 BY <1>6, <1>7, RoomForLength
<1>9. ASSUME (e + LenBytes) % Block = 0 PROVE k = z
  BY <1>1, <1>3, <1>9, ZerosUnique
<1>10. ASSUME k = z PROVE (e + LenBytes) % Block = 0
  BY <1>2, <1>10
<1> QED BY <1>8, <1>9, <1>10

LEMMA Sha1InvInit == HashInit => Sha1Inv
<1> SUFFICES ASSUME HashInit PROVE Sha1Inv OBVIOUS
<1> DEFINE b == [i \in 0..(Block - 1) |-> ZERO]
<1>1. Block \in Nat \ {0} /\ Bits \in Nat \ {0} /\ Word \in Nat \ {0} /\ MaxLen \in Nat BY WordIs
<1>2. b \in Buffers
  <2>1. ZERO \in Bytes BY ByteTypes
  <2> HIDE DEF ZERO
  <2> QED BY <2>1 DEF Buffers
<1>3. ctx = [count0 |-> 0, count1 |-> 0, state |-> << >>, buffer |-> b] BY DEF HashInit, SHA1Init
<1> HIDE DEF b
<1>4. << >> \in Seq(Bytes) /\ Len(<< >>) = 0 BY EmptySeq
<1>5. 0 \in 0..(Word - 1) /\ 0 % Bits = 0 /\ 0 % Block = 0 /\ 0 \div Bits = 0
  BY <1>1, ModSmall
<1>6. ctx \in Context BY <1>2, <1>3, <1>4, <1>5, ContextFrom
<1>7. fed = << >> /\ pc = "feed" BY DEF HashInit
<1>8. InBuffer(ctx) = 0 BY <1>3, <1>5 DEF InBuffer
<1>9. Held(ctx) = << >> \o Upto(b, 0) BY <1>3, <1>8 DEF Held
<1>10. Upto(b, 0) \in Seq(Bytes) /\ Len(Upto(b, 0)) = 0 BY <1>1, <1>2, UptoSeq
<1>11. Upto(b, 0) = << >> BY <1>10, EmptySeq
<1>12. Held(ctx) = fed BY <1>4, <1>7, <1>9, <1>11, ConcatEmptySeq
<1>13. ctx.count1 * Word + ctx.count0 = Len(fed) * Bits BY <1>1, <1>3, <1>4, <1>7
<1> QED BY <1>1, <1>4, <1>6, <1>7, <1>12, <1>13 DEF Sha1Inv, Progress

LEMMA Sha1InvFeed ==
  ASSUME Sha1Inv, NEW n \in Chunks, Feed(n) PROVE Sha1Inv'
<1> DEFINE data == [i \in 1..n |-> Byte("data", <<Len(fed) + i>>)]
<1>1. /\ pc = "feed" /\ Len(fed) + n <= MaxLen /\ ctx' = SHA1Update(ctx, data)
      /\ fed' = fed \o data /\ pc' = "feed"
  BY DEF Feed
<1>2. n \in Nat /\ MaxLen * Bits < Word * Word BY Sha1Assumption
<1>3. /\ ctx \in Context /\ fed \in Seq(Bytes) /\ Held(ctx) = fed
      /\ ctx.count1 * Word + ctx.count0 = Len(fed) * Bits
  BY <1>1 DEF Sha1Inv, Progress
<1>4. Len(fed) \in Nat BY <1>3, LenProperties
<1>5. data \in Seq(Bytes) /\ Len(data) = n BY <1>2, <1>4, DataType
<1> HIDE DEF data
<1>6. ctx' \in Context /\ Held(ctx') = fed' BY <1>1, <1>3, <1>5, Update
<1>7. fed' \in Seq(Bytes) /\ Len(fed') = Len(fed) + n BY <1>1, <1>3, <1>5, ConcatProperties
<1>8. ctx.count1 * Word + ctx.count0 + Len(data) * Bits = Len(fed') * Bits
  <2>1. Len(fed') * Bits = Len(fed) * Bits + n * Bits BY <1>2, <1>4, <1>7, WordIs
  <2> QED BY <1>3, <1>5, <2>1
<1>9. Len(fed') * Bits < Word * Word
  <2> DEFINE f == MaxLen - Len(fed')
  <2>1. f \in Nat /\ Bits \in Nat /\ MaxLen \in Nat /\ Word \in Nat /\ Len(fed') \in Nat
    BY <1>1, <1>2, <1>4, <1>7, WordIs
  <2>2. f * Bits >= 0 /\ f * Bits = MaxLen * Bits - Len(fed') * Bits BY <2>1
  <2>3. MaxLen * Bits \in Int /\ Len(fed') * Bits \in Int /\ Word * Word \in Int BY <2>1
  <2> QED BY <1>2, <2>2, <2>3
<1>10. ctx'.count1 * Word + ctx'.count0 = Len(fed') * Bits
  BY <1>1, <1>3, <1>5, <1>8, <1>9, UpdateCounts
<1> QED BY <1>1, <1>6, <1>7, <1>10 DEF Sha1Inv, Progress

LEMMA Sha1InvCount ==
  ASSUME Sha1Inv, FinalCount PROVE Sha1Inv'
<1>1. /\ pc = "feed" /\ final' = [i \in 1..LenBytes |-> LEN(ctx.count1, ctx.count0, i)]
      /\ pc' = "mark" /\ ctx' = ctx /\ fed' = fed
  BY DEF FinalCount
<1>2. /\ ctx \in Context /\ fed \in Seq(Bytes) /\ Held(ctx) = fed
      /\ ctx.count1 * Word + ctx.count0 = Len(fed) * Bits
  BY <1>1 DEF Sha1Inv, Progress
<1> DEFINE e == Len(fed) * Bits
           h == ctx.count1
           l == ctx.count0
<1>3. h \in 0..(Word - 1) /\ l \in 0..(Word - 1) /\ Word \in Nat \ {0} BY <1>2, ContextParts, WordIs
<1>4. Len(fed) \in Nat /\ Bits \in Nat BY <1>2, LenProperties, WordIs
<1>5. e \in Nat /\ e = h * Word + l BY <1>2, <1>4
<1> HIDE DEF e, h, l
<1>6. e = Word * h + l /\ h \in Int BY <1>3, <1>5
<1>7. e % Word = l /\ e \div Word = h BY <1>3, <1>5, <1>6, ModIs
<1>8. final' = CountOf(fed) BY <1>1, <1>7 DEF CountOf, e, h, l
<1> QED BY <1>1, <1>2, <1>8 DEF Sha1Inv, Progress

LEMMA Sha1InvMark ==
  ASSUME Sha1Inv, FinalMark PROVE Sha1Inv'
<1> DEFINE o == <<MARK>>
           m == fed \o o
<1>1. pc = "mark" /\ ctx' = SHA1Update(ctx, o) /\ pc' = "zero" /\ final' = final /\ fed' = fed
  BY DEF FinalMark
<1>2. ctx \in Context /\ fed \in Seq(Bytes) /\ Held(ctx) = fed /\ final = CountOf(fed)
  BY <1>1 DEF Sha1Inv, Progress
<1>3. o \in Seq(Bytes) BY MarkType
<1> HIDE DEF o
<1>4. ctx' \in Context /\ Held(ctx') = m BY <1>1, <1>2, <1>3, Update
<1>5. m \in Seq(Bytes) BY <1>2, <1>3, ConcatProperties
<1> HIDE DEF m
<1>6. m \o Run(0) = m
  <2>1. Run(0) \in Seq(Bytes) /\ Len(Run(0)) = 0 BY RunType
  <2>2. Run(0) = << >> BY <2>1, EmptySeq
  <2> QED BY <1>5, <2>2, ConcatEmptySeq
<1>7. 0 \in 0..ZerosAfter(Len(fed))
  <2>1. Len(fed) \in Nat BY <1>2, LenProperties
  <2>2. ZerosAfter(Len(fed)) \in Nat BY <2>1, ZerosExist, WordIs
  <2> QED BY <2>2
<1>8. \E k \in 0..ZerosAfter(Len(fed)) : Held(ctx') = (fed \o <<MARK>>) \o Run(k)
  BY <1>4, <1>6, <1>7 DEF m, o
<1> QED BY <1>1, <1>2, <1>4, <1>8 DEF Sha1Inv, Progress

LEMMA Sha1InvZero ==
  ASSUME Sha1Inv, FinalZero PROVE Sha1Inv'
<1> DEFINE m == fed \o <<MARK>>
           z == ZerosAfter(Len(fed))
           o == <<ZERO>>
<1>1. pc = "zero" /\ final' = final /\ fed' = fed BY DEF FinalZero
<1>2. ctx \in Context /\ fed \in Seq(Bytes) /\ Len(fed) <= MaxLen /\ final = CountOf(fed)
  BY <1>1 DEF Sha1Inv, Progress
<1>3. PICK k \in 0..z : Held(ctx) = m \o Run(k) BY <1>1 DEF Sha1Inv, Progress
<1>4. AtLength(ctx) <=> k = z BY <1>2, <1>3, AtLengthIs
<1>5. z \in Nat /\ k \in Nat
  <2>1. Len(fed) \in Nat BY <1>2, LenProperties
  <2>2. z \in Nat BY <2>1, ZerosExist, WordIs
  <2> QED BY <2>2
<1>6. m \in Seq(Bytes) BY <1>2, PrefixType
<1>7. o \in Seq(Bytes) BY ZeroType
<1>8. Run(k) \in Seq(Bytes) /\ Run(k + 1) = Run(k) \o o BY <1>5, RunType
<1> HIDE DEF m, z, o
<1>9. CASE ~AtLength(ctx) /\ ctx' = SHA1Update(ctx, <<ZERO>>) /\ UNCHANGED pc
  <2>1. ctx' \in Context /\ Held(ctx') = (m \o Run(k)) \o o
    BY <1>2, <1>3, <1>7, <1>9, Update DEF o
  <2>2. (m \o Run(k)) \o o = m \o (Run(k) \o o)
    <3> DEFINE u == Run(k)
    <3>1. u \in Seq(Bytes) BY <1>8
    <3> HIDE DEF u
    <3>2. (m \o u) \o o = m \o (u \o o)
      BY ONLY <1>6, <1>7, <3>1, ConcatAssociative
    <3> QED BY <3>2 DEF u
  <2>3. Held(ctx') = m \o Run(k + 1) BY <1>8, <2>1, <2>2
  <2>4. k + 1 \in 0..z BY <1>4, <1>5, <1>9
  <2>5. \E y \in 0..ZerosAfter(Len(fed)) : Held(ctx') = (fed \o <<MARK>>) \o Run(y)
    BY <2>3, <2>4 DEF m, z
  <2> QED BY <1>1, <1>2, <1>9, <2>1, <2>5 DEF Sha1Inv, Progress
<1>10. CASE AtLength(ctx) /\ pc' = "length" /\ UNCHANGED ctx
  <2>1. Held(ctx) = (fed \o <<MARK>>) \o Run(ZerosAfter(Len(fed))) BY <1>3, <1>4, <1>10 DEF m, z
  <2> QED BY <1>1, <1>2, <1>10, <2>1 DEF Sha1Inv, Progress
<1> QED BY <1>9, <1>10 DEF FinalZero

LEMMA Sha1InvLength ==
  ASSUME Sha1Inv, FinalLength PROVE Sha1Inv'
<1>1. pc = "length" /\ ctx' = SHA1Update(ctx, final) /\ pc' = "done" /\ final' = final /\ fed' = fed
  BY DEF FinalLength
<1>2. /\ ctx \in Context /\ fed \in Seq(Bytes) /\ Len(fed) <= MaxLen /\ final = CountOf(fed)
      /\ Held(ctx) = (fed \o <<MARK>>) \o Run(ZerosAfter(Len(fed)))
  BY <1>1 DEF Sha1Inv, Progress
<1>3. final \in Seq(Bytes) BY <1>2, CountOfType
<1>4. ctx' \in Context /\ Held(ctx') = Held(ctx) \o final BY <1>1, <1>2, <1>3, Update
<1> QED BY <1>1, <1>2, <1>4 DEF Sha1Inv, Progress

LEMMA Sha1Invariant == Sha1Spec => []Sha1Inv
<1>1. HashInit => Sha1Inv BY Sha1InvInit
<1>2. Sha1Inv /\ [Sha1Next]_sha1Vars => Sha1Inv'
  <2> SUFFICES ASSUME Sha1Inv, [Sha1Next]_sha1Vars PROVE Sha1Inv' OBVIOUS
  <2>1. ASSUME NEW n \in Chunks, Feed(n) PROVE Sha1Inv' BY <2>1, Sha1InvFeed
  <2>2. CASE FinalCount BY <2>2, Sha1InvCount
  <2>3. CASE FinalMark BY <2>3, Sha1InvMark
  <2>4. CASE FinalZero BY <2>4, Sha1InvZero
  <2>5. CASE FinalLength BY <2>5, Sha1InvLength
  <2>6. CASE UNCHANGED sha1Vars
    BY <2>6 DEF sha1Vars, Sha1Inv, Progress
  <2> QED BY <2>1, <2>2, <2>3, <2>4, <2>5, <2>6 DEF Sha1Next
<1> QED BY <1>1, <1>2, PTL DEF Sha1Spec

(* Nothing is lost, doubled or out of order and the count is exact,        *)
(* however the message was cut into calls of SHA1Update.                   *)
THEOREM MessageIsAbsorbed == Sha1Spec => []Absorbed
<1>1. Sha1Inv => Absorbed
  <2> SUFFICES ASSUME Sha1Inv, pc = "feed" PROVE Absorbed BY DEF Absorbed
  <2> QED BY ContextParts DEF Sha1Inv, Progress, Absorbed, Held
<1> QED BY <1>1, Sha1Invariant, PTL

(* SHA1Final hashes the message with the padding of FIPS 180.              *)
THEOREM DigestIsOfThePaddedMessage == Sha1Spec => []DigestsPaddedMessage
<1>1. Sha1Inv => DigestsPaddedMessage
  <2> SUFFICES ASSUME Sha1Inv, pc = "done" PROVE ctx.state = fed \o Padding(fed)
    BY DEF DigestsPaddedMessage
  <2> DEFINE l == Len(fed)
             z == ZerosAfter(l)
             o == <<MARK>>
             m == fed \o o
             u == Run(z)
             t == CountOf(fed)
             e == l + 1 + z
  <2>1. ctx \in Context /\ fed \in Seq(Bytes) /\ Held(ctx) = (m \o u) \o t
    BY DEF Sha1Inv, Progress
  <2>2. l \in Nat BY <2>1, LenProperties
  <2>3. z \in 0..(Block - 1) /\ z \in Nat /\ (e + LenBytes) % Block = 0
    BY <2>2, ZerosExist, WordIs
  <2>4. Padding(fed) = (o \o u) \o t BY DEF Padding, ZerosAfter, Run, CountOf
  <2>5. o \in Seq(Bytes) BY MarkType
  <2>6. u \in Seq(Bytes) BY <2>3, RunType
  <2>7. t \in Seq(Bytes) /\ Len(t) = LenBytes BY <2>1, CountOfType
  <2>8. m \o u \in Seq(Bytes) /\ Len(m \o u) = e BY <2>1, <2>3, PrefixType
  <2> HIDE DEF l, z, o, u, t, e
  <2>9. m \in Seq(Bytes) BY <2>1, <2>5, ConcatProperties
  <2>10. (m \o u) \o t = fed \o ((o \o u) \o t)
    <3>1. o \o u \in Seq(Bytes) BY <2>5, <2>6, ConcatProperties
    <3>2. m \o u = fed \o (o \o u) BY <2>1, <2>5, <2>6, ConcatAssociative
    <3> DEFINE v == o \o u
    <3>3. (m \o u) \o t = (fed \o v) \o t BY <3>2
    <3>4. v \in Seq(Bytes) /\ t \in Seq(Bytes) /\ fed \in Seq(Bytes) BY <3>1, <2>1, <2>7
    <3> HIDE DEF v
    <3>5. (fed \o v) \o t = fed \o (v \o t) BY <3>4, ConcatAssociative
    <3> QED BY <3>3, <3>5 DEF v
  <2>11. Len(Held(ctx)) = e + LenBytes
    <3> DEFINE w == m \o u
    <3>1. w \in Seq(Bytes) /\ Len(w) = e BY <2>8
    <3> HIDE DEF w
    <3>2. Len(w \o t) = Len(w) + Len(t) BY <2>7, <3>1, ConcatProperties
    <3> QED BY <2>1, <2>7, <3>1, <3>2 DEF w
  <2>12. InBuffer(ctx) = 0 BY <2>1, <2>3, <2>11, HeldLen
  <2> DEFINE b == ctx.buffer
             s == ctx.state
  <2>13. b \in Buffers /\ s \in Seq(Bytes) BY <2>1, ContextParts
  <2>14. Held(ctx) = s \o Upto(b, 0) BY <2>12 DEF Held
  <2> HIDE DEF b, s
  <2>15. Upto(b, 0) \in Seq(Bytes) /\ Len(Upto(b, 0)) = 0 BY <2>13, UptoSeq, WordIs
  <2>16. Upto(b, 0) = << >> BY <2>15, EmptySeq
  <2>17. Held(ctx) = s BY <2>13, <2>14, <2>16, ConcatEmptySeq
  <2> QED BY <2>1, <2>4, <2>10, <2>17 DEF s
<1> QED BY <1>1, Sha1Invariant, PTL

=============================================================================
