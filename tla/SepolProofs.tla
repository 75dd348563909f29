------------------------------ MODULE SepolProofs ------------------------------
(***************************************************************************)
(* Proofs about Sepol, for any policies, statements and number of          *)
(* processes: what is written reads back, statements keep a policy         *)
(* consistent and change what they name, and no live statement is lost.    *)
(***************************************************************************)
EXTENDS Sepol, FiniteSetTheorems, SequenceTheorems, TLAPS

-----------------------------------------------------------------------------
(* Policies.                                                               *)

Tables(keys, values) == UNION {[D -> values] : D \in SUBSET keys}

(* What even a policy from a file that mixes two saves has: the reader     *)
(* refuses a file in which two types share a value.                        *)
Policy ==
  {pol \in [types : Tables(Name, Value), nprim : Value, av : Tables(Key, SUBSET Bits),
            permissive : SUBSET Value, roles : SUBSET Value, attrs : Seq(SUBSET Value)] :
     /\ IsFiniteSet(DOMAIN pol.types) /\ IsFiniteSet(DOMAIN pol.av)
     /\ \A n \in DOMAIN pol.types : pol.types[n] \in 1..pol.nprim
     /\ \A n, m \in DOMAIN pol.types : pol.types[n] = pol.types[m] => n = m
     /\ Len(pol.attrs) = pol.nprim}

(* What a policy has besides, as long as none was pieced together.         *)
Sound(pol) ==
  /\ \A v \in 1..pol.nprim : \E n \in DOMAIN pol.types : pol.types[n] = v
  /\ pol.permissive \subseteq 1..pol.nprim
  /\ \A v \in 1..pol.nprim : v \in pol.attrs[v] /\ v \in pol.roles
  /\ \A k \in DOMAIN pol.av : k[1] \in 1..pol.nprim /\ k[2] \in 1..pol.nprim

LEMMA TableFrom ==
  ASSUME NEW t, NEW K, NEW V, t = [x \in DOMAIN t |-> t[x]], DOMAIN t \subseteq K,
         \A x \in DOMAIN t : t[x] \in V
  PROVE  t \in Tables(K, V)
<1>1. t \in [DOMAIN t -> V] OBVIOUS
<1> QED BY <1>1 DEF Tables

LEMMA TableParts ==
  ASSUME NEW K, NEW V, NEW t \in Tables(K, V)
  PROVE  /\ t = [x \in DOMAIN t |-> t[x]] /\ DOMAIN t \subseteq K
         /\ \A x \in DOMAIN t : t[x] \in V
<1>1. PICK D \in SUBSET K : t \in [D -> V] BY DEF Tables
<1> QED BY <1>1

LEMMA PolicyParts ==
  ASSUME NEW pol \in Policy
  PROVE  /\ pol.types \in Tables(Name, Value) /\ DOMAIN pol.types \subseteq Name
         /\ \A n \in DOMAIN pol.types : pol.types[n] \in 1..pol.nprim
         /\ \A n, m \in DOMAIN pol.types : pol.types[n] = pol.types[m] => n = m
         /\ IsFiniteSet(DOMAIN pol.types)
         /\ pol.nprim \in Value /\ pol.nprim \in Nat
         /\ pol.av \in Tables(Key, SUBSET Bits) /\ DOMAIN pol.av \subseteq Key
         /\ \A k \in DOMAIN pol.av : pol.av[k] \subseteq Bits
         /\ IsFiniteSet(DOMAIN pol.av)
         /\ pol.permissive \subseteq Value /\ pol.roles \subseteq Value
         /\ pol.attrs \in Seq(SUBSET Value) /\ Len(pol.attrs) = pol.nprim
<1>1. /\ pol.types \in Tables(Name, Value) /\ pol.av \in Tables(Key, SUBSET Bits)
      /\ pol.nprim \in Value
      /\ pol.permissive \subseteq Value /\ pol.roles \subseteq Value
      /\ pol.attrs \in Seq(SUBSET Value) /\ Len(pol.attrs) = pol.nprim
      /\ IsFiniteSet(DOMAIN pol.types) /\ IsFiniteSet(DOMAIN pol.av)
  BY DEF Policy
<1>2. \A n \in DOMAIN pol.types : pol.types[n] \in 1..pol.nprim BY DEF Policy
<1>3. \A n, m \in DOMAIN pol.types : pol.types[n] = pol.types[m] => n = m BY DEF Policy
<1>4. DOMAIN pol.types \subseteq Name BY <1>1, TableParts
<1>5. DOMAIN pol.av \subseteq Key /\ \A k \in DOMAIN pol.av : pol.av[k] \in SUBSET Bits
  BY <1>1, TableParts
<1>6. pol.nprim \in Nat BY <1>1 DEF Value
<1> QED BY <1>1, <1>2, <1>3, <1>4, <1>5, <1>6

LEMMA PolicyIs ==
  ASSUME NEW pol \in Policy
  PROVE  pol = [types |-> pol.types, nprim |-> pol.nprim, av |-> pol.av,
                permissive |-> pol.permissive, roles |-> pol.roles, attrs |-> pol.attrs]
BY DEF Policy

PolicyOf(t, n, a, p, r, s) ==
  /\ t \in Tables(Name, Value) /\ n \in Value /\ a \in Tables(Key, SUBSET Bits)
  /\ p \in SUBSET Value /\ r \in SUBSET Value /\ s \in Seq(SUBSET Value)
  /\ IsFiniteSet(DOMAIN t) /\ IsFiniteSet(DOMAIN a)
  /\ \A x \in DOMAIN t : t[x] \in 1..n
  /\ \A x, y \in DOMAIN t : t[x] = t[y] => x = y
  /\ Len(s) = n

LEMMA PolicyFrom ==
  ASSUME NEW t, NEW n, NEW a, NEW p, NEW r, NEW s, PolicyOf(t, n, a, p, r, s)
  PROVE  [types |-> t, nprim |-> n, av |-> a, permissive |-> p, roles |-> r, attrs |-> s] \in Policy
BY DEF Policy, PolicyOf

LEMMA PolicyIsPolicy ==
  ASSUME NEW pol \in Policy PROVE IsPolicy(pol) /\ pol # NoPolicy
<1>1. pol.types \in Tables(Name, Value) /\ pol.av \in Tables(Key, SUBSET Bits) BY PolicyParts
<1>2. IsTable(pol.types, Name) /\ \A n \in DOMAIN pol.types : pol.types[n] \in Value
  <2>1. /\ pol.types = [x \in DOMAIN pol.types |-> pol.types[x]] /\ DOMAIN pol.types \subseteq Name
        /\ \A x \in DOMAIN pol.types : pol.types[x] \in Value
    BY <1>1, TableParts
  <2> QED BY <2>1, PolicyParts DEF IsTable
<1>3. IsTable(pol.av, Key)
  <2>1. pol.av = [x \in DOMAIN pol.av |-> pol.av[x]] /\ DOMAIN pol.av \subseteq Key
    BY <1>1, TableParts
  <2> QED BY <2>1, PolicyParts DEF IsTable
<1>4. pol # NoPolicy
  <2>1. pol.nprim # 0 BY PolicyParts DEF Value
  <2>2. NoPolicy.nprim = 0 BY DEF NoPolicy
  <2> QED BY <2>1, <2>2
<1> QED BY <1>2, <1>3, <1>4, PolicyParts, PolicyIs DEF IsPolicy

(* A table takes each of its values once where there are as many.          *)
LEMMA TableCardinality ==
  ASSUME NEW t, t = [x \in DOMAIN t |-> t[x]], IsFiniteSet(DOMAIN t)
  PROVE  /\ IsFiniteSet({t[x] : x \in DOMAIN t})
         /\ Cardinality({t[x] : x \in DOMAIN t}) = Cardinality(DOMAIN t)
              <=> \A x, y \in DOMAIN t : t[x] = t[y] => x = y
<1> DEFINE D == DOMAIN t
           V == {t[x] : x \in D}
<1>1. t \in Surjection(D, V) BY DEF Surjection
<1>2. /\ IsFiniteSet(V)
      /\ Cardinality(V) = Cardinality(D) <=> t \in Injection(D, V)
  BY <1>1, FS_Surjection
<1>3. t \in Injection(D, V) <=> \A x, y \in D : t[x] = t[y] => x = y
  BY DEF Injection, IsInjective
<1> QED BY <1>2, <1>3

LEMMA SoundIsConsistent ==
  ASSUME NEW pol \in Policy, Sound(pol) PROVE Consistent(pol)
<1> DEFINE t == pol.types
           V == {t[n] : n \in DOMAIN t}
<1>1. t \in Tables(Name, Value) BY PolicyParts
<1>2. t = [x \in DOMAIN t |-> t[x]] BY <1>1, TableParts
<1>3. Cardinality(V) = Cardinality(DOMAIN t) BY <1>2, PolicyParts, TableCardinality
<1>4. V = 1..pol.nprim BY PolicyParts DEF Sound
<1> QED BY <1>3, <1>4, PolicyParts DEF Consistent, Sound

LEMMA ConsistentIsSound ==
  ASSUME NEW pol, IsPolicy(pol), Consistent(pol) PROVE pol \in Policy /\ Sound(pol)
<1> DEFINE t == pol.types
           a == pol.av
           V == {t[n] : n \in DOMAIN t}
<1>1. /\ t = [x \in DOMAIN t |-> t[x]] /\ DOMAIN t \subseteq Name /\ IsFiniteSet(DOMAIN t)
      /\ \A x \in DOMAIN t : t[x] \in Value
  BY DEF IsPolicy, IsTable
<1>2. /\ a = [x \in DOMAIN a |-> a[x]] /\ DOMAIN a \subseteq Key /\ IsFiniteSet(DOMAIN a)
      /\ \A x \in DOMAIN a : a[x] \in SUBSET Bits
  BY DEF IsPolicy, IsTable
<1>3. t \in Tables(Name, Value) BY <1>1, TableFrom
<1>4. a \in Tables(Key, SUBSET Bits) BY <1>2, TableFrom
<1>5. /\ Cardinality(V) = Cardinality(DOMAIN t) /\ V = 1..pol.nprim /\ Len(pol.attrs) = pol.nprim
      /\ pol.permissive \subseteq V
      /\ \A v \in V : v \in pol.attrs[v] /\ v \in pol.roles
      /\ \A k \in DOMAIN a : k[1] \in V /\ k[2] \in V
  BY DEF Consistent
<1>6. \A x, y \in DOMAIN t : t[x] = t[y] => x = y BY <1>1, <1>5, TableCardinality
<1>7. \A x \in DOMAIN t : t[x] \in 1..pol.nprim BY <1>5
<1>8. /\ pol.nprim \in Value /\ pol.permissive \in SUBSET Value /\ pol.roles \in SUBSET Value
      /\ pol.attrs \in Seq(SUBSET Value)
      /\ pol = [types |-> t, nprim |-> pol.nprim, av |-> a, permissive |-> pol.permissive,
                roles |-> pol.roles, attrs |-> pol.attrs]
  BY DEF IsPolicy
<1>9. \A v \in 1..pol.nprim : \E n \in DOMAIN t : t[n] = v BY <1>5
<1>10. Sound(pol) BY <1>5, <1>9 DEF Sound
<1>11. pol \in Policy
  <2> DEFINE n == pol.nprim
             p == pol.permissive
             r == pol.roles
             s == pol.attrs
  <2>1. /\ n \in Value /\ p \in SUBSET Value /\ r \in SUBSET Value /\ s \in Seq(SUBSET Value)
        /\ IsFiniteSet(DOMAIN t) /\ IsFiniteSet(DOMAIN a) /\ Len(s) = n
        /\ \A x \in DOMAIN t : t[x] \in 1..n
    BY <1>1, <1>2, <1>5, <1>7, <1>8
  <2>2. pol = [types |-> t, nprim |-> n, av |-> a, permissive |-> p, roles |-> r, attrs |-> s]
    BY <1>8
  <2> HIDE DEF t, a, n, p, r, s
  <2>3. PolicyOf(t, n, a, p, r, s) BY <1>3, <1>4, <1>6, <2>1 DEF PolicyOf
  <2> QED BY <2>2, <2>3, PolicyFrom
<1> QED BY <1>10, <1>11

-----------------------------------------------------------------------------
(* Writing a policy and reading it back.                                   *)

LEMMA SetToSeqIs ==
  ASSUME NEW S, IsFiniteSet(S), NEW s, s = SetToSeq(S)
  PROVE  /\ Cardinality(S) \in Nat /\ s \in Seq(S) /\ Len(s) = Cardinality(S)
         /\ \A i, j \in 1..Cardinality(S) : s[i] = s[j] => i = j
         /\ \A i \in 1..Cardinality(S) : s[i] \in S
         /\ \A x \in S : \E i \in 1..Cardinality(S) : s[i] = x
<1> DEFINE n == Cardinality(S)
           D == 1..n
<1>1. n \in Nat /\ ExistsBijection(D, S) BY FS_CardinalityType
<1> HIDE DEF n
<1>2. PICK f : f \in Bijection(D, S) BY <1>1 DEF ExistsBijection
<1>3. f \in [D -> S] /\ IsInjective(f) BY <1>2 DEF Bijection, Injection
<1>4. s = CHOOSE g \in [D -> S] : IsInjective(g) BY DEF SetToSeq, n
<1>5. s \in [D -> S] /\ IsInjective(s) BY <1>3, <1>4
<1>6. s \in Injection(D, S) BY <1>5 DEF Injection
<1>7. Cardinality(D) = n /\ IsFiniteSet(D) BY <1>1, FS_Interval
<1> HIDE DEF D
<1>8. s \in Surjection(D, S) BY <1>6, <1>7, FS_Injection DEF n
<1>9. \A x \in S : \E i \in D : s[i] = x BY <1>8 DEF Surjection
<1>10. \A i, j \in D : s[i] = s[j] => i = j BY <1>5 DEF IsInjective
<1>11. s \in Seq(S) /\ Len(s) = n BY <1>1, <1>5 DEF D
<1> QED BY <1>1, <1>5, <1>9, <1>10, <1>11 DEF D, n

(* c is s, then t.                                                         *)
Joined(c, s, t) ==
  /\ c \in Seq(Record) /\ Len(c) = Len(s) + Len(t)
  /\ \A i \in 1..Len(s) : c[i] = s[i]
  /\ \A i \in 1..Len(t) : c[Len(s) + i] = t[i]

LEMMA Concat ==
  ASSUME NEW s \in Seq(Record), NEW t \in Seq(Record) PROVE Joined(s \o t, s, t)
<1> DEFINE c == s \o t
           n == Len(s)
           m == Len(t)
<1>1. /\ c \in Seq(Record) /\ Len(c) = n + m
      /\ \A i \in 1..(n + m) : c[i] = IF i <= n THEN s[i] ELSE t[i - n]
  BY ConcatProperties
<1>2. n \in Nat /\ m \in Nat BY LenProperties
<1> HIDE DEF c, n, m
<1>3. ASSUME NEW i \in 1..n PROVE c[i] = s[i] BY <1>1, <1>2
<1>4. ASSUME NEW i \in 1..m PROVE c[n + i] = t[i]
  <2>1. n + i \in 1..(n + m) /\ ~(n + i <= n) /\ (n + i) - n = i BY <1>2
  <2>2. c[n + i] = t[(n + i) - n] BY <1>1, <2>1
  <2> QED BY <2>1, <2>2
<1> QED BY <1>1, <1>3, <1>4 DEF Joined, c, n, m

(* The fields of the records of a file.                                    *)
LEMMA RecordFields ==
  ASSUME NEW r \in Record
  PROVE  /\ r.k \in {"head", "types", "type", "avtab", "rule", "attr"}
         /\ r.k = "head" => r.permissive \subseteq Value /\ r.roles \subseteq Value
         /\ r.k = "types" => r.nprim \in Value /\ r.nel \in Nat
         /\ r.k = "type" => r.name \in Name /\ r.value \in Value
         /\ r.k = "avtab" => r.nel \in Nat
         /\ r.k = "rule" => r.key \in Key /\ r.data \subseteq Bits
         /\ r.k = "attr" => r.types \subseteq Value
BY DEF Record

LEMMA RecordFrom ==
  /\ \A p, r \in SUBSET Value : [k |-> "head", permissive |-> p, roles |-> r] \in Record
  /\ \A p \in Value, n \in Nat : [k |-> "types", nprim |-> p, nel |-> n] \in Record
  /\ \A x \in Name, v \in Value : [k |-> "type", name |-> x, value |-> v] \in Record
  /\ \A n \in Nat : [k |-> "avtab", nel |-> n] \in Record
  /\ \A x \in Key, d \in SUBSET Bits : [k |-> "rule", key |-> x, data |-> d] \in Record
  /\ \A v \in SUBSET Value : [k |-> "attr", types |-> v] \in Record
BY DEF Record

(* A function on 1..n is a sequence of length n.                           *)
LEMMA FunctionIsSeq ==
  ASSUME NEW S, NEW n \in Nat, NEW f \in [1..n -> S]
  PROVE  f \in Seq(S) /\ Len(f) = n
OBVIOUS

(* The parts of an image of a policy, and where they lie in the file.      *)
Names(pol) == SetToSeq(DOMAIN pol.types)
Rules(pol) == SetToSeq(DOMAIN pol.av)
NTypes(pol) == Cardinality(DOMAIN pol.types)
NRules(pol) == Cardinality(DOMAIN pol.av)
SizeOf(pol) == NTypes(pol) + NRules(pol) + pol.nprim + 3

HeadLaid(f, pol) ==
  /\ f[1].k = "head" /\ f[1].permissive = pol.permissive /\ f[1].roles = pol.roles
  /\ f[2].k = "types" /\ f[2].nprim = pol.nprim /\ f[2].nel = NTypes(pol)
  /\ f[NTypes(pol) + 3].k = "avtab" /\ f[NTypes(pol) + 3].nel = NRules(pol)

TypesLaid(f, pol) ==
  \A i \in 1..NTypes(pol) :
    f[2 + i].k = "type" /\ f[2 + i].name = Names(pol)[i] /\ f[2 + i].value = pol.types[Names(pol)[i]]

RulesLaid(f, pol) ==
  LET n == NTypes(pol) + 3 IN
  \A i \in 1..NRules(pol) :
    f[n + i].k = "rule" /\ f[n + i].key = Rules(pol)[i] /\ f[n + i].data = pol.av[Rules(pol)[i]]

AttrsLaid(f, pol) ==
  LET n == NTypes(pol) + NRules(pol) + 3 IN
  \A i \in 1..pol.nprim : f[n + i].k = "attr" /\ f[n + i].types = pol.attrs[i]

(* An image, whatever follows it in the file.                              *)
LEMMA WriteIs ==
  ASSUME NEW pol \in Policy, NEW tail \in Seq(Record), NEW f, f = policydb_write(pol) \o tail
  PROVE  /\ policydb_write(pol) \in Seq(Record) /\ Len(policydb_write(pol)) = SizeOf(pol)
         /\ f \in Seq(Record) /\ Len(f) = SizeOf(pol) + Len(tail)
         /\ HeadLaid(f, pol) /\ TypesLaid(f, pol) /\ RulesLaid(f, pol) /\ AttrsLaid(f, pol)
<1> DEFINE n == NTypes(pol)
           m == NRules(pol)
           names == Names(pol)
           rules == Rules(pol)
<1>0. /\ names = SetToSeq(DOMAIN pol.types) /\ rules = SetToSeq(DOMAIN pol.av)
      /\ n = Cardinality(DOMAIN pol.types) /\ m = Cardinality(DOMAIN pol.av)
  BY DEF NTypes, NRules, Names, Rules
<1> HIDE DEF n, m, names, rules
<1> DEFINE a == pol.nprim
           h == [k |-> "head", permissive |-> pol.permissive, roles |-> pol.roles]
           y == [k |-> "types", nprim |-> pol.nprim, nel |-> n]
           v == [k |-> "avtab", nel |-> m]
           A == <<h, y>>
           B == [i \in 1..n |-> [k |-> "type", name |-> names[i], value |-> pol.types[names[i]]]]
           C == <<v>>
           D == [i \in 1..m |-> [k |-> "rule", key |-> rules[i], data |-> pol.av[rules[i]]]]
           E == [i \in 1..a |-> [k |-> "attr", types |-> pol.attrs[i]]]
<1>1. /\ n \in Nat /\ Len(names) = n /\ \A i \in 1..n : names[i] \in DOMAIN pol.types
  BY <1>0, PolicyParts, SetToSeqIs
<1>2. /\ m \in Nat /\ Len(rules) = m /\ \A i \in 1..m : rules[i] \in DOMAIN pol.av
  BY <1>0, PolicyParts, SetToSeqIs
<1>3. a \in Nat /\ Len(pol.attrs) = a BY PolicyParts
<1>4. A \in Seq(Record) /\ Len(A) = 2 /\ A[1] = h /\ A[2] = y
  <2>1. h \in Record /\ y \in Record BY <1>1, PolicyParts, RecordFrom
  <2> HIDE DEF h, y
  <2> QED BY <2>1
<1>5. C \in Seq(Record) /\ Len(C) = 1 /\ C[1] = v
  <2>1. v \in Record BY <1>2, RecordFrom
  <2> HIDE DEF v
  <2> QED BY <2>1
<1>6. B \in Seq(Record) /\ Len(B) = n
  <2>1. ASSUME NEW i \in 1..n
        PROVE  [k |-> "type", name |-> names[i], value |-> pol.types[names[i]]] \in Record
    <3>1. names[i] \in Name /\ pol.types[names[i]] \in Value BY <1>1, PolicyParts DEF Value
    <3> QED BY <3>1, RecordFrom
  <2>2. B \in [1..n -> Record] /\ n \in Nat BY <1>1, <2>1
  <2> HIDE DEF B, n
  <2> QED BY <2>2, FunctionIsSeq
<1>7. D \in Seq(Record) /\ Len(D) = m
  <2>1. ASSUME NEW i \in 1..m
        PROVE  [k |-> "rule", key |-> rules[i], data |-> pol.av[rules[i]]] \in Record
    <3>1. rules[i] \in Key /\ pol.av[rules[i]] \in SUBSET Bits BY <1>2, PolicyParts
    <3> QED BY <3>1, RecordFrom
  <2>2. D \in [1..m -> Record] /\ m \in Nat BY <1>2, <2>1
  <2> HIDE DEF D, m
  <2> QED BY <2>2, FunctionIsSeq
<1>8. E \in Seq(Record) /\ Len(E) = a
  <2>1. ASSUME NEW i \in 1..a PROVE [k |-> "attr", types |-> pol.attrs[i]] \in Record
    <3>1. pol.attrs[i] \in SUBSET Value BY <1>3, PolicyParts, ElementOfSeq
    <3> QED BY <3>1, RecordFrom
  <2>2. E \in [1..a -> Record] /\ a \in Nat BY <1>3, <2>1
  <2> HIDE DEF E, a
  <2> QED BY <2>2, FunctionIsSeq
<1>9. policydb_write(pol) = (((A \o B) \o C) \o D) \o E
  BY <1>0, <1>1, <1>2, <1>3 DEF policydb_write
<1>10. /\ \A i \in 1..n : B[i] = [k |-> "type", name |-> names[i], value |-> pol.types[names[i]]]
       /\ \A i \in 1..m : D[i] = [k |-> "rule", key |-> rules[i], data |-> pol.av[rules[i]]]
       /\ \A i \in 1..a : E[i] = [k |-> "attr", types |-> pol.attrs[i]]
  OBVIOUS
<1> HIDE DEF A, B, C, D, E, h, y, v, a
<1> DEFINE F1 == A \o B
           F2 == F1 \o C
           F3 == F2 \o D
           F4 == F3 \o E
           l == Len(tail)
<1>11. /\ F1 \in Seq(Record) /\ Len(F1) = 2 + n
       /\ \A i \in 1..2 : F1[i] = A[i]
       /\ \A i \in 1..n : F1[2 + i] = B[i]
  <2>1. Joined(F1, A, B) BY <1>4, <1>6, Concat
  <2> QED BY <1>4, <1>6, <2>1 DEF Joined
<1> HIDE DEF F1
<1>12. /\ F2 \in Seq(Record) /\ Len(F2) = n + 3
       /\ \A i \in 1..(2 + n) : F2[i] = F1[i]
       /\ F2[n + 3] = C[1]
  <2>1. Joined(F2, F1, C) BY <1>5, <1>11, Concat
  <2> HIDE DEF F2
  <2>2. (2 + n) + 1 = n + 3 /\ 1 \in 1..1 BY <1>1
  <2>3. /\ F2 \in Seq(Record) /\ Len(F2) = (2 + n) + 1
        /\ \A i \in 1..(2 + n) : F2[i] = F1[i]
        /\ \A i \in 1..1 : F2[(2 + n) + i] = C[i]
    BY <1>5, <1>11, <2>1 DEF Joined
  <2> QED BY <2>2, <2>3
<1> HIDE DEF F2
<1>13. /\ F3 \in Seq(Record) /\ Len(F3) = n + 3 + m
       /\ \A i \in 1..(n + 3) : F3[i] = F2[i]
       /\ \A i \in 1..m : F3[n + 3 + i] = D[i]
  <2>1. Joined(F3, F2, D) BY <1>7, <1>12, Concat
  <2> HIDE DEF F3
  <2> QED BY <1>7, <1>12, <2>1 DEF Joined
<1> HIDE DEF F3
<1>14. /\ F4 \in Seq(Record) /\ Len(F4) = n + m + 3 + a
       /\ \A i \in 1..(n + m + 3) : F4[i] = F3[i]
       /\ \A i \in 1..a : F4[n + m + 3 + i] = E[i]
  <2>1. Joined(F4, F3, E) BY <1>8, <1>13, Concat
  <2> HIDE DEF F4
  <2>2. Len(F3) = n + m + 3 BY <1>1, <1>2, <1>13
  <2> QED BY <1>8, <2>1, <2>2 DEF Joined
<1> HIDE DEF F4
<1>15. /\ f \in Seq(Record) /\ Len(f) = n + m + 3 + a + l
       /\ \A i \in 1..(n + m + 3 + a) : f[i] = F4[i]
  <2>1. f = F4 \o tail BY <1>9 DEF F1, F2, F3, F4
  <2>2. Joined(f, F4, tail) BY <1>14, <2>1, Concat
  <2> QED BY <1>14, <2>2 DEF Joined
<1> HIDE DEF l
<1>16. policydb_write(pol) = F4 BY <1>9 DEF F1, F2, F3, F4
<1>17. ASSUME NEW i \in 1..(2 + n) PROVE f[i] = F1[i]
  <2>1. /\ i \in 1..(n + 3) /\ i \in 1..(n + m + 3) /\ i \in 1..(n + m + 3 + a)
    BY <1>1, <1>2, <1>3
  <2>2. f[i] = F4[i] BY <1>15, <2>1
  <2>3. F4[i] = F3[i] BY <1>14, <2>1
  <2>4. F3[i] = F2[i] BY <1>13, <2>1
  <2> QED BY <1>12, <2>2, <2>3, <2>4
<1>17a. f[1] = h /\ f[2] = y
  <2>1. 1 \in 1..(2 + n) /\ 2 \in 1..(2 + n) /\ 1 \in 1..2 /\ 2 \in 1..2 BY <1>1
  <2>2. f[1] = F1[1] /\ f[2] = F1[2] BY <1>17, <2>1
  <2>3. F1[1] = A[1] /\ F1[2] = A[2] BY <1>11, <2>1
  <2> QED BY <1>4, <2>2, <2>3
<1>18. ASSUME NEW i \in 1..n PROVE f[2 + i] = B[i]
  <2>1. 2 + i \in 1..(2 + n) BY <1>1
  <2>2. f[2 + i] = F1[2 + i] BY <1>17, <2>1
  <2> QED BY <1>11, <2>2
<1>19. f[n + 3] = v
  <2>1. n + 3 \in 1..(n + 3) /\ n + 3 \in 1..(n + m + 3) /\ n + 3 \in 1..(n + m + 3 + a)
    BY <1>1, <1>2, <1>3
  <2> QED BY <1>5, <1>12, <1>13, <1>14, <1>15, <2>1
<1>20. ASSUME NEW i \in 1..m PROVE f[n + 3 + i] = D[i]
  <2>1. n + 3 + i \in 1..(n + m + 3) /\ n + 3 + i \in 1..(n + m + 3 + a)
    BY <1>1, <1>2, <1>3
  <2> QED BY <1>13, <1>14, <1>15, <2>1
<1>21. ASSUME NEW i \in 1..a PROVE f[n + m + 3 + i] = E[i]
  <2>1. n + m + 3 + i \in 1..(n + m + 3 + a) BY <1>1, <1>2, <1>3
  <2> QED BY <1>14, <1>15, <2>1
<1>22. Len(F4) = n + m + a + 3 /\ Len(f) = n + m + a + 3 + l
  <2>1. l \in Nat BY LenProperties DEF l
  <2>2. n + m + a + 3 = n + m + 3 + a /\ n + m + a + 3 + l = n + m + 3 + a + l
    BY <1>1, <1>2, <1>3, <2>1
  <2> QED BY <1>14, <1>15, <2>2
<1>23. HeadLaid(f, pol)
  <2>1. h.k = "head" /\ h.permissive = pol.permissive /\ h.roles = pol.roles BY DEF h
  <2>2. y.k = "types" /\ y.nprim = pol.nprim /\ y.nel = n BY DEF y
  <2>3. v.k = "avtab" /\ v.nel = m BY DEF v
  <2> QED BY <1>17a, <1>19, <2>1, <2>2, <2>3 DEF HeadLaid, n, m
<1>24. TypesLaid(f, pol)
  <2>1. ASSUME NEW i \in 1..n
        PROVE  /\ f[2 + i].k = "type" /\ f[2 + i].name = names[i]
               /\ f[2 + i].value = pol.types[names[i]]
    <3>1. B[i] = [k |-> "type", name |-> names[i], value |-> pol.types[names[i]]] BY <1>10
    <3>2. B[i].k = "type" /\ B[i].name = names[i] /\ B[i].value = pol.types[names[i]] BY <3>1
    <3> QED BY <1>18, <3>2
  <2> QED BY <2>1 DEF TypesLaid, n, names
<1>25. RulesLaid(f, pol)
  <2>1. ASSUME NEW i \in 1..m
        PROVE  /\ f[n + 3 + i].k = "rule" /\ f[n + 3 + i].key = rules[i]
               /\ f[n + 3 + i].data = pol.av[rules[i]]
    <3>1. D[i] = [k |-> "rule", key |-> rules[i], data |-> pol.av[rules[i]]] BY <1>10
    <3>2. D[i].k = "rule" /\ D[i].key = rules[i] /\ D[i].data = pol.av[rules[i]] BY <3>1
    <3> QED BY <1>20, <3>2
  <2> QED BY <2>1 DEF RulesLaid, n, m, rules
<1>26. AttrsLaid(f, pol)
  <2>1. ASSUME NEW i \in 1..a
        PROVE  f[n + m + 3 + i].k = "attr" /\ f[n + m + 3 + i].types = pol.attrs[i]
    <3>1. E[i] = [k |-> "attr", types |-> pol.attrs[i]] BY <1>10
    <3>2. E[i].k = "attr" /\ E[i].types = pol.attrs[i] BY <3>1
    <3> QED BY <1>21, <3>2
  <2> QED BY <2>1 DEF AttrsLaid, n, m, a
<1>27. Len(F4) = SizeOf(pol) /\ Len(f) = SizeOf(pol) + Len(tail)
  BY <1>22 DEF SizeOf, n, m, a, l
<1> QED BY <1>14, <1>15, <1>16, <1>23, <1>24, <1>25, <1>26, <1>27

(* IsImage and policydb_read, by the numbers of types, rules and values.   *)
ImageOf(f, n, m, a) ==
  /\ AllOf(f, 0, 1, "head") /\ AllOf(f, 1, 1, "types") /\ AllOf(f, 2, n, "type")
  /\ Cardinality({f[i].name : i \in (2 + 1)..(2 + n)}) = n
  /\ Cardinality({f[i].value : i \in (2 + 1)..(2 + n)}) = n
  /\ \A i \in 3..(n + 2) : f[i].value \in 1..a
  /\ AllOf(f, n + 2, 1, "avtab") /\ m # 0 /\ AllOf(f, n + 3, m, "rule")
  /\ Cardinality({f[i].key : i \in (n + 3 + 1)..(n + 3 + m)}) = m
  /\ AllOf(f, n + m + 3, a, "attr")

ReadOf(f, n, m, a) ==
  [types |-> [x \in {f[i].name : i \in 3..(n + 2)} |->
                (CHOOSE c \in {f[i] : i \in 3..(n + 2)} : c.name = x).value],
   nprim |-> a,
   av |-> [x \in {f[i].key : i \in (n + 4)..(n + m + 3)} |->
             (CHOOSE c \in {f[i] : i \in (n + 4)..(n + m + 3)} : c.key = x).data],
   permissive |-> f[1].permissive, roles |-> f[1].roles,
   attrs |-> [i \in 1..a |-> f[n + m + 3 + i].types]]

LEMMA IsImageParts ==
  ASSUME NEW f
  PROVE  /\ IsImage(f) <=> ImageOf(f, f[2].nel, f[f[2].nel + 3].nel, f[2].nprim)
         /\ policydb_read(f) = ReadOf(f, f[2].nel, f[f[2].nel + 3].nel, f[2].nprim)
<1>1. IsImage(f) <=> ImageOf(f, f[2].nel, f[f[2].nel + 3].nel, f[2].nprim)
  BY Zenon DEF IsImage, DistinctIn, ImageOf
<1>2. policydb_read(f) = ReadOf(f, f[2].nel, f[f[2].nel + 3].nel, f[2].nprim)
  BY DEF policydb_read, ReadOf
<1> QED BY <1>1, <1>2

(* What a policy with a rule is written to is an image, whatever follows   *)
(* it in the file, and it reads as that policy.                            *)
LEMMA WriteReads ==
  ASSUME NEW pol \in Policy, NEW tail \in Seq(Record), NEW f, f = policydb_write(pol) \o tail
  PROVE  (IsImage(f) <=> DOMAIN pol.av # {}) /\ policydb_read(f) = pol
<1> DEFINE t == pol.types
           d == pol.av
           names == Names(pol)
           rules == Rules(pol)
           n == NTypes(pol)
           m == NRules(pol)
           a == pol.nprim
           e == n + 3
           g == n + m + 3
<1>1. /\ f \in Seq(Record) /\ Len(f) = SizeOf(pol) + Len(tail)
      /\ HeadLaid(f, pol) /\ TypesLaid(f, pol) /\ RulesLaid(f, pol) /\ AttrsLaid(f, pol)
  BY WriteIs
<1>2. a \in Nat /\ Len(tail) \in Nat /\ IsFiniteSet(DOMAIN t) /\ IsFiniteSet(DOMAIN d)
  BY PolicyParts, LenProperties
<1>3. /\ n \in Nat /\ \A i \in 1..n : names[i] \in DOMAIN t
      /\ \A x \in DOMAIN t : \E i \in 1..n : names[i] = x
  BY <1>2, SetToSeqIs DEF Names, NTypes
<1>4. /\ m \in Nat /\ \A i \in 1..m : rules[i] \in DOMAIN d
      /\ \A x \in DOMAIN d : \E i \in 1..m : rules[i] = x
  BY <1>2, SetToSeqIs DEF Rules, NRules
<1>5. t = [x \in DOMAIN t |-> t[x]] /\ d = [x \in DOMAIN d |-> d[x]]
  BY PolicyParts, TableParts
<1>6. Cardinality({t[x] : x \in DOMAIN t}) = n
  BY <1>2, <1>5, PolicyParts, TableCardinality DEF NTypes
<1>6a. Cardinality(DOMAIN t) = n /\ Cardinality(DOMAIN d) = m BY DEF NTypes, NRules
<1>7. /\ f[2].nel = n /\ f[n + 3].nel = m /\ f[2].nprim = a /\ f[1].k = "head" /\ f[2].k = "types"
      /\ f[n + 3].k = "avtab" /\ f[1].permissive = pol.permissive /\ f[1].roles = pol.roles
  BY <1>1 DEF HeadLaid
<1>8. \A i \in 1..n :
        f[2 + i].k = "type" /\ f[2 + i].name = names[i] /\ f[2 + i].value = t[names[i]]
  BY <1>1 DEF TypesLaid
<1>9. \A i \in 1..m :
        f[e + i].k = "rule" /\ f[e + i].key = rules[i] /\ f[e + i].data = d[rules[i]]
  BY <1>1 DEF RulesLaid
<1>9a. \A i \in 1..a : f[g + i].k = "attr" /\ f[g + i].types = pol.attrs[i]
  BY <1>1 DEF AttrsLaid
<1>9b. e \in Nat /\ g \in Nat /\ e = n + 3 /\ g = e + m /\ Len(f) = g + a + Len(tail) /\ g = n + m + 3
  BY <1>1, <1>2, <1>3, <1>4 DEF SizeOf
<1> HIDE DEF names, rules, n, m, e, g, t, d, a
(* The records of the types and of the rules, by their place in the file.  *)
<1>10. ASSUME NEW i \in 3..(n + 2)
       PROVE  f[i].k = "type" /\ f[i].name \in DOMAIN t /\ f[i].value = t[f[i].name]
  <2>1. PICK j \in 1..n : i = 2 + j
    <3>1. i - 2 \in 1..n /\ i = 2 + (i - 2) BY <1>3
    <3> QED BY <3>1
  <2>2. f[i].k = "type" /\ f[i].name = names[j] /\ f[i].value = t[names[j]] BY <1>8, <2>1
  <2> QED BY <1>3, <2>2
<1>11. ASSUME NEW x \in DOMAIN t PROVE \E i \in 3..(n + 2) : f[i].name = x
  <2>1. PICK j \in 1..n : names[j] = x BY <1>3
  <2>2. 2 + j \in 3..(n + 2) BY <1>3
  <2>3. f[2 + j].name = x BY <1>8, <2>1
  <2> QED BY <2>2, <2>3
<1>12. ASSUME NEW i \in (n + 4)..(n + m + 3)
       PROVE  f[i].k = "rule" /\ f[i].key \in DOMAIN d /\ f[i].data = d[f[i].key]
  <2>1. PICK j \in 1..m : i = e + j
    <3>1. i - e \in 1..m /\ i = e + (i - e) BY <1>3, <1>4, <1>9b
    <3> QED BY <3>1
  <2>2. f[i].k = "rule" /\ f[i].key = rules[j] /\ f[i].data = d[rules[j]] BY <1>9, <2>1
  <2> QED BY <1>4, <2>2
<1>13. ASSUME NEW x \in DOMAIN d PROVE \E i \in (n + 4)..(n + m + 3) : f[i].key = x
  <2>1. PICK j \in 1..m : rules[j] = x BY <1>4
  <2>2. e + j \in (n + 4)..(n + m + 3) BY <1>3, <1>4, <1>9b
  <2>3. f[e + j].key = x BY <1>9, <2>1
  <2> QED BY <2>2, <2>3
<1>14. {f[i].name : i \in 3..(n + 2)} = DOMAIN t BY <1>10, <1>11
<1>15. {f[i].key : i \in (n + 4)..(n + m + 3)} = DOMAIN d BY <1>12, <1>13
<1>16. {f[i].value : i \in 3..(n + 2)} = {t[x] : x \in DOMAIN t}
  <2>1. \A i \in 3..(n + 2) : f[i].value \in {t[x] : x \in DOMAIN t} BY <1>10
  <2>2. ASSUME NEW x \in DOMAIN t PROVE \E i \in 3..(n + 2) : f[i].value = t[x]
    <3>1. PICK i \in 3..(n + 2) : f[i].name = x BY <1>11
    <3>2. f[i].value = t[x] BY <1>10, <3>1
    <3> QED BY <3>2
  <2> QED BY <2>1, <2>2
<1>16a. m # 0 <=> DOMAIN d # {} BY <1>2, <1>6a, FS_EmptySet
<1>17. IsImage(f) <=> DOMAIN d # {}
  <2>1. /\ (2 + 1)..(2 + n) = 3..(n + 2) /\ (n + 3 + 1)..(n + 3 + m) = (n + 4)..(n + m + 3)
        /\ (n + 2 + 1)..(n + 2 + 1) = {n + 3}
        /\ (0 + 1)..(0 + 1) = {1} /\ (1 + 1)..(1 + 1) = {2}
    BY <1>3, <1>4
  <2>0. Len(f) \in Nat /\ 2 <= Len(f) /\ 2 + n <= Len(f) /\ n + 2 + 1 <= Len(f)
        /\ n + 3 + m <= Len(f) /\ n + m + 3 + a <= Len(f) /\ 0 + 1 <= Len(f) /\ 1 + 1 <= Len(f)
    BY <1>2, <1>3, <1>4, <1>9b
  <2>2. AllOf(f, 0, 1, "head") /\ AllOf(f, 1, 1, "types") BY <1>7, <2>0, <2>1 DEF AllOf
  <2>3. AllOf(f, 2, n, "type") BY <1>10, <2>0, <2>1 DEF AllOf
  <2>4. AllOf(f, n + 2, 1, "avtab") BY <1>7, <2>0, <2>1 DEF AllOf
  <2>5. AllOf(f, n + 3, m, "rule") BY <1>12, <2>0, <2>1 DEF AllOf
  <2>6. AllOf(f, n + m + 3, a, "attr")
    <3>2. ASSUME NEW i \in (n + m + 3 + 1)..(n + m + 3 + a) PROVE f[i].k = "attr"
      <4>1. PICK j \in 1..a : i = g + j
        <5>1. i - g \in 1..a /\ i = g + (i - g) BY <1>2, <1>3, <1>4, <1>9b
        <5> QED BY <5>1
      <4> QED BY <1>9a, <4>1
    <3> QED BY <2>0, <3>2 DEF AllOf
  <2>7. \A i \in 3..(n + 2) : f[i].value \in 1..a BY <1>10, PolicyParts DEF t, a
  <2>8. /\ Cardinality({f[i].name : i \in (2 + 1)..(2 + n)}) = n
        /\ Cardinality({f[i].value : i \in (2 + 1)..(2 + n)}) = n
    BY <1>6, <1>6a, <1>14, <1>16, <2>1
  <2>9. Cardinality({f[i].key : i \in (n + 3 + 1)..(n + 3 + m)}) = m BY <1>6a, <1>15, <2>1
  <2>10. n = f[2].nel /\ m = f[n + 3].nel /\ a = f[2].nprim BY <1>7
  <2>11. ImageOf(f, n, m, a) <=> m # 0
    BY <2>2, <2>3, <2>4, <2>5, <2>6, <2>7, <2>8, <2>9, Zenon DEF ImageOf
  <2> QED BY <1>16a, <2>10, <2>11, IsImageParts
<1>18. policydb_read(f) = pol
  <2> DEFINE At(x) == CHOOSE c \in {f[i] : i \in 3..(n + 2)} : c.name = x
             Rule(x) == CHOOSE c \in {f[i] : i \in (n + 4)..(n + m + 3)} : c.key = x
  <2>1. policydb_read(f) =
          [types |-> [x \in {f[i].name : i \in 3..(n + 2)} |-> At(x).value], nprim |-> a,
           av |-> [x \in {f[i].key : i \in (n + 4)..(n + m + 3)} |-> Rule(x).data],
           permissive |-> pol.permissive, roles |-> pol.roles,
           attrs |-> [i \in 1..a |-> f[n + m + 3 + i].types]]
    <3>1. n = f[2].nel /\ m = f[n + 3].nel /\ a = f[2].nprim BY <1>7
    <3>2. policydb_read(f) = ReadOf(f, n, m, a) BY <3>1, IsImageParts
    <3> QED BY <1>7, <3>2, Zenon DEF ReadOf
  <2>2. ASSUME NEW x \in DOMAIN t PROVE At(x).value = t[x]
    <3>1. \E c \in {f[i] : i \in 3..(n + 2)} : c.name = x BY <1>11
    <3>2. At(x) \in {f[i] : i \in 3..(n + 2)} /\ At(x).name = x BY <3>1
    <3> QED BY <1>10, <3>2
  <2>3. ASSUME NEW x \in DOMAIN d PROVE Rule(x).data = d[x]
    <3>1. \E c \in {f[i] : i \in (n + 4)..(n + m + 3)} : c.key = x BY <1>13
    <3>2. Rule(x) \in {f[i] : i \in (n + 4)..(n + m + 3)} /\ Rule(x).key = x BY <3>1
    <3> QED BY <1>12, <3>2
  <2>4. [x \in {f[i].name : i \in 3..(n + 2)} |-> At(x).value] = t
    <3> HIDE DEF At
    <3>1. [x \in DOMAIN t |-> At(x).value] = [x \in DOMAIN t |-> t[x]] BY <2>2
    <3> QED BY <1>5, <1>14, <3>1
  <2>5. [x \in {f[i].key : i \in (n + 4)..(n + m + 3)} |-> Rule(x).data] = d
    <3> HIDE DEF Rule
    <3>1. [x \in DOMAIN d |-> Rule(x).data] = [x \in DOMAIN d |-> d[x]] BY <2>3
    <3> QED BY <1>5, <1>15, <3>1
  <2>6. [i \in 1..a |-> f[n + m + 3 + i].types] = pol.attrs
    <3> DEFINE at == pol.attrs
    <3>1. at \in [1..a -> SUBSET Value] BY PolicyParts, LenProperties DEF a
    <3>2. \A i \in 1..a : f[n + m + 3 + i].types = at[i] BY <1>9a, <1>9b
    <3> HIDE DEF at
    <3> QED BY <3>1, <3>2 DEF at
  <2> QED BY <2>1, <2>4, <2>5, <2>6, PolicyIs DEF t, d, a
<1> QED BY <1>17, <1>18 DEF d

(* Whatever file passes for an image reads as a policy.                    *)
LEMMA ReadsPolicy ==
  ASSUME NEW f \in Seq(Record), IsImage(f) PROVE policydb_read(f) \in Policy
<1> DEFINE n == f[2].nel
           m == f[n + 3].nel
           a == f[2].nprim
           I == 3..(n + 2)
           J == (n + 4)..(n + m + 3)
           At(x) == CHOOSE c \in {f[i] : i \in I} : c.name = x
           Rule(x) == CHOOSE c \in {f[i] : i \in J} : c.key = x
           N == {f[i].name : i \in I}
           K == {f[i].key : i \in J}
           t == [x \in N |-> At(x).value]
           d == [x \in K |-> Rule(x).data]
           s == [i \in 1..a |-> f[n + m + 3 + i].types]
<1>1. ImageOf(f, n, m, a) /\ policydb_read(f) = ReadOf(f, n, m, a) BY IsImageParts
<1>2. /\ AllOf(f, 0, 1, "head") /\ AllOf(f, 1, 1, "types") /\ AllOf(f, 2, n, "type")
      /\ AllOf(f, n + 2, 1, "avtab") /\ AllOf(f, n + 3, m, "rule")
      /\ AllOf(f, n + m + 3, a, "attr")
      /\ \A i \in I : f[i].value \in 1..a
  BY <1>1 DEF ImageOf
<1>3. Cardinality({f[i].value : i \in (2 + 1)..(2 + n)}) = n BY <1>1 DEF ImageOf
<1>4. policydb_read(f) = [types |-> t, nprim |-> a, av |-> d, permissive |-> f[1].permissive,
                          roles |-> f[1].roles, attrs |-> s]
  BY <1>1, Zenon DEF ReadOf
<1>5. Len(f) \in Nat /\ \A i \in 1..Len(f) : f[i] \in Record BY LenProperties, ElementOfSeq
<1>6. f[1].permissive \in SUBSET Value /\ f[1].roles \in SUBSET Value
  <2>1. 1 \in 1..Len(f) /\ f[1].k = "head" BY <1>2, <1>5 DEF AllOf
  <2> QED BY <1>5, <2>1, RecordFields
<1>7. a \in Value /\ n \in Nat
  <2>1. 2 \in 1..Len(f) /\ f[2].k = "types" BY <1>2, <1>5 DEF AllOf
  <2> QED BY <1>5, <2>1, RecordFields
<1> HIDE DEF a, n
<1>8. m \in Nat
  <2>1. n + 2 + 1 = n + 3 BY <1>7
  <2>2. n + 3 <= Len(f) /\ f[n + 3].k = "avtab" BY <1>2, <1>7, <2>1 DEF AllOf
  <2>3. n + 3 \in 1..Len(f) BY <1>5, <1>7, <2>2
  <2> QED BY <1>5, <2>2, <2>3, RecordFields
<1> HIDE DEF m
<1>9. a \in Nat /\ a # 0 BY <1>7 DEF Value
<1>10. ASSUME NEW i \in I PROVE f[i].name \in Name /\ f[i].value \in 1..a
  <2>1. i \in (2 + 1)..(2 + n) BY <1>7
  <2>2. 2 + n <= Len(f) /\ f[i].k = "type" BY <1>2, <2>1 DEF AllOf
  <2>3. i \in 1..Len(f) BY <1>5, <1>7, <2>1, <2>2
  <2> QED BY <1>2, <1>5, <2>2, <2>3, RecordFields
<1>11. ASSUME NEW i \in J PROVE f[i].key \in Key /\ f[i].data \in SUBSET Bits
  <2>1. i \in (n + 3 + 1)..(n + 3 + m) BY <1>7, <1>8
  <2>2. n + 3 + m <= Len(f) /\ f[i].k = "rule" BY <1>2, <2>1 DEF AllOf
  <2>3. i \in 1..Len(f) BY <1>5, <1>7, <1>8, <2>1, <2>2
  <2> QED BY <1>5, <2>2, <2>3, RecordFields
<1>12. ASSUME NEW i \in 1..a PROVE f[n + m + 3 + i].types \in SUBSET Value
  <2> DEFINE j == n + m + 3 + i
  <2>1. j \in (n + m + 3 + 1)..(n + m + 3 + a) BY <1>7, <1>8, <1>9
  <2>2. n + m + 3 + a <= Len(f) /\ f[j].k = "attr" BY <1>2, <2>1 DEF AllOf
  <2>3. j \in 1..Len(f) BY <1>5, <1>7, <1>8, <1>9, <2>1, <2>2
  <2> HIDE DEF j
  <2>4. f[j].types \in SUBSET Value BY <1>5, <2>2, <2>3, RecordFields
  <2> QED BY <2>4 DEF j
<1>13. ASSUME NEW x \in N PROVE \E i \in I : At(x) = f[i] /\ f[i].name = x
  <2>1. \E c \in {f[i] : i \in I} : c.name = x OBVIOUS
  <2>2. At(x) \in {f[i] : i \in I} /\ At(x).name = x BY <2>1
  <2> QED BY <2>2
<1>14. ASSUME NEW x \in K PROVE \E i \in J : Rule(x) = f[i] /\ f[i].key = x
  <2>1. \E c \in {f[i] : i \in J} : c.key = x OBVIOUS
  <2>2. Rule(x) \in {f[i] : i \in J} /\ Rule(x).key = x BY <2>1
  <2> QED BY <2>2
<1>15. IsFiniteSet(I) /\ Cardinality(I) = n /\ IsFiniteSet(J)
  <2>1. 3 \in Int /\ n + 2 \in Int /\ n + 4 \in Int /\ n + m + 3 \in Int BY <1>7, <1>8
  <2>2. IsFiniteSet(I) /\ Cardinality(I) = IF 3 > n + 2 THEN 0 ELSE (n + 2) - 3 + 1
    BY <2>1, FS_Interval
  <2>3. IsFiniteSet(J) BY <2>1, FS_Interval
  <2>4. (IF 3 > n + 2 THEN 0 ELSE (n + 2) - 3 + 1) = n BY <1>7
  <2> QED BY <2>2, <2>3, <2>4
<1> HIDE DEF At, Rule
<1>16. IsFiniteSet(N) /\ IsFiniteSet(K)
  <2> DEFINE g == [i \in I |-> f[i].name]
             h == [i \in J |-> f[i].key]
  <2> HIDE DEF I, J
  <2>1. g \in Surjection(I, N) BY DEF Surjection
  <2>2. h \in Surjection(J, K) BY DEF Surjection
  <2> HIDE DEF g, h, N, K
  <2> QED BY <1>15, <2>1, <2>2, FS_Surjection
<1>17. ASSUME NEW i \in I, NEW j \in I, f[i].value = f[j].value PROVE i = j
  <2> DEFINE g == [x \in I |-> f[x].value]
             V == {f[x].value : x \in I}
  <2>1. I = (2 + 1)..(2 + n) BY <1>7
  <2>2. Cardinality(V) = Cardinality(I) BY <1>3, <1>15, <2>1
  <2> HIDE DEF I
  <2>3. g \in Surjection(I, V) BY DEF Surjection
  <2>4. g[i] = g[j] BY <1>17
  <2> HIDE DEF g, V
  <2>5. g \in Injection(I, V) BY <1>15, <2>2, <2>3, FS_SurjSameCardinalityImpliesInj
  <2>6. DOMAIN g = I BY <2>5 DEF Injection
  <2> QED BY <2>4, <2>5, <2>6 DEF Injection, IsInjective
<1>18. ASSUME NEW x \in N PROVE At(x).value \in 1..a /\ x \in Name BY <1>10, <1>13
<1>19. ASSUME NEW x \in N, NEW y \in N, At(x).value = At(y).value PROVE x = y
  BY <1>13, <1>17, <1>19
<1>20. ASSUME NEW x \in K PROVE Rule(x).data \in SUBSET Bits /\ x \in Key BY <1>11, <1>14
<1>21. s \in Seq(SUBSET Value) /\ Len(s) = a
  <2>1. s \in [1..a -> SUBSET Value] BY <1>12
  <2> HIDE DEF s
  <2> QED BY <1>9, <2>1
<1> HIDE DEF N, K, I, J, s
<1>22. /\ DOMAIN t = N /\ \A x \in N : t[x] = At(x).value
       /\ t = [x \in DOMAIN t |-> t[x]]
  OBVIOUS
<1>23. /\ DOMAIN d = K /\ \A x \in K : d[x] = Rule(x).data
       /\ d = [x \in DOMAIN d |-> d[x]]
  OBVIOUS
<1> HIDE DEF t, d
<1>24. t \in Tables(Name, Value)
  <2>1. \A x \in DOMAIN t : t[x] \in Value BY <1>9, <1>18, <1>22 DEF Value
  <2>2. DOMAIN t \subseteq Name BY <1>18, <1>22
  <2> QED BY <1>22, <2>1, <2>2, TableFrom
<1>25. d \in Tables(Key, SUBSET Bits)
  <2>1. \A x \in DOMAIN d : d[x] \in SUBSET Bits BY <1>20, <1>23
  <2>2. DOMAIN d \subseteq Key BY <1>20, <1>23
  <2> QED BY <1>23, <2>1, <2>2, TableFrom
<1>26. /\ \A x \in DOMAIN t : t[x] \in 1..a
       /\ \A x, y \in DOMAIN t : t[x] = t[y] => x = y
       /\ IsFiniteSet(DOMAIN t) /\ IsFiniteSet(DOMAIN d)
  BY <1>16, <1>18, <1>19, <1>22, <1>23
<1> DEFINE p == f[1].permissive
           r == f[1].roles
<1>27. p \in SUBSET Value /\ r \in SUBSET Value BY <1>6
<1> HIDE DEF p, r
<1>28. [types |-> t, nprim |-> a, av |-> d, permissive |-> p, roles |-> r, attrs |-> s] \in Policy
  <2>1. PolicyOf(t, a, d, p, r, s) BY <1>7, <1>21, <1>24, <1>25, <1>26, <1>27 DEF PolicyOf
  <2> QED BY <2>1, PolicyFrom
<1> QED BY <1>4, <1>28 DEF p, r

-----------------------------------------------------------------------------
(* The statements.                                                         *)

Inserted(new, table, k, datum) ==
  /\ new = [x \in DOMAIN new |-> new[x]] /\ DOMAIN new = DOMAIN table \union {k}
  /\ new[k] = datum /\ \A x \in DOMAIN table : x # k => new[x] = table[x]

LEMMA InsertIs ==
  ASSUME NEW table, NEW k, NEW datum
  PROVE  Inserted(Insert(table, k, datum), table, k, datum)
BY DEF Insert, Inserted

LEMMA InsertTable ==
  ASSUME NEW K, NEW V, NEW table \in Tables(K, V), NEW k \in K, NEW datum \in V
  PROVE  Insert(table, k, datum) \in Tables(K, V)
<1> DEFINE new == Insert(table, k, datum)
<1>1. /\ new = [x \in DOMAIN new |-> new[x]] /\ DOMAIN new = DOMAIN table \union {k}
      /\ new[k] = datum /\ \A x \in DOMAIN table : x # k => new[x] = table[x]
  <2>1. Inserted(new, table, k, datum) BY InsertIs
  <2> HIDE DEF new
  <2> QED BY <2>1 DEF Inserted
<1>2. DOMAIN table \subseteq K /\ \A x \in DOMAIN table : table[x] \in V BY TableParts
<1> HIDE DEF new
<1>3. DOMAIN new \subseteq K /\ \A x \in DOMAIN new : new[x] \in V BY <1>1, <1>2
<1>4. new \in Tables(K, V) BY <1>1, <1>3, TableFrom
<1> QED BY <1>4 DEF new

(* Types keep their values; one name may be new.                           *)
Grown(old, new, domain) ==
  /\ \A n \in DOMAIN old.types : n \in DOMAIN new.types /\ new.types[n] = old.types[n]
  /\ DOMAIN new.types \subseteq DOMAIN old.types \union {domain}

LEMMA CreateIs ==
  ASSUME NEW pol \in Policy, NEW domain \in Name,
         NEW new, new = bxxt_sepol_create_domain(pol, domain)
  PROVE  /\ new \in Policy /\ Grown(pol, new, domain) /\ domain \in DOMAIN new.types
         /\ new.permissive = pol.permissive /\ new.av = pol.av
         /\ Sound(pol) => Sound(new)
<1>1. CASE domain \in DOMAIN pol.types
  <2>1. new = pol BY <1>1 DEF bxxt_sepol_create_domain
  <2> QED BY <1>1, <2>1 DEF Grown
<1>2. CASE domain \notin DOMAIN pol.types
  <2> DEFINE v == pol.nprim + 1
             t == Insert(pol.types, domain, v)
             r == pol.roles \union {v}
             s == Append(pol.attrs, {v})
             a == pol.av
             p == pol.permissive
             n == pol.nprim
  <2>1. new = [types |-> t, nprim |-> v, av |-> a, permissive |-> p, roles |-> r, attrs |-> s]
    <3>1. new = [symtab_insert(pol, domain) EXCEPT !.attrs = Append(@, {v}), !.roles = @ \union {v}]
      BY <1>2 DEF bxxt_sepol_create_domain
    <3>2. symtab_insert(pol, domain) =
            [types |-> t, nprim |-> v, av |-> a, permissive |-> p, roles |-> pol.roles,
             attrs |-> pol.attrs]
      <4>1. symtab_insert(pol, domain) = [pol EXCEPT !.nprim = v, !.types = t]
        BY DEF symtab_insert
      <4> HIDE DEF v, t
      <4> QED BY <4>1, PolicyIs
    <3> DEFINE mid == symtab_insert(pol, domain)
    <3>3. mid.attrs = pol.attrs /\ mid.roles = pol.roles BY <3>2
    <3>4. new = [mid EXCEPT !.attrs = s, !.roles = r] BY <3>1, <3>3
    <3> HIDE DEF v, t, a, p, s, r, mid
    <3>5. mid = [types |-> t, nprim |-> v, av |-> a, permissive |-> p, roles |-> pol.roles,
                 attrs |-> pol.attrs]
      BY <3>2 DEF mid
    <3> QED BY <3>4, <3>5
  <2>2. v \in Value /\ v \in Nat /\ n \in Nat /\ n # 0 /\ v = n + 1 BY PolicyParts DEF Value
  <2>3. /\ t = [x \in DOMAIN t |-> t[x]] /\ DOMAIN t = DOMAIN pol.types \union {domain}
        /\ t[domain] = v /\ \A x \in DOMAIN pol.types : x # domain => t[x] = pol.types[x]
    <3>1. Inserted(t, pol.types, domain, v) BY InsertIs
    <3> HIDE DEF t, v
    <3> QED BY <3>1 DEF Inserted
  <2>4. t \in Tables(Name, Value) BY <2>2, PolicyParts, InsertTable
  <2>5. IsFiniteSet(DOMAIN t) /\ IsFiniteSet(DOMAIN a) 
    <3> HIDE DEF t, v
    <3>1. IsFiniteSet(DOMAIN pol.types) /\ IsFiniteSet(DOMAIN pol.av) BY PolicyParts
    <3>2. IsFiniteSet(DOMAIN pol.types \union {domain}) BY <3>1, FS_AddElement
    <3> QED BY <2>3, <3>1, <3>2
  <2>6. s \in Seq(SUBSET Value) /\ Len(s) = v /\ s[v] = {v} /\ \A i \in 1..n : s[i] = pol.attrs[i]
    <3> DEFINE e == {v}
               b == pol.attrs
    <3>1. e \in SUBSET Value BY <2>2
    <3>2. b \in Seq(SUBSET Value) /\ Len(b) = n BY PolicyParts
    <3> HIDE DEF e, b
    <3>3. /\ Append(b, e) \in Seq(SUBSET Value) /\ Len(Append(b, e)) = Len(b) + 1
          /\ \A i \in 1..Len(b) : Append(b, e)[i] = b[i] /\ Append(b, e)[Len(b) + 1] = e
      BY <3>1, <3>2, AppendProperties
    <3>4. s = Append(b, e) BY DEF b, e
    <3>5. n \in 1..n BY <2>2
    <3> HIDE DEF s, v, n
    <3>6. s[v] = e BY <2>2, <3>2, <3>3, <3>4, <3>5
    <3> QED BY <2>2, <3>2, <3>3, <3>4, <3>6 DEF b, e
  <2>7. r \in SUBSET Value /\ p \in SUBSET Value /\ a \in Tables(Key, SUBSET Bits)
    BY <2>2, PolicyParts
  <2>8. \A x \in DOMAIN pol.types : pol.types[x] \in 1..n /\ x # domain BY <1>2, PolicyParts
  <2>8a. \A x, y \in DOMAIN pol.types : pol.types[x] = pol.types[y] => x = y BY PolicyParts
  <2>9. Sound(pol) =>
          /\ \A w \in 1..n : \E x \in DOMAIN pol.types : pol.types[x] = w
          /\ p \subseteq 1..n
          /\ \A w \in 1..n : w \in pol.attrs[w] /\ w \in pol.roles
          /\ \A k \in DOMAIN a : k[1] \in 1..n /\ k[2] \in 1..n
    BY DEF Sound
  <2>10. 1..v = 1..n \union {v} /\ v \notin 1..n BY <2>2
  <2> DEFINE ot == pol.types
  <2> HIDE DEF v, t, r, s, a, p, n, ot
  <2>11. \A x \in DOMAIN t : t[x] \in 1..v BY <2>3, <2>8, <2>10 DEF ot
  <2>12. \A x, y \in DOMAIN t : t[x] = t[y] => x = y BY <2>3, <2>8, <2>8a, <2>10 DEF ot
  <2>13. new \in Policy
    <3>1. PolicyOf(t, v, a, p, r, s) BY <2>2, <2>4, <2>5, <2>6, <2>7, <2>11, <2>12 DEF PolicyOf
    <3> QED BY <2>1, <3>1, PolicyFrom
  <2>14. /\ new.types = t /\ new.nprim = v /\ new.av = a /\ new.permissive = p /\ new.roles = r
         /\ new.attrs = s
    BY <2>1
  <2>15. Grown(pol, new, domain) /\ domain \in DOMAIN new.types
    BY <2>3, <2>8, <2>14 DEF Grown
  <2>16. ASSUME Sound(pol) PROVE Sound(new)
    <3>1. \A w \in 1..v : \E x \in DOMAIN t : t[x] = w
      <4>1. ASSUME NEW w \in 1..n PROVE \E x \in DOMAIN t : t[x] = w
        <5>1. PICK x \in DOMAIN pol.types : pol.types[x] = w BY <2>9, <2>16
        <5>2. x \in DOMAIN t /\ t[x] = w BY <2>3, <2>8, <5>1
        <5> QED BY <5>2
      <4>2. domain \in DOMAIN t /\ t[domain] = v BY <2>3
      <4> QED BY <2>10, <4>1, <4>2
    <3>2. p \subseteq 1..v BY <2>9, <2>10, <2>16
    <3>3. \A k \in DOMAIN a : k[1] \in 1..v /\ k[2] \in 1..v BY <2>9, <2>10, <2>16
    <3>4. ASSUME NEW w \in 1..v PROVE w \in s[w] /\ w \in r
      <4>1. CASE w \in 1..n BY <2>6, <2>9, <2>16, <4>1 DEF r
      <4>2. CASE w = v BY <2>6, <4>2 DEF r
      <4> QED BY <2>10, <4>1, <4>2
    <3> QED BY <2>14, <3>1, <3>2, <3>3, <3>4 DEF Sound
  <2> QED BY <2>13, <2>14, <2>15, <2>16 DEF a, p
<1> QED BY <1>1, <1>2

(* bxxt_sepol_set_permissive, with the bit map it leaves as p.             *)
PermissiveStep(pol, domain, mid, p, new) ==
  /\ mid = bxxt_sepol_create_domain(pol, domain)
  /\ \/ p = mid.permissive \union {mid.types[domain]}
     \/ p = mid.permissive \ {mid.types[domain]}
  /\ new = [mid EXCEPT !.permissive = p]

PermissiveDone(pol, domain, mid, p, new) ==
  /\ new \in Policy /\ Grown(pol, new, domain) /\ domain \in DOMAIN new.types
  /\ mid.permissive = pol.permissive /\ new.types = mid.types
  /\ new.permissive = p /\ new.av = pol.av
  /\ Sound(pol) => Sound(new)

LEMMA PermissiveIs ==
  ASSUME NEW pol \in Policy, NEW domain \in Name, NEW mid, NEW p, NEW new,
         PermissiveStep(pol, domain, mid, p, new)
  PROVE  PermissiveDone(pol, domain, mid, p, new)
<1> DEFINE bit == mid.types[domain]
<1>1. /\ mid \in Policy /\ Grown(pol, mid, domain) /\ domain \in DOMAIN mid.types
      /\ mid.permissive = pol.permissive /\ mid.av = pol.av
      /\ Sound(pol) => Sound(mid)
  <2>1. mid = bxxt_sepol_create_domain(pol, domain) BY DEF PermissiveStep
  <2> QED BY <2>1, CreateIs
<1>2. new = [mid EXCEPT !.permissive = p] BY DEF PermissiveStep
<1>2a. p = mid.permissive \union {bit} \/ p = mid.permissive \ {bit} BY DEF PermissiveStep
<1>3. bit \in 1..mid.nprim /\ bit \in Value
  <2>1. mid.types \in Tables(Name, Value) BY <1>1, PolicyParts
  <2> QED BY <1>1, <2>1, PolicyParts, TableParts
<1>4. p \in SUBSET Value BY <1>1, <1>2a, <1>3, PolicyParts
<1> DEFINE t == mid.types
           n == mid.nprim
           a == mid.av
           r == mid.roles
           s == mid.attrs
<1>5. mid = [types |-> t, nprim |-> n, av |-> a, permissive |-> mid.permissive, roles |-> r,
             attrs |-> s]
  BY <1>1, PolicyIs
<1>6. new = [types |-> t, nprim |-> n, av |-> a, permissive |-> p, roles |-> r, attrs |-> s]
  <2> HIDE DEF t, n, a, r, s
  <2> QED BY <1>2, <1>5
<1>7. /\ t \in Tables(Name, Value) /\ n \in Value /\ a \in Tables(Key, SUBSET Bits)
      /\ r \in SUBSET Value /\ s \in Seq(SUBSET Value) /\ IsFiniteSet(DOMAIN t)
      /\ IsFiniteSet(DOMAIN a) /\ Len(s) = n
      /\ \A x \in DOMAIN t : t[x] \in 1..n
      /\ \A x, y \in DOMAIN t : t[x] = t[y] => x = y
  BY <1>1, PolicyParts
<1>8. new \in Policy
  <2> HIDE DEF t, n, a, r, s
  <2>1. PolicyOf(t, n, a, p, r, s) BY <1>4, <1>7 DEF PolicyOf
  <2> QED BY <1>6, <2>1, PolicyFrom
<1>9. /\ new.types = t /\ new.nprim = n /\ new.av = a /\ new.permissive = p /\ new.roles = r
      /\ new.attrs = s
  <2> HIDE DEF t, n, a, r, s
  <2> QED BY <1>6
<1>10. Sound(mid) => p \subseteq 1..n BY <1>2a, <1>3 DEF Sound
<1>11. Sound(mid) => Sound(new) BY <1>9, <1>10 DEF Sound
<1>12. Grown(pol, new, domain) BY <1>1, <1>9 DEF Grown
<1> QED BY <1>1, <1>8, <1>9, <1>11, <1>12 DEF PermissiveDone

LEMMA MaskBits ==
  ASSUME NEW cls \in Class, NEW perm, perm = "*" \/ HasPerm(cls, perm)
  PROVE  PermMask(cls, perm) \subseteq Bits
BY StatementAssumption DEF HasPerm, PermMask

(* One rule was edited; a rule that was new had any content before.        *)
Ruled(old, new, k, mask, disallow) ==
  /\ new.types = old.types /\ new.permissive = old.permissive
  /\ \E data \in SUBSET Bits :
       /\ k \in DOMAIN old.av => data = old.av[k]
       /\ Inserted(new.av, old.av, k, NewData(data, mask, disallow))

AllowDone(pol, src, tgt, cls, perm, disallow, res) ==
  \/ res.r = BXXT_FAILED /\ res.pol = pol
  \/ /\ res.r = BXXT_SUCCESS /\ res.pol \in Policy
     /\ cls \in Class /\ {src, tgt} \subseteq DOMAIN pol.types
     /\ PermMask(cls, perm) \subseteq Bits
     /\ Ruled(pol, res.pol, <<pol.types[src], pol.types[tgt], cls>>, PermMask(cls, perm), disallow)
     /\ Sound(pol) => Sound(res.pol)

LEMMA AllowIs ==
  ASSUME NEW pol \in Policy, NEW src, NEW tgt, NEW cls, NEW perm, NEW disallow \in BOOLEAN,
         NEW res \in bxxt_sepol_allow_ext(pol, src, tgt, cls, perm, disallow)
  PROVE  AllowDone(pol, src, tgt, cls, perm, disallow, res)
<1> DEFINE ok == /\ cls \in Class /\ {src, tgt} \subseteq DOMAIN pol.types
                 /\ perm = "*" \/ HasPerm(cls, perm)
           k == <<pol.types[src], pol.types[tgt], cls>>
           mask == PermMask(cls, perm)
           olds == IF k \in DOMAIN pol.av THEN {pol.av[k]} ELSE SUBSET Bits
<1>1. CASE ~ok
  <2>1. res = Result(pol, BXXT_FAILED) BY <1>1 DEF bxxt_sepol_allow_ext
  <2> QED BY <2>1 DEF Result, AllowDone
<1>2. CASE ok
  <2>1. PICK old \in olds :
          res = Result([pol EXCEPT !.av = Insert(@, k, NewData(old, mask, disallow))], BXXT_SUCCESS)
    BY <1>2 DEF bxxt_sepol_allow_ext
  <2> DEFINE data == NewData(old, mask, disallow)
             a == Insert(pol.av, k, data)
             new == [pol EXCEPT !.av = a]
  <2>2. res.r = BXXT_SUCCESS /\ res.pol = new BY <2>1 DEF Result
  <2>3. mask \subseteq Bits BY <1>2, MaskBits
  <2>4. old \in SUBSET Bits /\ (k \in DOMAIN pol.av => old = pol.av[k])
    <3>1. CASE k \in DOMAIN pol.av BY <3>1, PolicyParts
    <3>2. CASE k \notin DOMAIN pol.av BY <3>2
    <3> QED BY <3>1, <3>2
  <2> HIDE DEF mask
  <2>5. data \in SUBSET Bits BY <2>3, <2>4 DEF NewData
  <2> HIDE DEF data
  <2>6. /\ pol.types[src] \in 1..pol.nprim /\ pol.types[tgt] \in 1..pol.nprim
        /\ pol.types[src] \in Value /\ pol.types[tgt] \in Value
    <3>1. pol.types \in Tables(Name, Value) BY PolicyParts
    <3>2. src \in DOMAIN pol.types /\ tgt \in DOMAIN pol.types BY <1>2
    <3>3. pol.types[src] \in Value /\ pol.types[tgt] \in Value BY <3>1, <3>2, TableParts
    <3> QED BY <3>2, <3>3, PolicyParts
  <2>7. k \in Key BY <1>2, <2>6 DEF Key
  <2>8. Inserted(a, pol.av, k, data) BY InsertIs
  <2>9. a \in Tables(Key, SUBSET Bits) BY <2>5, <2>7, PolicyParts, InsertTable
  <2>10. k[1] = pol.types[src] /\ k[2] = pol.types[tgt] OBVIOUS
  <2> HIDE DEF k, a
  <2>11. DOMAIN a = DOMAIN pol.av \union {k} BY <2>8 DEF Inserted
  <2>12. IsFiniteSet(DOMAIN a) BY <2>11, PolicyParts, FS_AddElement
  <2> DEFINE t == pol.types
             n == pol.nprim
             p == pol.permissive
             r == pol.roles
             s == pol.attrs
  <2>13. new = [types |-> t, nprim |-> n, av |-> a, permissive |-> p, roles |-> r, attrs |-> s]
    <3>1. pol = [types |-> t, nprim |-> n, av |-> pol.av, permissive |-> p, roles |-> r, attrs |-> s]
      BY PolicyIs
    <3> HIDE DEF t, n, p, r, s
    <3> QED BY <3>1
  <2>14. PolicyOf(t, n, a, p, r, s) BY <2>9, <2>12, PolicyParts DEF PolicyOf
  <2> HIDE DEF t, n, p, r, s
  <2>15. new \in Policy BY <2>13, <2>14, PolicyFrom
  <2>16. /\ new.types = t /\ new.nprim = n /\ new.av = a /\ new.permissive = p /\ new.roles = r
         /\ new.attrs = s
    BY <2>13
  <2> HIDE DEF new
  <2>17. Ruled(pol, new, k, mask, disallow)
    BY <2>4, <2>8, <2>16 DEF Ruled, data, t, p
  <2>18. ASSUME Sound(pol) PROVE Sound(new)
    <3>1. \A e \in DOMAIN a : e[1] \in 1..n /\ e[2] \in 1..n
      BY <2>6, <2>10, <2>11, <2>18 DEF Sound, n
    <3> QED BY <2>16, <2>18, <3>1 DEF Sound, t, n, p, r, s
  <2> QED BY <1>2, <2>2, <2>3, <2>15, <2>17, <2>18 DEF k, mask, AllowDone
<1> QED BY <1>1, <1>2

-----------------------------------------------------------------------------
(* What statements ask for.                                                *)

Access == Name \X Name \X Class \X Bits
Wants ==
  [granted : SUBSET Access, denied : SUBSET Access, permissive : SUBSET Name,
   enforced : SUBSET Name, exist : SUBSET Name]

(* An access is denied by a rule, not by the lack of one: the next allow   *)
(* on it starts from what the rule holds.                                  *)
Denies(pol, a) ==
  /\ {a[1], a[2]} \subseteq DOMAIN pol.types
  /\ LET k == <<pol.types[a[1]], pol.types[a[2]], a[3]>>
     IN  k \in DOMAIN pol.av /\ a[4] \notin pol.av[k]

Effects(pol, want) ==
  /\ \A a \in want.granted : Allows(pol, a)
  /\ \A a \in want.denied : Denies(pol, a)
  /\ want.exist \subseteq DOMAIN pol.types
  /\ want.permissive \subseteq want.exist /\ want.enforced \subseteq want.exist
  /\ \A n \in want.permissive : pol.types[n] \in pol.permissive
  /\ \A n \in want.enforced : pol.types[n] \notin pol.permissive

(* What a statement does to a policy.                                      *)
Edited(pol, stmt, res) ==
  /\ res.pol \in Policy /\ res.r \in Int
  /\ Sound(pol) => Sound(res.pol)
  /\ res.r # BXXT_SUCCESS => res.pol = pol
  /\ OnlyNamedChanged(pol, res.pol, stmt)
  /\ \A w \in Wants :
       res.r = BXXT_SUCCESS =>
         /\ Wanted(w, stmt) \in Wants
         /\ Effects(pol, w) => Effects(res.pol, Wanted(w, stmt))

(* A statement that creates a domain or edits the permissive map leaves    *)
(* what was asked about others.                                            *)
LEMMA GrownKeeps ==
  ASSUME NEW old \in Policy, NEW new \in Policy, NEW domain, Grown(old, new, domain),
         new.av = old.av, NEW w \in Wants, Effects(old, w)
  PROVE  /\ \A a \in w.granted : Allows(new, a)
         /\ \A a \in w.denied : Denies(new, a)
         /\ w.exist \subseteq DOMAIN new.types
         /\ \A n \in w.exist : new.types[n] = old.types[n]
<1>1. ASSUME NEW n \in DOMAIN old.types PROVE n \in DOMAIN new.types /\ new.types[n] = old.types[n]
  BY DEF Grown
<1>2. ASSUME NEW a \in w.granted PROVE Allows(new, a)
  <2>1. Allows(old, a) BY DEF Effects
  <2> QED BY <1>1, <2>1 DEF Allows
<1>3. ASSUME NEW a \in w.denied PROVE Denies(new, a)
  <2>1. Denies(old, a) BY DEF Effects
  <2> QED BY <1>1, <2>1 DEF Denies
<1>4. w.exist \subseteq DOMAIN old.types BY DEF Effects
<1> QED BY <1>1, <1>2, <1>3, <1>4

LEMMA WantsParts ==
  ASSUME NEW w \in Wants
  PROVE  /\ w.granted \subseteq Access /\ w.denied \subseteq Access /\ w.permissive \subseteq Name
         /\ w.enforced \subseteq Name /\ w.exist \subseteq Name
         /\ w = [granted |-> w.granted, denied |-> w.denied, permissive |-> w.permissive,
                 enforced |-> w.enforced, exist |-> w.exist]
BY DEF Wants

LEMMA WantsFrom ==
  ASSUME NEW g \in SUBSET Access, NEW d \in SUBSET Access, NEW p \in SUBSET Name,
         NEW e \in SUBSET Name, NEW x \in SUBSET Name
  PROVE  [granted |-> g, denied |-> d, permissive |-> p, enforced |-> e, exist |-> x] \in Wants
BY DEF Wants

(* permissive and enforce.                                                 *)
LEMMA PermissiveEdits ==
  ASSUME NEW pol \in Policy, NEW stmt, Cut[stmt.src] \in Name,
         stmt.op = "permissive" \/ stmt.op = "enforce",
         NEW res, res = Result(bxxt_sepol_set_permissive(pol, Cut[stmt.src], stmt.op = "permissive"),
                               BXXT_SUCCESS)
  PROVE  Edited(pol, stmt, res)
<1> DEFINE n == Cut[stmt.src]
           on == stmt.op = "permissive"
           new == bxxt_sepol_set_permissive(pol, n, on)
<1>1. res.pol = new /\ res.r = BXXT_SUCCESS /\ res.r \in Int BY DEF Result, BXXT_SUCCESS
<1>2. on \in BOOLEAN OBVIOUS
<1>3. /\ new \in Policy /\ Grown(pol, new, n) /\ n \in DOMAIN new.types
      /\ new.permissive = IF on THEN pol.permissive \union {new.types[n]}
                          ELSE pol.permissive \ {new.types[n]}
      /\ new.av = pol.av
      /\ Sound(pol) => Sound(new)
  <2> DEFINE mid == bxxt_sepol_create_domain(pol, n)
             bit == mid.types[n]
             p == IF on THEN mid.permissive \union {bit} ELSE mid.permissive \ {bit}
  <2>1. n \in Name OBVIOUS
  <2>2. new = [mid EXCEPT !.permissive = p] BY DEF bxxt_sepol_set_permissive
  <2>3. p = mid.permissive \union {bit} \/ p = mid.permissive \ {bit} OBVIOUS
  <2> HIDE DEF n, new, p, mid
  <2>4. PermissiveStep(pol, n, mid, p, new) BY <2>2, <2>3 DEF PermissiveStep, mid
  <2>5. PermissiveDone(pol, n, mid, p, new) BY <2>1, <2>4, PermissiveIs
  <2> QED BY <2>5 DEF PermissiveDone, p
<1> HIDE DEF new
<1>4. OnlyNamedChanged(pol, new, stmt)
  <2>1. \A v \in Differ(pol.permissive, new.permissive) : v = new.types[n] BY <1>3 DEF Differ
  <2>2. /\ \A x \in DOMAIN pol.types : x \in DOMAIN new.types /\ new.types[x] = pol.types[x]
        /\ DOMAIN new.types \ DOMAIN pol.types \subseteq {n}
    BY <1>3 DEF Grown
  <2> QED BY <1>3, <2>1, <2>2 DEF OnlyNamedChanged
<1>5. ASSUME NEW w \in Wants
      PROVE  /\ Wanted(w, stmt) \in Wants
             /\ Effects(pol, w) => Effects(new, Wanted(w, stmt))
  <2> DEFINE p == IF on THEN w.permissive \union {n} ELSE w.permissive \ {n}
             e == IF on THEN w.enforced \ {n} ELSE w.enforced \union {n}
             x == w.exist \union {n}
             u == Wanted(w, stmt)
  <2>1. u = [granted |-> w.granted, denied |-> w.denied, permissive |-> p, enforced |-> e, exist |-> x]
    <3>1. CASE stmt.op = "permissive"
      <4>1. u = [w EXCEPT !.permissive = w.permissive \union {n}, !.enforced = w.enforced \ {n},
                          !.exist = x]
        BY <3>1 DEF Wanted
      <4>2. u = [w EXCEPT !.permissive = p, !.enforced = e, !.exist = x] BY <3>1, <4>1
      <4>3. w = [granted |-> w.granted, denied |-> w.denied, permissive |-> w.permissive,
                 enforced |-> w.enforced, exist |-> w.exist]
        BY WantsParts
      <4> HIDE DEF p, e, x, u
      <4> QED BY <4>2, <4>3
    <3>2. CASE stmt.op = "enforce"
      <4>1. u = [w EXCEPT !.enforced = w.enforced \union {n}, !.permissive = w.permissive \ {n},
                          !.exist = x]
        BY <3>2 DEF Wanted
      <4>2. u = [w EXCEPT !.enforced = e, !.permissive = p, !.exist = x] BY <3>2, <4>1
      <4>3. w = [granted |-> w.granted, denied |-> w.denied, permissive |-> w.permissive,
                 enforced |-> w.enforced, exist |-> w.exist]
        BY WantsParts
      <4> HIDE DEF p, e, x, u
      <4> QED BY <4>2, <4>3
    <3> QED BY <3>1, <3>2
  <2>2. p \subseteq Name /\ e \subseteq Name /\ x \subseteq Name BY WantsParts
  <2> HIDE DEF p, e, x, u
  <2>3. u \in Wants BY <2>1, <2>2, WantsParts, WantsFrom
  <2>4. u.granted = w.granted /\ u.denied = w.denied /\ u.permissive = p /\ u.enforced = e /\ u.exist = x
    BY <2>1
  <2>5. ASSUME Effects(pol, w) PROVE Effects(new, u)
    <3>1. /\ \A a \in w.granted : Allows(new, a)
          /\ \A a \in w.denied : Denies(new, a)
          /\ w.exist \subseteq DOMAIN new.types
          /\ \A y \in w.exist : new.types[y] = pol.types[y]
      BY <1>3, <2>5, GrownKeeps
    <3>2. /\ w.permissive \subseteq w.exist /\ w.enforced \subseteq w.exist
          /\ \A y \in w.permissive : pol.types[y] \in pol.permissive
          /\ \A y \in w.enforced : pol.types[y] \notin pol.permissive
      BY <2>5 DEF Effects
    <3>3. \A y \in DOMAIN new.types : new.types[y] = new.types[n] => y = n
      BY <1>3, PolicyParts
    <3>4. x \subseteq DOMAIN new.types /\ p \subseteq x /\ e \subseteq x
      BY <1>3, <3>1, <3>2 DEF p, e, x
    <3>5. ASSUME NEW y \in p PROVE new.types[y] \in new.permissive
      <4>1. CASE y = n /\ on BY <1>3, <4>1
      <4>2. CASE y # n /\ y \in w.permissive
        <5>1. new.types[y] \in pol.permissive /\ new.types[y] # new.types[n]
          BY <3>1, <3>2, <3>3, <4>2
        <5> QED BY <1>3, <5>1
      <4>3. CASE y = n /\ ~on BY <4>3 DEF p
      <4> QED BY <4>1, <4>2, <4>3 DEF p
    <3>6. ASSUME NEW y \in e PROVE new.types[y] \notin new.permissive
      <4>1. CASE y = n /\ ~on BY <1>3, <4>1
      <4>2. CASE y # n /\ y \in w.enforced
        <5>1. new.types[y] \notin pol.permissive /\ new.types[y] # new.types[n]
          BY <3>1, <3>2, <3>3, <4>2
        <5> QED BY <1>3, <5>1
      <4>3. CASE y = n /\ on BY <4>3 DEF e
      <4> QED BY <4>1, <4>2, <4>3 DEF e
    <3> QED BY <2>4, <3>1, <3>4, <3>5, <3>6 DEF Effects
  <2> QED BY <2>3, <2>5 DEF u
<1> QED BY <1>1, <1>3, <1>4, <1>5 DEF Edited

(* create.                                                                 *)
LEMMA CreateEdits ==
  ASSUME NEW pol \in Policy, NEW stmt, Cut[stmt.src] \in Name, stmt.op = "create",
         NEW res, res = Result(bxxt_sepol_create_domain(pol, Cut[stmt.src]), BXXT_SUCCESS)
  PROVE  Edited(pol, stmt, res)
<1> DEFINE n == Cut[stmt.src]
           new == bxxt_sepol_create_domain(pol, n)
<1>1. res.pol = new /\ res.r = BXXT_SUCCESS /\ res.r \in Int BY DEF Result, BXXT_SUCCESS
<1>3. /\ new \in Policy /\ Grown(pol, new, n) /\ n \in DOMAIN new.types
      /\ new.permissive = pol.permissive /\ new.av = pol.av
      /\ Sound(pol) => Sound(new)
  BY CreateIs
<1> HIDE DEF new
<1>4. OnlyNamedChanged(pol, new, stmt)
  <2>1. Differ(pol.permissive, new.permissive) = {} BY <1>3 DEF Differ
  <2>2. /\ \A x \in DOMAIN pol.types : x \in DOMAIN new.types /\ new.types[x] = pol.types[x]
        /\ DOMAIN new.types \ DOMAIN pol.types \subseteq {n}
    BY <1>3 DEF Grown
  <2> QED BY <1>3, <2>1, <2>2 DEF OnlyNamedChanged
<1>5. ASSUME NEW w \in Wants
      PROVE  /\ Wanted(w, stmt) \in Wants
             /\ Effects(pol, w) => Effects(new, Wanted(w, stmt))
  <2> DEFINE x == w.exist \union {n}
             u == Wanted(w, stmt)
  <2>1. u = [granted |-> w.granted, denied |-> w.denied, permissive |-> w.permissive,
             enforced |-> w.enforced, exist |-> x]
    <3>1. u = [w EXCEPT !.exist = x] BY DEF Wanted
    <3> QED BY <3>1, WantsParts
  <2>2. x \subseteq Name BY WantsParts
  <2> HIDE DEF x, u
  <2>3. u \in Wants BY <2>1, <2>2, WantsParts, WantsFrom
  <2>4. /\ u.granted = w.granted /\ u.denied = w.denied /\ u.permissive = w.permissive
        /\ u.enforced = w.enforced /\ u.exist = x
    BY <2>1
  <2>5. ASSUME Effects(pol, w) PROVE Effects(new, u)
    <3>1. /\ \A a \in w.granted : Allows(new, a)
          /\ \A a \in w.denied : Denies(new, a)
          /\ w.exist \subseteq DOMAIN new.types
          /\ \A y \in w.exist : new.types[y] = pol.types[y]
      BY <1>3, <2>5, GrownKeeps
    <3>2. /\ w.permissive \subseteq w.exist /\ w.enforced \subseteq w.exist
          /\ \A y \in w.permissive : pol.types[y] \in pol.permissive
          /\ \A y \in w.enforced : pol.types[y] \notin pol.permissive
      BY <2>5 DEF Effects
    <3>3. x \subseteq DOMAIN new.types /\ w.permissive \subseteq x /\ w.enforced \subseteq x
      BY <1>3, <3>1, <3>2 DEF x
    <3> QED BY <1>3, <2>4, <3>1, <3>2, <3>3 DEF Effects
  <2> QED BY <2>3, <2>5 DEF u
<1> QED BY <1>1, <1>3, <1>4, <1>5 DEF Edited

(* allow and disallow.                                                     *)
KeyOf(pol, a) == <<pol.types[a[1]], pol.types[a[2]], a[3]>>
AccessOf(src, tgt, cls, mask) == {<<src, tgt, cls, bit>> : bit \in mask}

(* What becomes of one access when the rule of src, tgt and cls is edited. *)
AccessAfter(pol, new, a, asked, disallow) ==
  /\ Allows(pol, a) /\ (a \in asked => ~disallow) => Allows(new, a)
  /\ Denies(pol, a) /\ (a \in asked => disallow) => Denies(new, a)
  /\ a \in asked /\ ~disallow => Allows(new, a)
  /\ a \in asked /\ disallow => Denies(new, a)

LEMMA RuledAccess ==
  ASSUME NEW pol \in Policy, NEW new, NEW src, NEW tgt, NEW cls, NEW mask, NEW disallow \in BOOLEAN,
         src \in DOMAIN pol.types, tgt \in DOMAIN pol.types,
         Ruled(pol, new, <<pol.types[src], pol.types[tgt], cls>>, mask, disallow), NEW a \in Access
  PROVE  AccessAfter(pol, new, a, AccessOf(src, tgt, cls, mask), disallow)
<1> DEFINE k == <<pol.types[src], pol.types[tgt], cls>>
           j == KeyOf(pol, a)
           asked == AccessOf(src, tgt, cls, mask)
<1>1. new.types = pol.types BY DEF Ruled
<1>2. PICK data \in SUBSET Bits :
        /\ k \in DOMAIN pol.av => data = pol.av[k]
        /\ Inserted(new.av, pol.av, k, NewData(data, mask, disallow))
  BY DEF Ruled
<1>3. /\ DOMAIN new.av = DOMAIN pol.av \union {k}
      /\ new.av[k] = NewData(data, mask, disallow)
      /\ \A x \in DOMAIN pol.av : x # k => new.av[x] = pol.av[x]
  BY <1>2 DEF Inserted
<1>4. a = <<a[1], a[2], a[3], a[4]>> BY DEF Access
<1>5. a \in asked <=> (a[1] = src /\ a[2] = tgt /\ a[3] = cls /\ a[4] \in mask)
  BY <1>4 DEF AccessOf
<1>6. a \in asked => j = k /\ {a[1], a[2]} \subseteq DOMAIN pol.types BY <1>5 DEF KeyOf
<1>7. {a[1], a[2]} \subseteq DOMAIN pol.types /\ j = k => a[1] = src /\ a[2] = tgt /\ a[3] = cls
  BY PolicyParts DEF KeyOf
<1>8. /\ Allows(pol, a) <=>
           {a[1], a[2]} \subseteq DOMAIN pol.types /\ j \in DOMAIN pol.av /\ a[4] \in pol.av[j]
      /\ Denies(pol, a) <=>
           {a[1], a[2]} \subseteq DOMAIN pol.types /\ j \in DOMAIN pol.av /\ a[4] \notin pol.av[j]
  BY DEF Allows, Denies, KeyOf
<1>9. /\ Allows(new, a) <=>
           {a[1], a[2]} \subseteq DOMAIN pol.types /\ j \in DOMAIN new.av /\ a[4] \in new.av[j]
      /\ Denies(new, a) <=>
           {a[1], a[2]} \subseteq DOMAIN pol.types /\ j \in DOMAIN new.av /\ a[4] \notin new.av[j]
  BY <1>1 DEF Allows, Denies, KeyOf
<1> HIDE DEF k, j, asked
<1>10. CASE disallow
  <2>1. new.av[k] = data \ mask BY <1>3, <1>10 DEF NewData
  <2> QED BY <1>2, <1>3, <1>5, <1>6, <1>7, <1>8, <1>9, <1>10, <2>1 DEF AccessAfter, asked
<1>11. CASE ~disallow
  <2>1. new.av[k] = data \union mask BY <1>3, <1>11 DEF NewData
  <2> QED BY <1>2, <1>3, <1>5, <1>6, <1>7, <1>8, <1>9, <1>11, <2>1 DEF AccessAfter, asked
<1> QED BY <1>10, <1>11

LEMMA FailedEdits ==
  ASSUME NEW pol \in Policy, NEW stmt, NEW res, res.pol = pol, res.r \in Int,
         res.r # BXXT_SUCCESS
  PROVE  Edited(pol, stmt, res)
BY DEF Edited, OnlyNamedChanged, Differ

LEMMA RuledChanges ==
  ASSUME NEW pol \in Policy, NEW new, NEW stmt, stmt.op = "allow" \/ stmt.op = "disallow",
         NEW disallow \in BOOLEAN,
         Ruled(pol, new, <<pol.types[stmt.src], pol.types[stmt.tgt], stmt.cls>>,
               PermMask(stmt.cls, CutPerm[stmt.perm]), disallow)
  PROVE  OnlyNamedChanged(pol, new, stmt)
<1> DEFINE k == <<pol.types[stmt.src], pol.types[stmt.tgt], stmt.cls>>
           mask == PermMask(stmt.cls, CutPerm[stmt.perm])
<1>1. new.types = pol.types /\ new.permissive = pol.permissive BY DEF Ruled
<1>2. PICK data \in SUBSET Bits :
        /\ k \in DOMAIN pol.av => data = pol.av[k]
        /\ Inserted(new.av, pol.av, k, NewData(data, mask, disallow))
  BY DEF Ruled
<1>3. /\ DOMAIN new.av = DOMAIN pol.av \union {k}
      /\ new.av[k] = NewData(data, mask, disallow)
      /\ \A x \in DOMAIN pol.av : x # k => new.av[x] = pol.av[x]
  BY <1>2 DEF Inserted
<1>4. Differ(data, new.av[k]) \subseteq mask
  <2>1. CASE disallow
    <3>1. new.av[k] = data \ mask BY <1>3, <2>1 DEF NewData
    <3> QED BY <3>1 DEF Differ
  <2>2. CASE ~disallow
    <3>1. new.av[k] = data \union mask BY <1>3, <2>2 DEF NewData
    <3> QED BY <3>1 DEF Differ
  <2> QED BY <2>1, <2>2
<1>5. \A v \in Differ(pol.permissive, new.permissive) : v = new.types[Cut[stmt.src]]
  BY <1>1 DEF Differ
<1>6. k = <<new.types[stmt.src], new.types[stmt.tgt], stmt.cls>> BY <1>1
<1> HIDE DEF k
<1>7. ASSUME NEW x \in DOMAIN new.av, x \notin DOMAIN pol.av \/ new.av[x] # pol.av[x]
      PROVE  /\ stmt.op \in {"allow", "disallow"}
             /\ x = <<new.types[stmt.src], new.types[stmt.tgt], stmt.cls>>
             /\ x \in DOMAIN pol.av => Differ(pol.av[x], new.av[x]) \subseteq mask
  <2>1. x = k BY <1>3, <1>7
  <2> QED BY <1>2, <1>4, <1>6, <2>1
<1> QED BY <1>1, <1>3, <1>5, <1>7 DEF OnlyNamedChanged

LEMMA AllowEdits ==
  ASSUME NEW pol \in Policy, NEW stmt, stmt.op = "allow" \/ stmt.op = "disallow",
         NEW res \in bxxt_sepol_allow_ext(pol, stmt.src, stmt.tgt, stmt.cls, CutPerm[stmt.perm],
                                          stmt.op = "disallow")
  PROVE  Edited(pol, stmt, res)
<1> DEFINE src == stmt.src
           tgt == stmt.tgt
           cls == stmt.cls
           perm == CutPerm[stmt.perm]
           mask == PermMask(cls, perm)
           k == <<pol.types[src], pol.types[tgt], cls>>
           asked == AccessOf(src, tgt, cls, mask)
<1>1. PICK off \in BOOLEAN : /\ off <=> stmt.op = "disallow"
                             /\ res \in bxxt_sepol_allow_ext(pol, src, tgt, cls, perm, off)
  OBVIOUS
<1>2. AllowDone(pol, src, tgt, cls, perm, off, res) BY <1>1, AllowIs
<1>3. CASE res.r = BXXT_FAILED /\ res.pol = pol
  BY <1>3, FailedEdits DEF BXXT_FAILED, BXXT_SUCCESS
<1>4. CASE ~(res.r = BXXT_FAILED /\ res.pol = pol)
  <2>1. /\ res.r = BXXT_SUCCESS /\ res.pol \in Policy
        /\ cls \in Class /\ src \in DOMAIN pol.types /\ tgt \in DOMAIN pol.types
        /\ mask \subseteq Bits /\ Ruled(pol, res.pol, k, mask, off)
        /\ Sound(pol) => Sound(res.pol)
    BY <1>2, <1>4 DEF AllowDone
  <2> DEFINE new == res.pol
  <2>2. OnlyNamedChanged(pol, new, stmt) BY <2>1, RuledChanges
  <2>3. \A a \in Access : AccessAfter(pol, new, a, asked, off) BY <2>1, RuledAccess
  <2>4. asked \subseteq Access
    <3>1. src \in Name /\ tgt \in Name
      <4>1. pol.types \in Tables(Name, Value) BY PolicyParts
      <4> QED BY <2>1, <4>1, TableParts
    <3> HIDE DEF src, tgt, cls, mask
    <3> QED BY <2>1, <3>1 DEF AccessOf, Access
  <2>5. new.types = pol.types /\ new.permissive = pol.permissive BY <2>1 DEF Ruled
  <2>6. ASSUME NEW w \in Wants
        PROVE  /\ Wanted(w, stmt) \in Wants
               /\ Effects(pol, w) => Effects(new, Wanted(w, stmt))
    <3> DEFINE g == IF off THEN w.granted \ asked ELSE w.granted \union asked
               d == IF off THEN w.denied \union asked ELSE w.denied \ asked
               u == Wanted(w, stmt)
    <3>1. u = [granted |-> g, denied |-> d, permissive |-> w.permissive, enforced |-> w.enforced,
               exist |-> w.exist]
      <4>1. asked = {<<stmt.src, stmt.tgt, stmt.cls, bit>> :
                       bit \in IF stmt.cls \in Class THEN PermMask(stmt.cls, CutPerm[stmt.perm]) ELSE {}}
        BY <2>1 DEF AccessOf
      <4>2. CASE stmt.op = "allow"
        <5>1. g = w.granted \union asked /\ d = w.denied \ asked BY <1>1, <4>2
        <5>2. u = [w EXCEPT !.granted = w.granted \union asked, !.denied = w.denied \ asked]
          BY <4>1, <4>2, Zenon DEF Wanted
        <5>3. u = [w EXCEPT !.granted = g, !.denied = d] BY <5>1, <5>2
        <5>4. w = [granted |-> w.granted, denied |-> w.denied, permissive |-> w.permissive,
                   enforced |-> w.enforced, exist |-> w.exist]
          BY WantsParts
        <5> HIDE DEF g, d, u
        <5> QED BY <5>3, <5>4
      <4>3. CASE stmt.op = "disallow"
        <5>1. g = w.granted \ asked /\ d = w.denied \union asked BY <1>1, <4>3
        <5>2. u = [w EXCEPT !.denied = w.denied \union asked, !.granted = w.granted \ asked]
          BY <4>1, <4>3, Zenon DEF Wanted
        <5>3. u = [w EXCEPT !.denied = d, !.granted = g] BY <5>1, <5>2
        <5>4. w = [granted |-> w.granted, denied |-> w.denied, permissive |-> w.permissive,
                   enforced |-> w.enforced, exist |-> w.exist]
          BY WantsParts
        <5> HIDE DEF g, d, u
        <5> QED BY <5>3, <5>4
      <4> QED BY <4>2, <4>3
    <3>2. g \subseteq Access /\ d \subseteq Access BY <2>4, WantsParts
    <3> HIDE DEF u, asked
    <3>3. \A a \in g : (a \in w.granted /\ (a \in asked => ~off)) \/ (a \in asked /\ ~off)
      OBVIOUS
    <3>4. \A a \in d : (a \in w.denied /\ (a \in asked => off)) \/ (a \in asked /\ off)
      OBVIOUS
    <3> HIDE DEF g, d
    <3>5. u \in Wants BY <3>1, <3>2, WantsParts, WantsFrom
    <3>6. /\ u.granted = g /\ u.denied = d /\ u.permissive = w.permissive
          /\ u.enforced = w.enforced /\ u.exist = w.exist
      BY <3>1
    <3>7. ASSUME Effects(pol, w) PROVE Effects(new, u)
      <4>1. \A a \in g : Allows(new, a) BY <2>3, <3>2, <3>3, <3>7 DEF Effects, AccessAfter
      <4>2. \A a \in d : Denies(new, a) BY <2>3, <3>2, <3>4, <3>7 DEF Effects, AccessAfter
      <4> QED BY <2>5, <3>6, <3>7, <4>1, <4>2 DEF Effects
    <3> QED BY <3>5, <3>7 DEF u
  <2>7. res.r \in Int BY <2>1 DEF BXXT_SUCCESS
  <2> QED BY <2>1, <2>2, <2>6, <2>7 DEF Edited
<1> QED BY <1>3, <1>4

LEMMA ExecuteIs ==
  ASSUME NEW pol \in Policy, NEW stmt, stmt.src \in Name,
         NEW res \in bxxt_sepol_execute_stmt(pol, stmt)
  PROVE  Edited(pol, stmt, res)
<1>1. CASE ~Scans(stmt)
  <2>1. res = Result(pol, -1) BY <1>1 DEF bxxt_sepol_execute_stmt
  <2> QED BY <2>1, FailedEdits DEF Result, BXXT_SUCCESS
<1>2. CASE Scans(stmt) /\ (stmt.op = "allow" \/ stmt.op = "disallow")
  <2>1. res \in bxxt_sepol_allow_ext(pol, stmt.src, stmt.tgt, stmt.cls, CutPerm[stmt.perm],
                                     stmt.op = "disallow")
    BY <1>2 DEF bxxt_sepol_execute_stmt
  <2> QED BY <1>2, <2>1, AllowEdits
<1>3. CASE Scans(stmt) /\ stmt.op = "create"
  <2>1. res = Result(bxxt_sepol_create_domain(pol, Cut[stmt.src]), BXXT_SUCCESS)
    BY <1>3 DEF bxxt_sepol_execute_stmt
  <2>2. Cut[stmt.src] \in Name BY <1>3, StatementAssumption DEF Scans
  <2> QED BY <1>3, <2>1, <2>2, CreateEdits
<1>4. CASE Scans(stmt) /\ (stmt.op = "permissive" \/ stmt.op = "enforce")
  <2>1. res = Result(bxxt_sepol_set_permissive(pol, Cut[stmt.src], stmt.op = "permissive"),
                     BXXT_SUCCESS)
    BY <1>4 DEF bxxt_sepol_execute_stmt
  <2>2. Cut[stmt.src] \in Name BY <1>4, StatementAssumption DEF Scans
  <2> QED BY <1>4, <2>1, <2>2, PermissiveEdits
<1>5. Scans(stmt) => stmt.op \in {"allow", "disallow", "permissive", "enforce", "create"}
  BY DEF Scans
<1> QED BY <1>1, <1>2, <1>3, <1>4, <1>5

-----------------------------------------------------------------------------
(* The invariant of the commands.                                          *)

Busy ==
  [pc : {"load", "parse", "exec", "save", "reload", "exit"}, cmd : Command,
   pdb : [st : PdbState, pol : Policy \union {NoPolicy}], r : Int,
   base : Policy \union {NoPolicy}]

Hist ==
  [want : Wants, raced : BOOLEAN, torn : BOOLEAN, clean : BOOLEAN,
   saved : Policy \union {NoPolicy}]

Used == [runs : 0..MaxRuns, faults : 0..MaxFaults]

TypeInv ==
  /\ kernel \in Policy /\ file \in Seq(Record)
  /\ proc \in [Proc -> {Idle} \union Busy]
  /\ seen \in [Proc -> SUBSET Seq(Record)]
  /\ used \in Used
  /\ hist \in Hist

(* A loaded policy is the one that was read, until the statement has       *)
(* edited it; from then on it is what the statement makes of that one.     *)
Held(q) ==
  q.pc # "idle" /\ q.pdb.st = "loaded" =>
    /\ q.pdb.pol \in Policy /\ q.base \in Policy /\ q.pc \notin {"load", "parse"}
    /\ q.pc = "exec" => q.pdb.pol = q.base
    /\ q.pc # "exec" => \E res \in bxxt_sepol_execute_stmt(q.base, q.cmd.stmt) :
                           q.pdb.pol = res.pol /\ q.r = res.r

Kept(q) == q.pc # "idle" /\ q.pdb.st = "loaded" => Sound(q.pdb.pol)

HeldInv == \A p \in Proc : Held(proc[p])

(* Besides what is in memory, what a process would load from the file.     *)
SoundInv ==
  ~hist.torn =>
    /\ Sound(kernel)
    /\ IsImage(file) => Sound(policydb_read(file))
    /\ \A p \in Proc : Kept(proc[p])

(* ... and each content that a mapping has held.                           *)
SeenInv ==
  ~hist.torn => \A p \in Proc : \A f \in seen[p] : IsImage(f) => Sound(policydb_read(f))

EffectInv == ~hist.raced => Effects(kernel, hist.want)

Inv == TypeInv /\ HeldInv /\ SoundInv /\ SeenInv /\ FileLoadsBack /\ EffectInv

LEMMA BusyFrom ==
  ASSUME NEW pc \in {"load", "parse", "exec", "save", "reload", "exit"}, NEW cmd \in Command,
         NEW st \in PdbState, NEW pol \in Policy \union {NoPolicy}, NEW r \in Int,
         NEW base \in Policy \union {NoPolicy}
  PROVE  [pc |-> pc, cmd |-> cmd, pdb |-> [st |-> st, pol |-> pol], r |-> r, base |-> base] \in Busy
BY DEF Busy

LEMMA BusyParts ==
  ASSUME NEW q \in Busy
  PROVE  /\ q.pc \in {"load", "parse", "exec", "save", "reload", "exit"} /\ q.cmd \in Command
         /\ q.pdb.st \in PdbState /\ q.pdb.pol \in Policy \union {NoPolicy} /\ q.r \in Int
         /\ q.base \in Policy \union {NoPolicy}
         /\ q.pdb = [st |-> q.pdb.st, pol |-> q.pdb.pol]
         /\ q = [pc |-> q.pc, cmd |-> q.cmd, pdb |-> q.pdb, r |-> q.r, base |-> q.base]
BY DEF Busy

LEMMA ProcIs ==
  ASSUME TypeInv, NEW p \in Proc, proc[p].pc # "idle" PROVE proc[p] \in Busy
BY DEF TypeInv, Idle

LEMMA HistParts ==
  ASSUME NEW h \in Hist
  PROVE  /\ h.want \in Wants /\ h.raced \in BOOLEAN /\ h.torn \in BOOLEAN /\ h.clean \in BOOLEAN
         /\ h.saved \in Policy \union {NoPolicy}
         /\ h = [want |-> h.want, raced |-> h.raced, torn |-> h.torn, clean |-> h.clean,
                 saved |-> h.saved]
BY DEF Hist

LEMMA HistFrom ==
  ASSUME NEW want \in Wants, NEW raced \in BOOLEAN, NEW torn \in BOOLEAN, NEW clean \in BOOLEAN,
         NEW saved \in Policy \union {NoPolicy}
  PROVE  [want |-> want, raced |-> raced, torn |-> torn, clean |-> clean, saved |-> saved] \in Hist
BY DEF Hist

LEMMA NoWantIs == NoWant \in Wants /\ \A pol : Effects(pol, NoWant)
<1>1. NoWant \in Wants BY DEF NoWant, Wants
<1>2. ASSUME NEW pol PROVE Effects(pol, NoWant) BY DEF Effects, NoWant
<1> QED BY <1>1, <1>2

LEMMA InitInv == Init => Inv
<1> SUFFICES ASSUME Init PROVE Inv OBVIOUS
<1>1. /\ kernel \in Policies /\ file \in Files /\ proc = [p \in Proc |-> Idle]
      /\ seen = [p \in Proc |-> {}] /\ used = [runs |-> 0, faults |-> 0] /\ hist = NoHist
  BY DEF Init
<1>2. kernel \in Policy /\ Sound(kernel) BY <1>1, DeviceAssumption, ConsistentIsSound
<1>3. file \in Seq(Record) /\ (IsImage(file) => Consistent(policydb_read(file)))
  BY <1>1, DeviceAssumption
<1>4. IsImage(file) => Sound(policydb_read(file))
  <2>1. SUFFICES ASSUME IsImage(file) PROVE Sound(policydb_read(file)) OBVIOUS
  <2>2. policydb_read(file) \in Policy BY <1>3, <2>1, ReadsPolicy
  <2>3. IsPolicy(policydb_read(file)) BY <2>2, PolicyIsPolicy
  <2> QED BY <1>3, <2>1, <2>3, ConsistentIsSound
<1>5. hist \in Hist /\ ~hist.clean /\ ~hist.torn /\ ~hist.raced /\ hist.want = NoWant
  BY <1>1, NoWantIs DEF NoHist, Hist
<1>6. used \in Used
  <2>1. MaxRuns \in Nat /\ MaxFaults \in Nat BY StatementAssumption
  <2>2. 0 \in 0..MaxRuns /\ 0 \in 0..MaxFaults BY <2>1
  <2> QED BY <1>1, <2>2 DEF Used
<1>7. TypeInv BY <1>1, <1>2, <1>3, <1>5, <1>6 DEF TypeInv
<1>8. \A p \in Proc : proc[p].pc = "idle" BY <1>1 DEF Idle
<1>9. HeldInv BY <1>8 DEF HeldInv, Held
<1>10. SoundInv BY <1>2, <1>4, <1>8 DEF SoundInv, Kept
<1>11. EffectInv BY <1>5, NoWantIs DEF EffectInv
<1>12. SeenInv BY <1>1 DEF SeenInv
<1> QED BY <1>5, <1>7, <1>9, <1>10, <1>11, <1>12 DEF Inv, FileLoadsBack

LEMMA FaultIs ==
  ASSUME TypeInv, Fault PROVE used' \in Used
<1>1. MaxFaults \in Nat BY StatementAssumption
<1>2. used.faults \in 0..MaxFaults /\ used.faults < MaxFaults BY DEF TypeInv, Used, Fault
<1>3. used.faults + 1 \in 0..MaxFaults BY <1>1, <1>2
<1> QED BY <1>3 DEF TypeInv, Used, Fault

(* One process goes on, from proc[p] to new.                               *)
LEMMA MoveProc ==
  ASSUME TypeInv, HeldInv, NEW p \in Proc, NEW new \in {Idle} \union Busy, Held(new),
         proc' = [proc EXCEPT ![p] = new]
  PROVE  /\ proc' \in [Proc -> {Idle} \union Busy] /\ HeldInv'
         /\ proc'[p] = new /\ \A q \in Proc : q # p => proc'[q] = proc[q]
<1>1. proc \in [Proc -> {Idle} \union Busy] BY DEF TypeInv
<1>2. proc'[p] = new /\ \A q \in Proc : q # p => proc'[q] = proc[q] BY <1>1
<1>3. proc' \in [Proc -> {Idle} \union Busy]
  <2> DEFINE B == {Idle} \union Busy
  <2>1. new \in B /\ proc \in [Proc -> B] BY <1>1
  <2> HIDE DEF B
  <2>2. proc' \in [Proc -> B] BY <2>1
  <2> QED BY <2>2 DEF B
<1>4. ASSUME NEW q \in Proc PROVE Held(proc'[q])
  <2>1. CASE q = p BY <1>2, <2>1
  <2>2. CASE q # p
    <3>1. Held(proc[q]) BY DEF HeldInv
    <3> QED BY <1>2, <2>2, <3>1
  <2> QED BY <2>1, <2>2
<1>5. HeldInv' BY <1>4 DEF HeldInv, Held
<1> QED BY <1>2, <1>3, <1>5

LEMMA WriteAlone ==
  ASSUME NEW pol \in Policy
  PROVE  /\ policydb_write(pol) \in Seq(Record)
         /\ IsImage(policydb_write(pol)) <=> DOMAIN pol.av # {}
         /\ policydb_read(policydb_write(pol)) = pol
<1>1. << >> \in Seq(Record) OBVIOUS
<1>2. policydb_write(pol) \in Seq(Record) BY <1>1, WriteIs
<1>3. policydb_write(pol) = policydb_write(pol) \o << >> BY <1>2, ConcatEmptySeq
<1> QED BY <1>1, <1>2, <1>3, WriteReads

(* Mappings only come to hold what is in the file or in the kernel.        *)
SeenStep ==
  /\ seen' \in [Proc -> SUBSET Seq(Record)]
  /\ \A x \in Proc : \A f \in seen'[x] : f \in seen[x] \/ f = file' \/ f = policydb_write(kernel)

LEMMA SeenKeeps ==
  ASSUME Inv, SeenStep, hist.torn => hist'.torn,
         ~hist'.torn => (IsImage(file') => Sound(policydb_read(file')))
  PROVE  SeenInv'
<1>1. ASSUME ~hist'.torn, NEW x \in Proc, NEW f \in seen'[x], IsImage(f)
      PROVE  Sound(policydb_read(f))
  <2>1. ~hist.torn BY <1>1
  <2>2. CASE f \in seen[x] BY <1>1, <2>1, <2>2 DEF Inv, SeenInv
  <2>3. CASE f = file' BY <1>1, <2>3
  <2>4. CASE f = policydb_write(kernel)
    <3>1. kernel \in Policy /\ Sound(kernel) BY <2>1 DEF Inv, TypeInv, SoundInv
    <3> QED BY <2>4, <3>1, WriteAlone
  <2> QED BY <1>1, <2>2, <2>3, <2>4 DEF SeenStep
<1> QED BY <1>1 DEF SeenInv

LEMMA SameSeen ==
  ASSUME TypeInv, UNCHANGED seen PROVE SeenStep
BY DEF TypeInv, SeenStep

LEMMA DropSeen ==
  ASSUME TypeInv, NEW p \in Proc, seen' = [seen EXCEPT ![p] = {}] PROVE SeenStep
<1>1. seen \in [Proc -> SUBSET Seq(Record)] BY DEF TypeInv
<1>2. \A x \in Proc : seen'[x] = IF x = p THEN {} ELSE seen[x] BY <1>1
<1>3. seen' \in [Proc -> SUBSET Seq(Record)] BY <1>1
<1> QED BY <1>2, <1>3 DEF SeenStep

(* The history only notes that a policy was pieced together.               *)
HistStep ==
  /\ hist' \in Hist /\ hist'.want = hist.want /\ hist'.raced = hist.raced
  /\ hist'.clean = hist.clean /\ hist'.saved = hist.saved /\ (hist.torn => hist'.torn)

LEMMA SameHist ==
  ASSUME TypeInv, UNCHANGED hist PROVE HistStep
BY DEF TypeInv, HistStep

(* ... and neither the kernel's policy nor the file changes.               *)
LEMMA MoveKeeps ==
  ASSUME Inv, NEW p \in Proc, NEW new \in {Idle} \union Busy, Held(new), ~hist'.torn => Kept(new),
         proc' = [proc EXCEPT ![p] = new], used' \in Used, UNCHANGED <<kernel, file>>,
         HistStep, SeenStep
  PROVE  Inv'
<1>1. /\ proc' \in [Proc -> {Idle} \union Busy] /\ HeldInv'
      /\ proc'[p] = new /\ \A q \in Proc : q # p => proc'[q] = proc[q]
  BY MoveProc DEF Inv
<1>2. TypeInv' BY <1>1 DEF Inv, TypeInv, HistStep, SeenStep
<1>3. ASSUME ~hist'.torn, NEW q \in Proc PROVE Kept(proc'[q])
  <2>1. CASE q = p BY <1>1, <1>3, <2>1
  <2>2. CASE q # p
    <3>1. Kept(proc[q]) BY <1>3 DEF Inv, SoundInv, HistStep
    <3> QED BY <1>1, <2>2, <3>1
  <2> QED BY <2>1, <2>2
<1>4. ~hist'.torn => Sound(kernel') /\ (IsImage(file') => Sound(policydb_read(file')))
  <2>1. ~hist'.torn => Sound(kernel) /\ (IsImage(file) => Sound(policydb_read(file)))
    BY DEF Inv, SoundInv, HistStep
  <2>2. kernel' = kernel /\ file' = file OBVIOUS
  <2> QED BY <2>1, <2>2
<1>5. SoundInv' BY <1>3, <1>4 DEF SoundInv, Kept
<1>6. SeenInv' BY <1>4, SeenKeeps DEF HistStep
<1>7. FileLoadsBack' BY DEF Inv, FileLoadsBack, HistStep
<1>8. EffectInv' BY DEF Inv, EffectInv, HistStep
<1> QED BY <1>1, <1>2, <1>5, <1>6, <1>7, <1>8 DEF Inv

(* ... and nothing else changes.                                           *)
LEMMA MoveOnly ==
  ASSUME Inv, NEW p \in Proc, NEW new \in {Idle} \union Busy, Held(new), ~hist.torn => Kept(new),
         proc' = [proc EXCEPT ![p] = new], used' \in Used, UNCHANGED <<kernel, file, seen, hist>>
  PROVE  Inv'
<1>1. HistStep /\ SeenStep BY SameHist, SameSeen DEF Inv
<1>2. ~hist'.torn => Kept(new) OBVIOUS
<1> QED BY <1>1, <1>2, MoveKeeps

(* A process that goes to another step and keeps the rest.                 *)
Went(old, new, label) ==
  /\ new \in Busy /\ new.pc = label /\ new.cmd = old.cmd /\ new.pdb = old.pdb
  /\ new.r = old.r /\ new.base = old.base

LEMMA GotoIs ==
  ASSUME TypeInv, NEW p \in Proc, proc[p].pc # "idle",
         NEW label \in {"load", "parse", "exec", "save", "reload", "exit"}, Goto(p, label)
  PROVE  \E new : proc' = [proc EXCEPT ![p] = new] /\ Went(proc[p], new, label)
<1> DEFINE q == proc[p]
           new == [pc |-> label, cmd |-> q.cmd, pdb |-> q.pdb, r |-> q.r, base |-> q.base]
<1>1. q \in Busy BY ProcIs
<1>2. q = [pc |-> q.pc, cmd |-> q.cmd, pdb |-> q.pdb, r |-> q.r, base |-> q.base]
  BY <1>1, BusyParts
<1>3. [q EXCEPT !.pc = label] = new
  <2> DEFINE a == q.pc
             b == q.cmd
             c == q.pdb
             d == q.r
             e == q.base
  <2>1. q = [pc |-> a, cmd |-> b, pdb |-> c, r |-> d, base |-> e] BY <1>2
  <2> HIDE DEF a, b, c, d, e
  <2>2. [q EXCEPT !.pc = label] = [pc |-> label, cmd |-> b, pdb |-> c, r |-> d, base |-> e]
    BY <2>1
  <2> QED BY <2>2 DEF b, c, d, e
<1>4. proc' = [proc EXCEPT ![p] = [proc[p] EXCEPT !.pc = label]] BY DEF Goto
<1>5. proc' = [proc EXCEPT ![p] = new] BY <1>3, <1>4, Zenon
<1>6. new \in Busy BY <1>1, <1>2, BusyParts DEF Busy
<1>7. Went(q, new, label) BY <1>6 DEF Went
<1> QED BY <1>5, <1>7

(* From save on, a step changes neither what is held nor what it is made   *)
(* of.                                                                     *)
LEMMA GotoHeld ==
  ASSUME NEW old \in Busy, Held(old), NEW new, NEW label, Went(old, new, label),
         \/ old.pc \in {"save", "reload"} /\ label \in {"reload", "exit"}
         \/ old.pdb.st # "loaded"
  PROVE  Held(new) /\ (Kept(old) => Kept(new))
<1>1. old.pc # "idle" BY BusyParts
<1>2. CASE old.pdb.st # "loaded" BY <1>2 DEF Went, Held, Kept
<1>3. CASE old.pdb.st = "loaded"
  <2>1. old.pc \notin {"exec", "load", "parse", "idle"} /\ new.pc \notin {"exec", "load", "parse", "idle"}
    BY <1>3 DEF Went
  <2>2. /\ old.pdb.pol \in Policy /\ old.base \in Policy
        /\ \E res \in bxxt_sepol_execute_stmt(old.base, old.cmd.stmt) :
             old.pdb.pol = res.pol /\ old.r = res.r
    BY <1>3, <2>1 DEF Held
  <2>3. new.pdb = old.pdb /\ new.base = old.base /\ new.cmd = old.cmd /\ new.r = old.r BY DEF Went
  <2>4. Held(new) BY <2>1, <2>2, <2>3 DEF Held
  <2> QED BY <1>3, <2>1, <2>3, <2>4 DEF Kept
<1> QED BY <1>2, <1>3

LEMMA IdleHeld == Held(Idle) /\ Kept(Idle)
BY DEF Idle, Held, Kept

-----------------------------------------------------------------------------
(* The actions.                                                            *)

LEMMA StartKeeps ==
  ASSUME Inv, NEW p \in Proc, NEW cmd \in Command, Start(p, cmd) PROVE Inv'
<1> DEFINE new == [pc |-> "load", cmd |-> cmd, pdb |-> NoPdb, r |-> BXXT_SUCCESS, base |-> NoPolicy]
<1>1. new \in Busy
  <2>1. NoPdb \in [st : PdbState, pol : Policy \union {NoPolicy}] BY DEF NoPdb, PdbState
  <2> HIDE DEF new
  <2> QED BY <2>1 DEF new, Busy, BXXT_SUCCESS
<1>2. new.pdb.st = "init" BY DEF NoPdb
<1>3. proc' = [proc EXCEPT ![p] = new] /\ UNCHANGED <<kernel, file, seen, hist>> BY DEF Start
<1>4. used' \in Used
  <2>1. MaxRuns \in Nat BY StatementAssumption
  <2>2. used \in Used BY DEF Inv, TypeInv
  <2>3. used.runs \in 0..MaxRuns /\ used.runs < MaxRuns BY <2>2 DEF Used, Start
  <2>4. used.runs + 1 \in 0..MaxRuns BY <2>1, <2>3
  <2> QED BY <2>2, <2>4 DEF Used, Start
<1> HIDE DEF new
<1>5. Held(new) /\ Kept(new) BY <1>2 DEF Held, Kept
<1> QED BY <1>1, <1>3, <1>4, <1>5, MoveOnly

(* What a process may hold after policydb_from_image.                      *)
LoadedIs(image) ==
  /\ Loaded(image).st \in PdbState /\ Loaded(image).pol \in Policy \union {NoPolicy}
  /\ Loaded(image) = [st |-> Loaded(image).st, pol |-> Loaded(image).pol]
  /\ Loaded(image).st = "loaded" => /\ IsImage(image) /\ Loaded(image).pol \in Policy
                                    /\ Loaded(image).pol = policydb_read(image)

LEMMA LoadGives ==
  ASSUME NEW image \in Seq(Record) PROVE LoadedIs(image)
<1>1. CASE IsImage(image)
  <2>1. policydb_read(image) \in Policy BY <1>1, ReadsPolicy
  <2>2. Loaded(image) = [st |-> "loaded", pol |-> policydb_read(image)] BY <1>1 DEF Loaded
  <2> QED BY <1>1, <2>1, <2>2 DEF LoadedIs, PdbState
<1>2. CASE ~IsImage(image)
  <2>1. Loaded(image) = [st |-> "freed", pol |-> NoPolicy] BY <1>2 DEF Loaded
  <2> QED BY <2>1 DEF LoadedIs, PdbState
<1> QED BY <1>1, <1>2

LEMMA OpenKeeps ==
  ASSUME Inv, NEW p \in Proc, Open(p) PROVE Inv'
<1> DEFINE q == proc[p]
           image == IF q.cmd.input = "kernel" THEN policydb_write(kernel) ELSE file
<1>1. q.pc = "load" /\ UNCHANGED <<kernel, file, hist>> BY DEF Open
<1>2. q \in Busy BY <1>1, ProcIs DEF Inv
<1>3. kernel \in Policy /\ file \in Seq(Record) /\ used \in Used BY DEF Inv, TypeInv
<1>4. /\ image \in Seq(Record) /\ (image = file' \/ image = policydb_write(kernel))
  <2>1. policydb_write(kernel) \in Seq(Record) BY <1>3, WriteAlone
  <2> QED BY <1>1, <1>3, <2>1
<1>5. \/ seen' = [seen EXCEPT ![p] = {image}] /\ Goto(p, "parse") /\ UNCHANGED used
      \/ Fault /\ Goto(p, "exec") /\ UNCHANGED seen
  BY DEF Open
<1> HIDE DEF image
<1>6. q.pdb.st # "loaded" BY <1>1 DEF Inv, HeldInv, Held
<1>7. SeenStep /\ used' \in Used
  <2>1. CASE seen' = [seen EXCEPT ![p] = {image}] /\ UNCHANGED used
    <3>1. seen \in [Proc -> SUBSET Seq(Record)] BY DEF Inv, TypeInv
    <3>2. \A x \in Proc : seen'[x] = IF x = p THEN {image} ELSE seen[x] BY <2>1, <3>1
    <3>3. seen' \in [Proc -> SUBSET Seq(Record)] BY <1>4, <2>1, <3>1
    <3>4. SeenStep BY <1>4, <3>2, <3>3 DEF SeenStep
    <3> QED BY <1>3, <2>1, <3>4
  <2>2. CASE Fault /\ UNCHANGED seen BY <2>2, SameSeen, FaultIs DEF Inv
  <2> QED BY <1>5, <2>1, <2>2
<1>8. PICK label \in {"parse", "exec"} : Goto(p, label) BY <1>5
<1>9. PICK new : proc' = [proc EXCEPT ![p] = new] /\ Went(q, new, label)
  <2>1. label \in {"load", "parse", "exec", "save", "reload", "exit"} BY <1>8
  <2> QED BY <1>1, <1>8, <2>1, GotoIs DEF Inv
<1>10. Held(new) /\ Kept(new) BY <1>6, <1>9 DEF Went, Held, Kept
<1>11. new \in {Idle} \union Busy BY <1>9 DEF Went
<1>12. HistStep BY <1>1, SameHist DEF Inv
<1> QED BY <1>1, <1>7, <1>9, <1>10, <1>11, <1>12, MoveKeeps

(* A view is made of records of the contents.                              *)
LEMMA ViewIs ==
  ASSUME NEW contents \in SUBSET Seq(Record), NEW n \in Sizes(contents), NEW pick \in Picks(contents, n)
  PROVE  View(contents, n, pick) \in Seq(Record)
<1>1. PICK f \in contents : n \in 0..Len(f) BY DEF Sizes
<1>2. \A g \in contents : Len(g) \in Nat /\ \A i \in 1..Len(g) : g[i] \in Record
  BY LenProperties, ElementOfSeq
<1>3. n \in Nat /\ n <= Len(f) BY <1>1, <1>2
<1> DEFINE e(i) == IF i \in DOMAIN pick THEN pick[i][i]
                   ELSE CHOOSE x \in Holds(contents, i) : TRUE
<1>4. ASSUME NEW i \in 1..n PROVE e(i) \in Record
  <2>1. Holds(contents, i) \subseteq Record
    <3>1. ASSUME NEW g \in contents, i <= Len(g) PROVE g[i] \in Record
      <4>1. i \in 1..Len(g) BY <1>2, <1>3, <3>1
      <4> QED BY <1>2, <4>1
    <3> QED BY <3>1 DEF Holds
  <2>2. f[i] \in Holds(contents, i)
    <3>1. i <= Len(f) BY <1>2, <1>3
    <3> QED BY <3>1 DEF Holds
  <2>3. CASE i \in DOMAIN pick
    <3>1. pick[i] \in contents /\ i <= Len(pick[i]) BY <2>3 DEF Picks
    <3>2. i \in 1..Len(pick[i]) BY <1>2, <1>3, <3>1
    <3>3. pick[i][i] \in Record BY <1>2, <3>1, <3>2
    <3> QED BY <2>3, <3>3
  <2>4. CASE i \notin DOMAIN pick
    <3>1. (CHOOSE x \in Holds(contents, i) : TRUE) \in Holds(contents, i) BY <2>2
    <3> QED BY <2>1, <2>4, <3>1
  <2> QED BY <2>3, <2>4
<1>5. View(contents, n, pick) = [i \in 1..n |-> e(i)] BY DEF View
<1> HIDE DEF e
<1>6. [i \in 1..n |-> e(i)] \in Seq(Record) BY <1>3, <1>4, FunctionIsSeq
<1> QED BY <1>5, <1>6

LEMMA LoadKeeps ==
  ASSUME Inv, NEW p \in Proc, Load(p) PROVE Inv'
<1> DEFINE q == proc[p]
           cmd == q.cmd
           Took(n, pick) ==
             LET image == View(seen[p], n, pick)
                 pdb == Loaded(image)
                 pieced == pdb.st = "loaded" /\ image \notin seen[p]
             IN  \/ /\ proc' = [proc EXCEPT ![p].pc = "exec", ![p].pdb = pdb, ![p].base = pdb.pol]
                    /\ hist' = [hist EXCEPT !.torn = @ \/ pieced]
                 \/ Goto(p, "exec") /\ UNCHANGED hist
<1>0. \E n \in Sizes(seen[p]) : \E pick \in Picks(seen[p], n) : Took(n, pick) BY DEF Load
<1>0a. PICK n \in Sizes(seen[p]) : \E pick \in Picks(seen[p], n) : Took(n, pick) BY <1>0
<1>0b. PICK pick \in Picks(seen[p], n) : Took(n, pick) BY <1>0a
<1> DEFINE image == View(seen[p], n, pick)
           pdb == Loaded(image)
           pieced == pdb.st = "loaded" /\ image \notin seen[p]
           new == [pc |-> "exec", cmd |-> cmd, pdb |-> pdb, r |-> q.r, base |-> pdb.pol]
<1>1. q.pc = "parse" /\ UNCHANGED <<kernel, file>> BY DEF Load
<1>2. q \in Busy BY <1>1, ProcIs DEF Inv
<1>3. used' \in Used /\ hist \in Hist BY DEF Inv, TypeInv, Load
<1>4. image \in Seq(Record)
  <2>1. seen[p] \in SUBSET Seq(Record) BY DEF Inv, TypeInv
  <2> QED BY <2>1, ViewIs
<1>4a. ~hist.torn /\ image \in seen[p] /\ IsImage(image) => Sound(policydb_read(image))
  BY DEF Inv, SeenInv
<1>4b. SeenStep BY DropSeen DEF Inv, Load
<1>5. \/ /\ proc' = [proc EXCEPT ![p].pc = "exec", ![p].pdb = pdb, ![p].base = pdb.pol]
         /\ hist' = [hist EXCEPT !.torn = hist.torn \/ pieced]
      \/ Goto(p, "exec") /\ UNCHANGED hist
  BY <1>0b, Zenon
<1> HIDE DEF image
<1>6. LoadedIs(image) BY <1>4, LoadGives
<1>7. CASE /\ proc' = [proc EXCEPT ![p].pc = "exec", ![p].pdb = pdb, ![p].base = pdb.pol]
           /\ hist' = [hist EXCEPT !.torn = hist.torn \/ pieced]
  <2>1. /\ pdb.st \in PdbState /\ pdb.pol \in Policy \union {NoPolicy}
        /\ pdb = [st |-> pdb.st, pol |-> pdb.pol]
        /\ pdb.st = "loaded" => IsImage(image) /\ pdb.pol \in Policy /\ pdb.pol = policydb_read(image)
    BY <1>6 DEF LoadedIs
  <2> HIDE DEF pdb
  <2>2. new \in Busy BY <1>2, <2>1, BusyParts DEF Busy
  <2>3. proc' = [proc EXCEPT ![p] = new]
    <3> DEFINE a == q.pc
               b == q.cmd
               c == q.pdb
               d == q.r
               e == q.base
               pol == pdb.pol
    <3>1. q = [pc |-> a, cmd |-> b, pdb |-> c, r |-> d, base |-> e] BY <1>2, BusyParts
    <3>2. proc' = [proc EXCEPT ![p] = [[[proc[p] EXCEPT !.pc = "exec"] EXCEPT !.pdb = pdb]
                                         EXCEPT !.base = pol]]
      <4>1. proc' = [proc EXCEPT ![p].pc = "exec", ![p].pdb = pdb, ![p].base = pol] BY <1>7
      <4>2. proc \in [Proc -> {Idle} \union Busy] BY DEF Inv, TypeInv
      <4> HIDE DEF pol
      <4> QED BY <4>1, <4>2
    <3> HIDE DEF a, b, c, d, e, pol
    <3>3. [[[q EXCEPT !.pc = "exec"] EXCEPT !.pdb = pdb] EXCEPT !.base = pol]
            = [pc |-> "exec", cmd |-> b, pdb |-> pdb, r |-> d, base |-> pol]
      <4> DEFINE q1 == [q EXCEPT !.pc = "exec"]
                 q2 == [q1 EXCEPT !.pdb = pdb]
      <4>1. q1 = [pc |-> "exec", cmd |-> b, pdb |-> c, r |-> d, base |-> e] BY <3>1
      <4> HIDE DEF q1
      <4>2. q2 = [pc |-> "exec", cmd |-> b, pdb |-> pdb, r |-> d, base |-> e] BY <4>1
      <4> HIDE DEF q2
      <4>3. [q2 EXCEPT !.base = pol] = [pc |-> "exec", cmd |-> b, pdb |-> pdb, r |-> d, base |-> pol]
        BY <4>2
      <4> QED BY <4>3 DEF q1, q2
    <3> QED BY <3>2, <3>3, Zenon DEF b, d, pol
  <2>4. new.pc = "exec" /\ new.pdb = pdb /\ new.base = pdb.pol OBVIOUS
  <2> HIDE DEF new
  <2>5. Held(new) BY <2>1, <2>4 DEF Held
  <2>6. HistStep /\ (hist'.torn <=> hist.torn \/ pieced)
    <3> DEFINE w == hist.want
               r == hist.raced
               t == hist.torn
               c == hist.clean
               s == hist.saved
               t2 == t \/ pieced
    <3>1. /\ w \in Wants /\ r \in BOOLEAN /\ t \in BOOLEAN /\ c \in BOOLEAN
          /\ s \in Policy \union {NoPolicy}
          /\ hist = [want |-> w, raced |-> r, torn |-> t, clean |-> c, saved |-> s]
      BY <1>3, HistParts
    <3>2. t2 \in BOOLEAN /\ (t => t2) BY <3>1
    <3>3. hist' = [hist EXCEPT !.torn = t2] BY <1>7
    <3> HIDE DEF w, r, t, c, s, t2
    <3>4. hist' = [want |-> w, raced |-> r, torn |-> t2, clean |-> c, saved |-> s] BY <3>1, <3>3
    <3>5. hist' \in Hist BY <3>1, <3>2, <3>4, HistFrom
    <3>6. HistStep BY <3>2, <3>4, <3>5 DEF HistStep, w, r, t, c, s
    <3> QED BY <3>4, <3>6 DEF t, t2
  <2>7. ~hist'.torn => Kept(new)
    <3>1. ASSUME ~hist'.torn, pdb.st = "loaded" PROVE Sound(pdb.pol)
      <4>1. ~hist.torn /\ image \in seen[p] BY <2>6, <3>1, Zenon
      <4> QED BY <1>4a, <2>1, <3>1, <4>1
    <3> QED BY <2>4, <3>1 DEF Kept
  <2>8. new \in {Idle} \union Busy BY <2>2
  <2> QED BY <1>1, <1>3, <1>4b, <2>3, <2>5, <2>6, <2>7, <2>8, MoveKeeps
<1>8. CASE Goto(p, "exec") /\ UNCHANGED hist
  <2>1. PICK new1 : proc' = [proc EXCEPT ![p] = new1] /\ Went(q, new1, "exec")
    BY <1>1, <1>8, GotoIs DEF Inv
  <2>2. q.pdb.st # "loaded" BY <1>1 DEF Inv, HeldInv, Held
  <2>3. Held(new1) /\ Kept(new1) BY <2>1, <2>2 DEF Went, Held, Kept
  <2>4. new1 \in {Idle} \union Busy BY <2>1 DEF Went
  <2>5. HistStep BY <1>8, SameHist DEF Inv
  <2> QED BY <1>1, <1>3, <1>4b, <2>1, <2>3, <2>4, <2>5, MoveKeeps
<1> QED BY <1>5, <1>7, <1>8

LEMMA ExitKeeps ==
  ASSUME Inv, NEW p \in Proc, Exit(p), used' \in Used, UNCHANGED <<kernel, file, hist>>, SeenStep
  PROVE  Inv'
<1>1. proc' = [proc EXCEPT ![p] = Idle] BY DEF Exit
<1>2. Idle \in {Idle} \union Busy OBVIOUS
<1>3. HistStep BY SameHist DEF Inv
<1> QED BY <1>1, <1>2, <1>3, IdleHeld, MoveKeeps

LEMMA ReturnKeeps ==
  ASSUME Inv, NEW p \in Proc, Return(p) \/ Kill(p) PROVE Inv'
<1>1. Exit(p) /\ UNCHANGED <<kernel, file, hist>> BY DEF Return, Kill
<1>2. used \in Used BY DEF Inv, TypeInv
<1>3. CASE Return(p)
  <2>1. SeenStep /\ used' = used BY <1>3, SameSeen DEF Return, Inv
  <2> QED BY <1>1, <1>2, <2>1, ExitKeeps
<1>4. CASE Kill(p)
  <2>1. used' \in Used /\ SeenStep BY <1>4, FaultIs, DropSeen DEF Kill, Inv
  <2> QED BY <1>1, <2>1, ExitKeeps
<1> QED BY <1>3, <1>4

LEMMA ExecuteKeeps ==
  ASSUME Inv, NEW p \in Proc, Execute(p) PROVE Inv'
<1> DEFINE q == proc[p]
           pdb == q.pdb
           cmd == q.cmd
           after == AfterExec(cmd)
<1>1. q.pc = "exec" /\ UNCHANGED <<kernel, file, seen, used, hist>> BY DEF Execute
<1>2. q \in Busy BY <1>1, ProcIs DEF Inv
<1>3. used' \in Used BY <1>1 DEF Inv, TypeInv
<1>4. after \in {"save", "reload", "exit"} BY DEF AfterExec
<1>5. proc \in [Proc -> {Idle} \union Busy] BY DEF Inv, TypeInv
<1> DEFINE a == q.pc
           c == q.cmd
           s == pdb.st
           o == pdb.pol
           d == q.r
           e == q.base
<1>6. pdb = [st |-> s, pol |-> o] /\ q = [pc |-> a, cmd |-> c, pdb |-> pdb, r |-> d, base |-> e]
  BY <1>2, BusyParts
<1>7. \/ /\ s = "loaded"
         /\ \E res \in bxxt_sepol_execute_stmt(o, cmd.stmt) :
              proc' = [proc EXCEPT ![p].pc = after, ![p].pdb.pol = res.pol, ![p].r = res.r]
      \/ /\ s # "loaded"
         /\ proc' = [proc EXCEPT ![p].pc = after, ![p].r = BXXT_FAILED]
      \/ Exit(p)
  BY DEF Execute
<1> HIDE DEF after, a, s, o, d, e
<1>8. CASE /\ s = "loaded"
           /\ \E res \in bxxt_sepol_execute_stmt(o, cmd.stmt) :
                proc' = [proc EXCEPT ![p].pc = after, ![p].pdb.pol = res.pol, ![p].r = res.r]
  <2>1. PICK res \in bxxt_sepol_execute_stmt(o, cmd.stmt) :
          proc' = [proc EXCEPT ![p].pc = after, ![p].pdb.pol = res.pol, ![p].r = res.r]
    BY <1>8
  <2>2. o \in Policy /\ e = o BY <1>1, <1>8 DEF Inv, HeldInv, Held, s, o, e
  <2>3. cmd.stmt.src \in Name BY <1>2, BusyParts, StatementAssumption
  <2>4. Edited(o, cmd.stmt, res) BY <2>1, <2>2, <2>3, ExecuteIs
  <2>5. res.pol \in Policy /\ res.r \in Int /\ (Sound(o) => Sound(res.pol)) BY <2>4 DEF Edited
  <2> DEFINE op == res.pol
             rr == res.r
             new == [pc |-> after, cmd |-> c, pdb |-> [st |-> s, pol |-> op], r |-> rr, base |-> e]
  <2>6. proc' = [proc EXCEPT ![p] = [[[proc[p] EXCEPT !.pc = after] EXCEPT !.pdb.pol = op]
                                       EXCEPT !.r = rr]]
    <3>1. proc' = [proc EXCEPT ![p].pc = after, ![p].pdb.pol = op, ![p].r = rr] BY <2>1
    <3> HIDE DEF op, rr
    <3> QED BY <1>5, <3>1
  <2>7. [[[q EXCEPT !.pc = after] EXCEPT !.pdb.pol = op] EXCEPT !.r = rr] = new
    <3> DEFINE b == pdb
    <3>1. b = [st |-> s, pol |-> o] /\ q = [pc |-> a, cmd |-> c, pdb |-> b, r |-> d, base |-> e]
      BY <1>6
    <3> HIDE DEF op, rr, c, b
    <3> DEFINE q1 == [q EXCEPT !.pc = after]
               q2 == [q1 EXCEPT !.pdb.pol = op]
               b2 == [st |-> s, pol |-> op]
    <3>2. q1 = [pc |-> after, cmd |-> c, pdb |-> b, r |-> d, base |-> e] BY <3>1
    <3>3. [b EXCEPT !.pol = op] = b2 BY <3>1
    <3> HIDE DEF q1, b2
    <3>4. q2 = [q1 EXCEPT !.pdb = [b EXCEPT !.pol = op]] BY <3>2
    <3>5. q2 = [q1 EXCEPT !.pdb = b2] BY <3>3, <3>4
    <3> HIDE DEF q2
    <3>6. q2 = [pc |-> after, cmd |-> c, pdb |-> b2, r |-> d, base |-> e] BY <3>2, <3>5
    <3>7. [q2 EXCEPT !.r = rr] = [pc |-> after, cmd |-> c, pdb |-> b2, r |-> rr, base |-> e] BY <3>6
    <3> QED BY <3>7 DEF q1, q2, b2
  <2>8. proc' = [proc EXCEPT ![p] = new] BY <2>6, <2>7, Zenon
  <2>9. c \in Command /\ s \in PdbState /\ e \in Policy \union {NoPolicy}
    BY <1>2, BusyParts DEF s, e
  <2>10. new \in Busy
    <3> HIDE DEF c
    <3> QED BY <1>4, <2>5, <2>9, BusyFrom
  <2>11. new.pc = after /\ new.cmd = c /\ new.pdb.pol = op /\ new.r = rr /\ new.base = e
    OBVIOUS
  <2> HIDE DEF new
  <2>12. Held(new) BY <1>4, <2>1, <2>2, <2>5, <2>11 DEF Held
  <2>13. ASSUME ~hist.torn PROVE Kept(new)
    <3>1. Kept(q) BY <2>13 DEF Inv, SoundInv
    <3>2. Sound(o) BY <1>1, <1>8, <3>1 DEF Kept, s, o
    <3> QED BY <2>5, <2>11, <3>2 DEF Kept
  <2> QED BY <1>1, <1>3, <2>8, <2>10, <2>12, <2>13, MoveOnly
<1>9. CASE s # "loaded" /\ proc' = [proc EXCEPT ![p].pc = after, ![p].r = BXXT_FAILED]
  <2> DEFINE f == BXXT_FAILED
             new == [pc |-> after, cmd |-> c, pdb |-> [st |-> s, pol |-> o], r |-> f, base |-> e]
  <2>1. proc' = [proc EXCEPT ![p] = [[proc[p] EXCEPT !.pc = after] EXCEPT !.r = f]] BY <1>5, <1>9
  <2>2. [[q EXCEPT !.pc = after] EXCEPT !.r = f] = new
    <3> DEFINE b == pdb
    <3>1. b = [st |-> s, pol |-> o] /\ q = [pc |-> a, cmd |-> c, pdb |-> b, r |-> d, base |-> e]
      BY <1>6
    <3> HIDE DEF c, b, f
    <3> DEFINE q1 == [q EXCEPT !.pc = after]
    <3>2. q1 = [pc |-> after, cmd |-> c, pdb |-> b, r |-> d, base |-> e] BY <3>1
    <3> HIDE DEF q1
    <3>3. [q1 EXCEPT !.r = f] = [pc |-> after, cmd |-> c, pdb |-> b, r |-> f, base |-> e] BY <3>2
    <3> QED BY <3>1, <3>3 DEF q1
  <2>3. proc' = [proc EXCEPT ![p] = new] BY <2>1, <2>2, Zenon
  <2>4. /\ c \in Command /\ s \in PdbState /\ e \in Policy \union {NoPolicy}
        /\ o \in Policy \union {NoPolicy}
    BY <1>2, BusyParts DEF s, e, o
  <2>4a. f \in Int BY DEF BXXT_FAILED
  <2>5. new \in Busy
    <3> HIDE DEF c, f
    <3> QED BY <1>4, <2>4, <2>4a, BusyFrom
  <2>6. new.pdb.st = s OBVIOUS
  <2> HIDE DEF new
  <2>7. Held(new) /\ Kept(new) BY <1>9, <2>6 DEF Held, Kept
  <2> QED BY <1>1, <1>3, <2>3, <2>5, <2>7, MoveOnly
<1>10. CASE Exit(p)
  <2>1. SeenStep BY <1>1, SameSeen DEF Inv
  <2> QED BY <1>1, <1>3, <1>10, <2>1, ExitKeeps
<1> QED BY <1>7, <1>8, <1>9, <1>10

LEMMA TailIs ==
  ASSUME NEW f \in Seq(Record), NEW n \in Nat PROVE SubSeq(f, n + 1, Len(f)) \in Seq(Record)
<1>1. Len(f) \in Nat /\ \A i \in 1..Len(f) : f[i] \in Record BY LenProperties, ElementOfSeq
<1>2. ASSUME NEW i \in (n + 1)..Len(f) PROVE f[i] \in Record
  <2>1. i \in 1..Len(f) BY <1>1
  <2> QED BY <1>1, <2>1
<1>3. n + 1 \in Int /\ Len(f) \in Int BY <1>1
<1> QED BY <1>2, <1>3, SubSeqProperties

(* What the file holds after n records of the image were written.          *)
Overwritten(old, image, n, f) ==
  /\ f \in Seq(Record)
  /\ n = 0 => f = old
  /\ n = Len(image) => \E tail \in Seq(Record) : f = image \o tail

LEMMA WriteOverIs ==
  ASSUME NEW old \in Seq(Record), NEW image \in Seq(Record), NEW n \in 0..Len(image),
         NEW f, f = WriteOver(old, SubSeq(image, 1, n))
  PROVE  Overwritten(old, image, n, f)
<1> DEFINE head == SubSeq(image, 1, n)
<1>1. Len(image) \in Nat /\ \A i \in 1..Len(image) : image[i] \in Record
  BY LenProperties, ElementOfSeq
<1>2. n \in Nat BY <1>1
<1>3. head \in Seq(Record) /\ Len(head) = n
  <2>1. \A i \in 1..n : i \in 1..Len(image) BY <1>1
  <2>2. \A i \in 1..n : image[i] \in Record BY <1>1, <2>1
  <2>3. 1 \in Int /\ n \in Int BY <1>2
  <2>4. head \in Seq(Record) BY <2>2, <2>3, SubSeqProperties
  <2>5. Len(head) = IF 1 <= n THEN n - 1 + 1 ELSE 0
    BY <1>1, <2>1, <2>3, SubSeqProperties
  <2> QED BY <1>2, <2>4, <2>5
<1> DEFINE tail == SubSeq(old, n + 1, Len(old))
<1>4. tail \in Seq(Record) BY <1>2, TailIs
<1>5. f = head \o tail BY <1>3 DEF WriteOver
<1>6. f \in Seq(Record)
  <2> HIDE DEF head, tail
  <2> QED BY <1>3, <1>4, <1>5, ConcatProperties
<1>7. ASSUME n = 0 PROVE f = old
  <2>1. head = << >> BY <1>3, <1>7, EmptySeq
  <2>2. tail = SubSeq(old, 1, Len(old)) BY <1>7
  <2>3. tail = old BY <2>2, SubSeqFull
  <2> HIDE DEF head, tail
  <2> QED BY <1>5, <2>1, <2>3, ConcatEmptySeq
<1>8. ASSUME n = Len(image) PROVE f = image \o tail
  <2>1. head = image BY <1>8, SubSeqFull
  <2> QED BY <1>5, <2>1
<1> QED BY <1>4, <1>6, <1>7, <1>8 DEF Overwritten

(* One process goes on and the file, the kernel's policy or the history    *)
(* change: what is left to show of the invariant.                          *)
LEMMA MoveRest ==
  ASSUME Inv, NEW p \in Proc, NEW label \in {"reload", "exit"}, proc[p].pc \in {"save", "reload"},
         Goto(p, label), kernel' \in Policy, file' \in Seq(Record), used' \in Used, hist' \in Hist,
         SeenStep
  PROVE  /\ TypeInv' /\ HeldInv'
         /\ (\A q \in Proc : Kept(proc[q])) => (\A q \in Proc : Kept(proc'[q]))
<1>1. label \in {"load", "parse", "exec", "save", "reload", "exit"} /\ proc[p].pc # "idle" OBVIOUS
<1>2. PICK new : proc' = [proc EXCEPT ![p] = new] /\ Went(proc[p], new, label)
  BY <1>1, GotoIs DEF Inv
<1>3. proc[p] \in Busy /\ Held(proc[p]) BY <1>1, ProcIs DEF Inv, HeldInv
<1>4. Held(new) /\ (Kept(proc[p]) => Kept(new)) BY <1>2, <1>3, GotoHeld
<1>5. new \in {Idle} \union Busy BY <1>2 DEF Went
<1>6. /\ proc' \in [Proc -> {Idle} \union Busy] /\ HeldInv'
      /\ proc'[p] = new /\ \A q \in Proc : q # p => proc'[q] = proc[q]
  BY <1>2, <1>4, <1>5, MoveProc DEF Inv
<1>7. ASSUME \A q \in Proc : Kept(proc[q]), NEW q \in Proc PROVE Kept(proc'[q])
  <2>1. CASE q = p BY <1>4, <1>6, <1>7, <2>1
  <2>2. CASE q # p
    <3>1. Kept(proc[q]) BY <1>7
    <3> QED BY <1>6, <2>2, <3>1
  <2> QED BY <2>1, <2>2
<1> QED BY <1>6, <1>7 DEF TypeInv, SeenStep

(* What a process holds from save on.                                      *)
LEMMA HeldNow ==
  ASSUME Inv, NEW p \in Proc, proc[p].pc \in {"save", "reload"}, policydb_to_image(proc[p].pdb)
  PROVE  /\ proc[p].pdb.pol \in Policy /\ proc[p].base \in Policy
         /\ \E res \in bxxt_sepol_execute_stmt(proc[p].base, proc[p].cmd.stmt) :
              /\ proc[p].pdb.pol = res.pol /\ proc[p].r = res.r
              /\ Edited(proc[p].base, proc[p].cmd.stmt, res)
         /\ ~hist.torn => Sound(proc[p].pdb.pol)
<1> DEFINE q == proc[p]
           stmt == q.cmd.stmt
           base == q.base
<1>1. q.pc # "idle" /\ q.pdb.st = "loaded" /\ q.pc # "exec" BY DEF policydb_to_image
<1>2. Held(q) /\ (~hist.torn => Kept(q)) BY DEF Inv, HeldInv, SoundInv
<1>3. /\ q.pdb.pol \in Policy /\ base \in Policy
      /\ \E res \in bxxt_sepol_execute_stmt(base, stmt) : q.pdb.pol = res.pol /\ q.r = res.r
  BY <1>1, <1>2 DEF Held
<1>4. stmt.src \in Name
  <2>1. q.cmd \in Command BY <1>1, ProcIs, BusyParts DEF Inv
  <2> QED BY <2>1, StatementAssumption
<1>5. PICK res \in bxxt_sepol_execute_stmt(base, stmt) : q.pdb.pol = res.pol /\ q.r = res.r BY <1>3
<1> HIDE DEF stmt, base
<1>6. Edited(base, stmt, res) BY <1>3, <1>4, <1>5, ExecuteIs
<1> QED BY <1>1, <1>2, <1>3, <1>5, <1>6 DEF Kept, stmt, base

LEMMA SaveKeeps ==
  ASSUME Inv, NEW p \in Proc, Save(p) PROVE Inv'
<1> DEFINE q == proc[p]
           pdb == q.pdb
           pol == pdb.pol
           image == policydb_write(pol)
           Write(n) == file' = WriteOver(file, SubSeq(image, 1, n))
           label == AfterSave(q.cmd)
<1>1. q.pc = "save" /\ Goto(p, label) /\ kernel' = kernel BY DEF Save
<1>2. label \in {"reload", "exit"} BY DEF AfterSave
<1>3. kernel' \in Policy /\ file \in Seq(Record) /\ used \in Used /\ hist \in Hist
  BY <1>1 DEF Inv, TypeInv
<1>4. \/ /\ policydb_to_image(pdb) /\ Write(Len(image))
         /\ hist' = [hist EXCEPT !.clean = TRUE, !.saved = pol] /\ UNCHANGED used
      \/ /\ policydb_to_image(pdb) /\ Fault
         /\ \E n \in 0..(Len(image) - 1) :
              /\ Write(n)
              /\ hist' = [hist EXCEPT !.clean = @ /\ n = 0, !.torn = @ \/ n # 0]
      \/ UNCHANGED <<file, used, hist>>
  BY DEF Save
<1>4a. ASSUME file' \in Seq(Record) PROVE SeenStep
  <2> DEFINE x(y) == IF proc[y].pc = "parse" /\ proc[y].cmd.input = "file"
                     THEN seen[y] \union {file'} ELSE seen[y]
  <2>1. seen' = [y \in Proc |-> x(y)] BY DEF Save
  <2>2. seen \in [Proc -> SUBSET Seq(Record)] BY DEF Inv, TypeInv
  <2>3. \A y \in Proc : x(y) \in SUBSET Seq(Record) /\ \A f \in x(y) : f \in seen[y] \/ f = file'
    BY <1>4a, <2>2
  <2> HIDE DEF x
  <2> QED BY <2>1, <2>3 DEF SeenStep
<1> HIDE DEF label
<1> DEFINE w == hist.want
           r == hist.raced
           t == hist.torn
           c == hist.clean
           s == hist.saved
<1>5. hist = [want |-> w, raced |-> r, torn |-> t, clean |-> c, saved |-> s]
  BY <1>3, HistParts
<1>6. /\ w \in Wants /\ r \in BOOLEAN /\ t \in BOOLEAN /\ c \in BOOLEAN
      /\ s \in Policy \union {NoPolicy}
  BY <1>3, HistParts
<1> HIDE DEF w, r, t, c, s
<1>7. CASE /\ policydb_to_image(pdb) /\ Write(Len(image))
           /\ hist' = [hist EXCEPT !.clean = TRUE, !.saved = pol] /\ UNCHANGED used
  <2>1. pol \in Policy /\ (~hist.torn => Sound(pol)) BY <1>1, <1>7, HeldNow
  <2> HIDE DEF pol
  <2>2. image \in Seq(Record) /\ Len(image) \in Nat BY <2>1, WriteAlone, LenProperties
  <2>2a. DOMAIN pol.av # {}
    <3>1. IsImage(policydb_write(pol)) BY <1>7 DEF policydb_to_image, pol
    <3> QED BY <2>1, <3>1, WriteAlone
  <2>3. Len(image) \in 0..Len(image) BY <2>2
  <2>4. PICK tail \in Seq(Record) : file' = image \o tail /\ file' \in Seq(Record)
    <3> DEFINE n == Len(image)
               f == file'
    <3>1. f = WriteOver(file, SubSeq(image, 1, n)) /\ n \in 0..Len(image) /\ n = Len(image)
      BY <1>7, <2>3
    <3> HIDE DEF image, n, f
    <3>2. Overwritten(file, image, n, f) BY <1>3, <2>2, <3>1, WriteOverIs
    <3> QED BY <3>1, <3>2 DEF Overwritten, f
  <2>5. IsImage(file') /\ policydb_read(file') = pol
    <3> DEFINE f == file'
    <3>1. f = policydb_write(pol) \o tail BY <2>4
    <3> HIDE DEF f
    <3>2. IsImage(f) /\ policydb_read(f) = pol BY <2>1, <2>2a, <3>1, WriteReads
    <3> QED BY <3>2 DEF f
  <2>6. hist' = [want |-> w, raced |-> r, torn |-> t, clean |-> TRUE, saved |-> pol]
    BY <1>5, <1>7
  <2>7. hist' \in Hist BY <1>6, <2>1, <2>6, HistFrom
  <2>8. used' \in Used BY <1>3, <1>7
  <2>9. /\ TypeInv' /\ HeldInv'
        /\ (\A x \in Proc : Kept(proc[x])) => (\A x \in Proc : Kept(proc'[x]))
    BY <1>1, <1>2, <1>3, <1>4a, <2>4, <2>7, <2>8, MoveRest
  <2>10. /\ hist'.torn = hist.torn /\ hist'.raced = hist.raced /\ hist'.want = hist.want
         /\ hist'.saved = pol
    BY <2>6 DEF t, r, w
  <2>11. SoundInv'
    <3>1. ASSUME ~hist'.torn
          PROVE  /\ Sound(kernel') /\ (IsImage(file') => Sound(policydb_read(file')))
                 /\ \A x \in Proc : Kept(proc'[x])
      <4>1. ~hist.torn BY <2>10, <3>1
      <4>2. Sound(kernel) /\ \A x \in Proc : Kept(proc[x]) BY <4>1 DEF Inv, SoundInv
      <4> QED BY <1>1, <2>1, <2>5, <2>9, <4>1, <4>2
    <3> QED BY <3>1 DEF SoundInv, Kept
  <2>12. FileLoadsBack' BY <2>5, <2>10 DEF FileLoadsBack
  <2>13. EffectInv' BY <1>1, <2>10 DEF Inv, EffectInv
  <2>14. SeenInv' BY <1>4a, <2>4, <2>10, <2>11, SeenKeeps DEF SoundInv
  <2> QED BY <2>9, <2>11, <2>12, <2>13, <2>14 DEF Inv
<1>8. CASE /\ policydb_to_image(pdb) /\ Fault
           /\ \E n \in 0..(Len(image) - 1) :
                /\ Write(n)
                /\ hist' = [hist EXCEPT !.clean = @ /\ n = 0, !.torn = @ \/ n # 0]
  <2>1. pol \in Policy BY <1>1, <1>8, HeldNow
  <2> HIDE DEF pol
  <2>2. image \in Seq(Record) /\ Len(image) \in Nat BY <2>1, WriteAlone, LenProperties
  <2>3. PICK n \in 0..(Len(image) - 1) :
          /\ Write(n)
          /\ hist' = [hist EXCEPT !.clean = @ /\ n = 0, !.torn = @ \/ n # 0]
    BY <1>8
  <2>4. file' \in Seq(Record) /\ (n = 0 => file' = file)
    <3> DEFINE f == file'
    <3>1. f = WriteOver(file, SubSeq(image, 1, n)) /\ n \in 0..Len(image) BY <2>2, <2>3
    <3> HIDE DEF image, f
    <3>2. Overwritten(file, image, n, f) BY <1>3, <2>2, <3>1, WriteOverIs
    <3> QED BY <3>2 DEF Overwritten, f
  <2> DEFINE c2 == c /\ n = 0
             t2 == t \/ n # 0
  <2>5. hist' = [want |-> w, raced |-> r, torn |-> t2, clean |-> c2, saved |-> s]
    <3>1. hist' = [hist EXCEPT !.clean = c2, !.torn = t2] BY <2>3, Zenon DEF c, t
    <3>2. c2 \in BOOLEAN /\ t2 \in BOOLEAN OBVIOUS
    <3> HIDE DEF c2, t2
    <3> QED BY <1>5, <1>6, <3>1, <3>2
  <2>6. c2 \in BOOLEAN /\ t2 \in BOOLEAN OBVIOUS
  <2>7. hist' \in Hist
    <3> HIDE DEF c2, t2
    <3> QED BY <1>6, <2>5, <2>6, HistFrom
  <2>8. used' \in Used BY <1>8, FaultIs DEF Inv
  <2>9. /\ TypeInv' /\ HeldInv'
        /\ (\A x \in Proc : Kept(proc[x])) => (\A x \in Proc : Kept(proc'[x]))
    BY <1>1, <1>2, <1>3, <1>4a, <2>4, <2>7, <2>8, MoveRest
  <2>10. /\ hist'.torn = t2 /\ hist'.clean = c2 /\ hist'.raced = hist.raced
         /\ hist'.want = hist.want /\ hist'.saved = hist.saved
    BY <2>5, Zenon DEF r, w, s
  <2>11. SoundInv'
    <3>1. ASSUME ~hist'.torn
          PROVE  /\ Sound(kernel') /\ (IsImage(file') => Sound(policydb_read(file')))
                 /\ \A x \in Proc : Kept(proc'[x])
      <4>1. ~hist.torn /\ n = 0 BY <2>10, <3>1, Zenon DEF t
      <4>2. /\ Sound(kernel) /\ (IsImage(file) => Sound(policydb_read(file)))
            /\ \A x \in Proc : Kept(proc[x])
        BY <4>1 DEF Inv, SoundInv
      <4> QED BY <1>1, <2>4, <2>9, <4>1, <4>2
    <3> QED BY <3>1 DEF SoundInv, Kept
  <2>12. FileLoadsBack'
    <3>1. ASSUME hist'.clean PROVE IsImage(file') /\ policydb_read(file') = hist'.saved
      <4>1. hist.clean /\ n = 0 BY <2>10, <3>1, Zenon DEF c
      <4> QED BY <2>4, <2>10, <4>1 DEF Inv, FileLoadsBack
    <3> QED BY <3>1 DEF FileLoadsBack
  <2>13. EffectInv' BY <1>1, <2>10 DEF Inv, EffectInv
  <2>14. SeenInv'
    <3>1. hist.torn => hist'.torn BY <2>10, Zenon DEF t
    <3> QED BY <1>4a, <2>4, <2>11, <3>1, SeenKeeps DEF SoundInv
  <2> QED BY <2>9, <2>11, <2>12, <2>13, <2>14 DEF Inv
<1>9. CASE UNCHANGED <<file, used, hist>>
  <2>1. /\ TypeInv' /\ HeldInv'
        /\ (\A x \in Proc : Kept(proc[x])) => (\A x \in Proc : Kept(proc'[x]))
    BY <1>1, <1>2, <1>3, <1>4a, <1>9, MoveRest
  <2>2. SoundInv'
    <3>1. ~hist.torn =>
            /\ Sound(kernel) /\ (IsImage(file) => Sound(policydb_read(file)))
            /\ \A x \in Proc : Kept(proc[x])
      BY DEF Inv, SoundInv
    <3> QED BY <1>1, <1>9, <2>1, <3>1 DEF SoundInv, Kept
  <2>3. FileLoadsBack' BY <1>9 DEF Inv, FileLoadsBack
  <2>4. EffectInv' BY <1>1, <1>9 DEF Inv, EffectInv
  <2>5. SeenInv' BY <1>3, <1>4a, <1>9, <2>2, SeenKeeps DEF SoundInv
  <2> QED BY <2>1, <2>2, <2>3, <2>4, <2>5 DEF Inv
<1> QED BY <1>4, <1>7, <1>8, <1>9

LEMMA ReloadKeeps ==
  ASSUME Inv, NEW p \in Proc, Reload(p) PROVE Inv'
<1> DEFINE q == proc[p]
           pdb == q.pdb
           cmd == q.cmd
           pol == pdb.pol
           stmt == cmd.stmt
           from == IF cmd.input = "kernel" THEN hist.want ELSE NoWant
           want == IF q.r = BXXT_SUCCESS THEN Wanted(from, stmt) ELSE from
<1>1. q.pc = "reload" /\ Goto(p, "exit") /\ file' = file BY DEF Reload
<1>1a. SeenStep BY SameSeen DEF Inv, Reload
<1>2. /\ kernel \in Policy /\ file \in Seq(Record) /\ used \in Used /\ hist \in Hist
      /\ file' \in Seq(Record)
  BY <1>1 DEF Inv, TypeInv
<1>3. \/ /\ policydb_to_image(pdb) /\ kernel' = pol
         /\ hist' = [hist EXCEPT !.want = want,
                       !.raced = @ \/ (cmd.input = "kernel" /\ q.base \notin {kernel, NoPolicy})]
         /\ UNCHANGED used
      \/ UNCHANGED <<kernel, hist>> /\ (UNCHANGED used \/ Fault)
  BY DEF Reload
<1> DEFINE w == hist.want
           r == hist.raced
           t == hist.torn
           c == hist.clean
           s == hist.saved
<1>4. hist = [want |-> w, raced |-> r, torn |-> t, clean |-> c, saved |-> s]
  BY <1>2, HistParts
<1>5. /\ w \in Wants /\ r \in BOOLEAN /\ t \in BOOLEAN /\ c \in BOOLEAN
      /\ s \in Policy \union {NoPolicy}
  BY <1>2, HistParts
<1>6. CASE /\ policydb_to_image(pdb) /\ kernel' = pol
           /\ hist' = [hist EXCEPT !.want = want,
                         !.raced = @ \/ (cmd.input = "kernel" /\ q.base \notin {kernel, NoPolicy})]
           /\ UNCHANGED used
  <2> DEFINE b == q.base
             r2 == r \/ (cmd.input = "kernel" /\ b \notin {kernel, NoPolicy})
  <2>1. /\ pol \in Policy /\ b \in Policy /\ (~hist.torn => Sound(pol))
        /\ \E res \in bxxt_sepol_execute_stmt(b, stmt) :
             pol = res.pol /\ q.r = res.r /\ Edited(b, stmt, res)
    BY <1>1, <1>6, HeldNow
  <2>2. PICK res \in bxxt_sepol_execute_stmt(b, stmt) :
          pol = res.pol /\ q.r = res.r /\ Edited(b, stmt, res)
    BY <2>1
  <2>3. from \in Wants BY <1>5, NoWantIs
  <2>4. want \in Wants
    <3>1. CASE q.r = BXXT_SUCCESS
      <4>1. want = Wanted(from, stmt) BY <3>1
      <4> HIDE DEF from, stmt
      <4>2. Wanted(from, stmt) \in Wants BY <2>2, <2>3, <3>1 DEF Edited
      <4> QED BY <4>1, <4>2
    <3>2. CASE q.r # BXXT_SUCCESS BY <2>3, <3>2
    <3> QED BY <3>1, <3>2
  <2>5. ASSUME ~r2 PROVE Effects(pol, want)
    <3>1. b # NoPolicy BY <2>1, PolicyIsPolicy
    <3>2. Effects(b, from)
      <4>1. CASE cmd.input = "kernel"
        <5>1. b = kernel /\ ~hist.raced /\ from = hist.want BY <2>5, <3>1, <4>1
        <5> HIDE DEF from
        <5> QED BY <5>1 DEF Inv, EffectInv
      <4>2. CASE cmd.input # "kernel"
        <5>1. from = NoWant BY <4>2
        <5> HIDE DEF from
        <5> QED BY <5>1, NoWantIs
      <4> QED BY <4>1, <4>2
    <3>3. CASE q.r = BXXT_SUCCESS
      <4>1. want = Wanted(from, stmt) BY <3>3
      <4> HIDE DEF from, stmt, want, pol
      <4>2. Effects(res.pol, Wanted(from, stmt)) BY <2>2, <2>3, <3>2, <3>3 DEF Edited
      <4> QED BY <2>2, <4>1, <4>2
    <3>4. CASE q.r # BXXT_SUCCESS
      <4>1. want = from BY <3>4
      <4> HIDE DEF from, want, pol
      <4>2. pol = b BY <2>2, <3>4 DEF Edited
      <4> QED BY <3>2, <4>1, <4>2
    <3> QED BY <3>3, <3>4
  <2> HIDE DEF w, r, t, c, s, want, pol, b
  <2>6. r2 \in BOOLEAN BY <1>5
  <2>7. hist' = [want |-> want, raced |-> r2, torn |-> t, clean |-> c, saved |-> s]
    <3>1. hist' = [hist EXCEPT !.want = want, !.raced = r2] BY <1>6, Zenon DEF r, b
    <3> HIDE DEF r2
    <3> QED BY <1>4, <1>5, <2>6, <3>1
  <2>8. hist' \in Hist
    <3> HIDE DEF r2
    <3> QED BY <1>5, <2>4, <2>6, <2>7, HistFrom
  <2>9. used' \in Used /\ kernel' \in Policy BY <1>2, <1>6, <2>1
  <2>10. /\ TypeInv' /\ HeldInv'
         /\ (\A x \in Proc : Kept(proc[x])) => (\A x \in Proc : Kept(proc'[x]))
    BY <1>1, <1>1a, <1>2, <2>8, <2>9, MoveRest
  <2>11. /\ hist'.torn = hist.torn /\ hist'.clean = hist.clean /\ hist'.raced = r2
         /\ hist'.want = want /\ hist'.saved = hist.saved
    BY <2>7, Zenon DEF t, c, s
  <2>12. SoundInv'
    <3>1. ASSUME ~hist'.torn
          PROVE  /\ Sound(kernel') /\ (IsImage(file') => Sound(policydb_read(file')))
                 /\ \A x \in Proc : Kept(proc'[x])
      <4>1. ~hist.torn BY <2>11, <3>1
      <4>2. /\ IsImage(file) => Sound(policydb_read(file))
            /\ \A x \in Proc : Kept(proc[x])
        BY <4>1 DEF Inv, SoundInv
      <4>3. Sound(kernel') BY <1>6, <2>1, <4>1
      <4> QED BY <1>1, <2>10, <4>2, <4>3
    <3> QED BY <3>1 DEF SoundInv, Kept
  <2>13. FileLoadsBack' BY <1>1, <2>11 DEF Inv, FileLoadsBack
  <2>14. EffectInv'
    <3>1. ASSUME ~hist'.raced PROVE Effects(kernel', hist'.want)
      <4>1. ~r2 BY <2>11, <3>1, Zenon
      <4> QED BY <1>6, <2>5, <2>11, <4>1
    <3> QED BY <3>1 DEF EffectInv
  <2>15. SeenInv' BY <1>1a, <2>11, <2>12, SeenKeeps DEF SoundInv
  <2> QED BY <2>10, <2>12, <2>13, <2>14, <2>15 DEF Inv
<1>7. CASE UNCHANGED <<kernel, hist>> /\ (UNCHANGED used \/ Fault)
  <2>1. used' \in Used BY <1>2, <1>7, FaultIs DEF Inv
  <2>2. /\ TypeInv' /\ HeldInv'
        /\ (\A x \in Proc : Kept(proc[x])) => (\A x \in Proc : Kept(proc'[x]))
    BY <1>1, <1>1a, <1>2, <1>7, <2>1, MoveRest
  <2>3. SoundInv'
    <3>1. ~hist.torn =>
            /\ Sound(kernel) /\ (IsImage(file) => Sound(policydb_read(file)))
            /\ \A x \in Proc : Kept(proc[x])
      BY DEF Inv, SoundInv
    <3> QED BY <1>1, <1>7, <2>2, <3>1 DEF SoundInv, Kept
  <2>4. FileLoadsBack' BY <1>1, <1>7 DEF Inv, FileLoadsBack
  <2>5. EffectInv' BY <1>7 DEF Inv, EffectInv
  <2>6. SeenInv' BY <1>1a, <1>7, <2>3, SeenKeeps DEF SoundInv
  <2> QED BY <2>2, <2>3, <2>4, <2>5, <2>6 DEF Inv
<1> QED BY <1>3, <1>6, <1>7

LEMMA NextKeeps == Inv /\ [Next]_vars => Inv'
<1> SUFFICES ASSUME Inv, [Next]_vars PROVE Inv' OBVIOUS
<1>1. CASE UNCHANGED vars
  <2>1. /\ kernel' = kernel /\ file' = file /\ proc' = proc /\ used' = used /\ hist' = hist
        /\ seen' = seen
    BY <1>1 DEF vars
  <2> QED BY <2>1 DEF Inv, TypeInv, HeldInv, Held, SoundInv, SeenInv, Kept,
             FileLoadsBack, EffectInv
<1>2. CASE Next
  <2>1. PICK p \in Proc :
          \/ \E cmd \in Command : Start(p, cmd)
          \/ Open(p) \/ Load(p) \/ Execute(p) \/ Save(p) \/ Reload(p) \/ Return(p) \/ Kill(p)
    BY <1>2 DEF Next
  <2>2. CASE \E cmd \in Command : Start(p, cmd) BY <2>2, StartKeeps
  <2>2a. CASE Open(p) BY <2>2a, OpenKeeps
  <2>3. CASE Load(p) BY <2>3, LoadKeeps
  <2>4. CASE Execute(p) BY <2>4, ExecuteKeeps
  <2>5. CASE Save(p) BY <2>5, SaveKeeps
  <2>6. CASE Reload(p) BY <2>6, ReloadKeeps
  <2>7. CASE Return(p) \/ Kill(p) BY <2>7, ReturnKeeps
  <2> QED BY <2>1, <2>2, <2>2a, <2>3, <2>4, <2>5, <2>6, <2>7
<1> QED BY <1>1, <1>2

LEMMA InvHolds == Spec => []Inv
BY InitInv, NextKeeps, PTL DEF Spec

-----------------------------------------------------------------------------
(* The properties.                                                         *)

LEMMA LoadableIs ==
  ASSUME Inv, NEW pol \in Loadable PROVE pol \in Policy /\ (~hist.torn => Sound(pol))
<1>1. CASE pol = kernel BY <1>1 DEF Inv, TypeInv, SoundInv
<1>2. CASE pol # kernel
  <2>1. PICK p \in Proc : proc[p].pc # "idle" /\ proc[p].pdb.st = "loaded" /\ pol = proc[p].pdb.pol
    BY <1>2 DEF Loadable
  <2>2. Held(proc[p]) /\ (~hist.torn => Kept(proc[p])) BY DEF Inv, HeldInv, SoundInv
  <2> QED BY <2>1, <2>2 DEF Held, Kept
<1> QED BY <1>1, <1>2

(* Whatever commands run, race, fail or are killed, the kernel and every   *)
(* process with a loaded policy hold a well-formed one.                    *)
THEOREM TypeCorrect == Spec => []TypeOK
<1>1. ASSUME Inv PROVE TypeOK
  <2>1. \A pol \in Loadable : IsPolicy(pol) /\ pol # NoPolicy BY <1>1, LoadableIs, PolicyIsPolicy
  <2>2. ASSUME NEW i \in DOMAIN file
        PROVE  file[i].k \in {"head", "types", "type", "avtab", "rule", "attr"}
    <3>1. file \in Seq(Record) BY <1>1 DEF Inv, TypeInv
    <3>2. file[i] \in Record BY <2>2, <3>1
    <3> QED BY <3>2 DEF Record
  <2>3. ASSUME NEW p \in Proc
        PROVE  /\ proc[p].pc \in {"idle", "load", "parse", "exec", "save", "reload", "exit"}
               /\ proc[p].pc # "idle" => /\ proc[p].cmd \in Command /\ proc[p].r \in Int
                                         /\ proc[p].pdb.st \in PdbState
    <3>1. proc[p] \in {Idle} \union Busy BY <1>1 DEF Inv, TypeInv
    <3>2. CASE proc[p] = Idle BY <3>2 DEF Idle
    <3>3. CASE proc[p] \in Busy BY <3>3, BusyParts
    <3> QED BY <3>1, <3>2, <3>3
  <2>4. used.runs \in 0..MaxRuns /\ used.faults \in 0..MaxFaults BY <1>1 DEF Inv, TypeInv, Used
  <2> QED BY <2>1, <2>2, <2>3, <2>4 DEF TypeOK
<1> QED BY <1>1, InvHolds, PTL

(* As long as no save was cut short and no load took parts of several      *)
(* contents, every statement leaves types values of their own, and rules,  *)
(* roles and the permissive map that speak of existing types, in the       *)
(* kernel and in memory, whatever saves the loads overlap.                 *)
THEOREM PolicyStaysConsistent == Spec => []PolicySound
<1>1. ASSUME Inv PROVE PolicySound
  BY <1>1, LoadableIs, SoundIsConsistent DEF PolicySound
<1> QED BY <1>1, InvHolds, PTL

(* A complete save loads back as the policy that was saved, over a longer  *)
(* file too.                                                               *)
THEOREM SavedFileLoads == Spec => []FileLoadsBack
<1>1. Inv => FileLoadsBack BY DEF Inv
<1> QED BY <1>1, InvHolds, PTL

(* No live statement is lost unless two live commands raced.               *)
THEOREM NoLostStatement == Spec => []LiveEffects
<1>1. ASSUME Inv PROVE LiveEffects
  <2>1. SUFFICES ASSUME ~hist.raced PROVE LiveEffects BY DEF LiveEffects
  <2>2. Effects(kernel, hist.want) BY <1>1, <2>1 DEF Inv, EffectInv
  <2>3. \A a \in hist.want.denied : ~Allows(kernel, a) BY <2>2 DEF Effects, Denies, Allows
  <2> QED BY <2>2, <2>3 DEF Effects, LiveEffects
<1> QED BY <1>1, InvHolds, PTL

LEMMA SameChanges ==
  ASSUME NEW pol, NEW stmt PROVE OnlyNamedChanged(pol, pol, stmt)
BY DEF OnlyNamedChanged, Differ

(* A live command changes what its statement names and nothing else, and   *)
(* nothing at all when the statement failed.                               *)
THEOREM LiveCommandIsExact == Spec => LiveExact
<1>1. Inv /\ [Next]_vars =>
        [\A p \in Proc :
           (/\ proc[p].pc = "reload" /\ proc'[p].pc = "exit"
            /\ proc[p].cmd.input = "kernel" /\ ~hist'.raced)
           => /\ OnlyNamedChanged(kernel, kernel', proc[p].cmd.stmt)
              /\ proc[p].r # BXXT_SUCCESS => kernel' = kernel]_vars
  <2> SUFFICES ASSUME Inv, Next, NEW p \in Proc, proc[p].pc = "reload", proc'[p].pc = "exit",
                      proc[p].cmd.input = "kernel", ~hist'.raced
               PROVE  /\ OnlyNamedChanged(kernel, kernel', proc[p].cmd.stmt)
                      /\ proc[p].r # BXXT_SUCCESS => kernel' = kernel
    OBVIOUS
  <2>1. PICK x \in Proc :
          \/ \E cmd \in Command : Start(x, cmd)
          \/ Open(x) \/ Load(x) \/ Execute(x) \/ Save(x) \/ Reload(x) \/ Return(x) \/ Kill(x)
    BY DEF Next
  <2>2. CASE kernel' = kernel BY <2>2, SameChanges
  <2>3. CASE kernel' # kernel
    <3>1. Reload(x) BY <2>1, <2>3 DEF Start, Open, Load, Execute, Save, Return, Kill
    <3>2. x = p
      <4>1. proc' = [proc EXCEPT ![x].pc = "exit"] BY <3>1 DEF Reload, Goto
      <4>2. proc \in [Proc -> {Idle} \union Busy] BY DEF Inv, TypeInv
      <4>3. x # p => proc'[p] = proc[p] BY <4>1, <4>2
      <4> QED BY <4>3
    <3> DEFINE q == proc[p]
               b == q.base
               stmt == q.cmd.stmt
               raced == b \notin {kernel, NoPolicy}
    <3>3. /\ policydb_to_image(q.pdb) /\ kernel' = q.pdb.pol
          /\ \E want : hist' = [hist EXCEPT !.want = want,
                                            !.raced = @ \/ (q.cmd.input = "kernel" /\ raced)]
      BY <2>3, <3>1, <3>2 DEF Reload
    <3>4. /\ b \in Policy
          /\ \E res \in bxxt_sepol_execute_stmt(b, stmt) :
               q.pdb.pol = res.pol /\ q.r = res.r /\ Edited(b, stmt, res)
      BY <3>3, HeldNow
    <3>5. b = kernel
      <4>1. b # NoPolicy BY <3>4, PolicyIsPolicy
      <4>2. ~raced
        <5>1. hist \in Hist BY DEF Inv, TypeInv
        <5>2. DOMAIN hist = {"want", "raced", "torn", "clean", "saved"} BY <5>1 DEF Hist
        <5>3. PICK want : hist' = [hist EXCEPT !.want = want,
                             !.raced = hist.raced \/ (q.cmd.input = "kernel" /\ raced)]
          BY <3>3, Zenon
        <5> HIDE DEF raced
        <5>4. hist'.raced = (hist.raced \/ (q.cmd.input = "kernel" /\ raced)) BY <5>2, <5>3
        <5> QED BY <5>4
      <4> QED BY <4>1, <4>2
    <3>6. PICK res \in bxxt_sepol_execute_stmt(b, stmt) :
            q.pdb.pol = res.pol /\ q.r = res.r /\ Edited(b, stmt, res)
      BY <3>4
    <3> HIDE DEF b, stmt
    <3>7. OnlyNamedChanged(b, res.pol, stmt) /\ (res.r # BXXT_SUCCESS => res.pol = b)
      BY <3>6 DEF Edited
    <3> QED BY <3>3, <3>5, <3>6, <3>7 DEF stmt
  <2> QED BY <2>2, <2>3
<1> QED BY <1>1, InvHolds, PTL DEF Spec, LiveExact

=============================================================================
