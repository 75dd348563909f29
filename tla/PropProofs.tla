------------------------------- MODULE PropProofs -------------------------------
(***************************************************************************)
(* Proofs about Prop, for any set of setters and properties, any layout of *)
(* the mappings and any values: what the setters leave in memory, what a   *)
(* reader gets, and whom the signal of setdebuggable hits.                 *)
(***************************************************************************)
EXTENDS Prop, FiniteSetTheorems, TLAPS

-----------------------------------------------------------------------------
(* The types.                                                              *)

Serials == [len : Cells, count : Nat, dirty : BOOLEAN]
Infos == [serial : Serials, cell : [Cells -> Nat]]
Values == {v \in Seq(Nat) : Len(v) <= PROP_VALUE_MAX}
Places == {<<"", 0>>} \union {Where(n) : n \in Prop}

Found == {"read", "serial", "value", "lookup", "kill"}
Active ==
  [pc : {"find"} \union Found, cmd : Command, at : Places, pid : Pid \union {0},
   gen : Nat, serial : Serials, solo : BOOLEAN]
Reads ==
  [pc : {"serial", "copy", "check", "done"}, prop : Prop, serial : Serials,
   copy : Seq(Nat), vals : SUBSET Values, writes : Nat, inside : BOOLEAN]
Servers == [pid : Pid \union {0}, gen : Nat, seen : Seq(Nat)]
Hists ==
  [val : [Prop -> Values], torn : [Prop -> BOOLEAN], asked : [value : Values, gen : Nat]]

Types ==
  /\ mem \in [Prop -> Infos]
  /\ proc \in [Proc -> {Idle} \union Active]
  /\ reader \in {NoReader} \union Reads
  /\ svc \in [pc : {"idle", "copy"}, prop : Prop]
  /\ server \in Servers /\ other \in Pid \union {0}
  /\ hist \in Hists

-----------------------------------------------------------------------------
(* The inductive invariants.                                               *)

(* A setter that has found its property knows where it is, and its value   *)
(* fits.                                                                   *)
Located ==
  \A p \in Proc : proc[p].pc \in Found =>
    /\ proc[p].cmd.name \in Prop /\ proc[p].cmd.value \in Values
    /\ proc[p].at = Where(proc[p].cmd.name)
    /\ proc[p].pc \in {"lookup", "kill"} => proc[p].cmd.tool = "setdebuggable"

(* The service never updates a read-only property.                         *)
Services == svc.pc = "copy" => svc.prop \in Updated

TypeInv == Types /\ Located /\ Services

(* The characters of a value and its terminator.                           *)
Written(cell, v) ==
  \A i \in Cells : /\ i < Len(v) => cell[i] = v[i + 1]
                   /\ i = Len(v) => cell[i] = NUL

Holds(info, v) ==
  info.serial.len = Len(v) /\ ~info.serial.dirty /\ Written(info.cell, v)

Copying(n) == svc.pc = "copy" /\ svc.prop = n

(* As long as no two writers met and none was interrupted, a property has  *)
(* at most one writer; only that writer's half-done work lies in memory.   *)
Sole(n) ==
  /\ \A p, q \in Setting(n) : p = q
  /\ Copying(n) => Setting(n) = {}
Between(n) ==
  /\ Copying(n) <=> mem[n].serial.dirty
  /\ (~Copying(n) /\ \A p \in Setting(n) : proc[p].pc = "serial")
       => Holds(mem[n], hist.val[n])
Underway(n) ==
  \A p \in Setting(n) :
    /\ proc[p].pc = "serial" => proc[p].serial = NewSerial(mem[n].serial, proc[p].cmd.value)
    /\ proc[p].pc = "value" => mem[n].serial.len = Len(proc[p].cmd.value)

Orderly(n) == Sole(n) /\ Between(n) /\ Underway(n)

CoherentInv == \A n \in Prop : ~hist.torn[n] => Orderly(n)

(* What was noted of a property differs from its serial, and will until    *)
(* the reader looks again.                                                 *)
Stale(n) ==
  \/ reader.serial.count < mem[n].serial.count
  \/ mem[n].serial.dirty
  \/ reader.serial.len # mem[n].serial.len /\ reader.writes = 1 /\ Setting(n) = {}

Noted(n) ==
  reader.pc \in {"copy", "check"} =>
    ~reader.serial.dirty /\ reader.serial.count <= mem[n].serial.count
Changed(n) ==
  reader.pc = "copy" =>
    \/ reader.serial = mem[n].serial \/ reader.serial.count < mem[n].serial.count
    \/ mem[n].serial.dirty \/ reader.writes >= 1
Copied(n) ==
  (reader.pc \in {"check", "done"} /\ reader.writes <= 1 /\ ~reader.inside) =>
    \/ reader.copy \in {Append(v, NUL) : v \in reader.vals}
    \/ reader.pc = "check" /\ Stale(n)

ReadOk(n) ==
  /\ hist.val[n] \in reader.vals
  /\ Setting(n) # {} => reader.writes >= 1
  /\ Noted(n) /\ Changed(n) /\ Copied(n)

ReaderInv == \A n \in Prop : (IsRead(n) /\ ~hist.torn[n]) => ReadOk(n)

(* A setter that is alone has nobody beside it, and has done its work.     *)
Busy(p) == proc[p].pc # "idle" /\ proc[p].cmd.name = Debuggable
Alone ==
  \A p, q \in Proc :
    (proc[p].pc # "idle" /\ proc[q].pc # "idle" /\ proc[p].cmd.name = proc[q].cmd.name
       /\ proc[p].solo) => p = q
Has(info, v) == info.serial.len = Len(v) /\ Written(info.cell, v)
Done(p) ==
  (Busy(p) /\ proc[p].solo) =>
    /\ proc[p].pc = "serial" => proc[p].serial.len = Len(proc[p].cmd.value)
    /\ proc[p].pc = "value" => mem[Debuggable].serial.len = Len(proc[p].cmd.value)
    /\ proc[p].pc \in {"lookup", "kill"} => Has(mem[Debuggable], proc[p].cmd.value)
Effect == \A p \in Proc : Done(p)
Asked ==
  hist.asked # NoAsk =>
    /\ \A p \in Proc : ~Busy(p)
    /\ Has(mem[Debuggable], hist.asked.value)
    /\ server.gen >= hist.asked.gen
    /\ server.pid # 0 => server.gen > hist.asked.gen /\ server.seen = hist.asked.value

RebootInv == Alone /\ Effect /\ Asked

(* The pid that was looked up is the server's as long as that server runs. *)
Target(p) ==
  proc[p].pc = "kill" =>
    /\ proc[p].pid # 0 /\ proc[p].gen <= server.gen
    /\ (server.pid # 0 /\ server.gen = proc[p].gen) => server.pid = proc[p].pid

KillInv == (other # 0 => other # server.pid) /\ \A p \in Proc : Target(p)

-----------------------------------------------------------------------------
(* Where a property is.                                                    *)

Mapping == [start : Nat \ {0}, end : Nat, file : STRING]

LEMMA MapsType ==
  ASSUME NEW i \in DOMAIN Maps
  PROVE  i \in Nat /\ i >= 1 /\ Maps[i] \in Mapping
<1> DEFINE M == Mapping
<1>1. Maps \in Seq(M) BY PropAssumption DEF Mapping
<1> HIDE DEF M
<1>2. i \in Nat /\ i >= 1 /\ Maps[i] \in M BY <1>1
<1> QED BY <1>2 DEF M

(* The mappings do not overlap: an address lies inside at most one.        *)
LEMMA InsideOne ==
  ASSUME NEW a \in Nat, NEW i \in DOMAIN Maps, NEW j \in DOMAIN Maps,
         Inside(a, Maps[i]), Inside(a, Maps[j])
  PROVE  i = j
<1>1. Maps[i] \in Mapping /\ Maps[j] \in Mapping BY MapsType
<1>2. i \in Nat /\ j \in Nat BY MapsType
<1>3. ~(i < j) BY <1>1, PropAssumption DEF Inside, Mapping
<1>4. ~(j < i) BY <1>1, PropAssumption DEF Inside, Mapping
<1> QED BY <1>2, <1>3, <1>4

(* Where, in terms of the mapping that holds the property.                 *)
LEMMA WhereIs ==
  ASSUME NEW n \in Prop, NEW i \in DOMAIN Maps, Inside(Addr[n], Maps[i])
  PROVE  Where(n) = <<Maps[i].file, Addr[n] - Maps[i].start>>
<1> DEFINE S == {Maps[k] : k \in DOMAIN Maps}
           m == CHOOSE m \in S : Inside(Addr[n], m)
<1>1. Addr[n] \in Nat BY PropAssumption
<1>2. m \in S /\ Inside(Addr[n], m) OBVIOUS
<1>3. PICK j \in DOMAIN Maps : m = Maps[j] BY <1>2
<1>4. i = j BY <1>1, <1>2, <1>3, InsideOne
<1> QED BY <1>3, <1>4 DEF Where

(* The scan of bxxt_prop_set, although it takes the end of a mapping as    *)
(* inclusive, finds the mapping of the property ...                        *)
LEMMA ScanFindsPlace ==
  ASSUME NEW n \in Prop, NEW i \in DOMAIN Maps, Scanned(Addr[n], i)
  PROVE  Where(n) = <<Maps[i].file, Addr[n] - Maps[i].start>>
<1>1. Addr[n] \in Nat BY PropAssumption
<1>2. PICK j \in DOMAIN Maps : Inside(Addr[n], Maps[j]) BY PropAssumption
<1>3. Maps[i] \in Mapping /\ Maps[j] \in Mapping BY MapsType
<1>4. i \in Nat /\ j \in Nat /\ j >= 1 BY MapsType
<1>5. ~(j < i)
  <2> SUFFICES ASSUME j < i PROVE FALSE OBVIOUS
  <2>1. j \in 1..(i - 1) BY <1>4
  <2>2. ~bxxt_scan_maps_by_offset_callback(Addr[n], Maps[j]) BY <2>1 DEF Scanned
  <2> QED BY <1>1, <1>2, <1>3, <2>2 DEF Inside, Mapping, bxxt_scan_maps_by_offset_callback
<1>6. ~(i < j)
  <2> SUFFICES ASSUME i < j PROVE FALSE OBVIOUS
  <2>1. Maps[i].end <= Maps[j].start BY PropAssumption
  <2>2. Addr[n] <= Maps[i].end BY DEF Scanned, bxxt_scan_maps_by_offset_callback
  <2> QED BY <1>1, <1>2, <1>3, <2>1, <2>2 DEF Inside, Mapping
<1>7. i = j BY <1>4, <1>5, <1>6
<1> QED BY <1>2, <1>7, WhereIs

(* ... and nothing for a name that does not exist.                         *)
LEMMA ScanFindsNothing ==
  ASSUME NEW i \in DOMAIN Maps PROVE ~Scanned(0, i)
<1>1. Maps[i] \in Mapping BY MapsType
<1> QED BY <1>1 DEF Mapping, Scanned, bxxt_scan_maps_by_offset_callback

(* Two properties are at two places.                                       *)
LEMMA WhereUnique ==
  ASSUME NEW m \in Prop, NEW n \in Prop, Where(m) = Where(n) PROVE m = n
<1>1. PICK i \in DOMAIN Maps : Inside(Addr[m], Maps[i]) BY PropAssumption
<1>2. PICK j \in DOMAIN Maps : Inside(Addr[n], Maps[j]) BY PropAssumption
<1>3. <<Maps[i].file, Addr[m] - Maps[i].start>> = <<Maps[j].file, Addr[n] - Maps[j].start>>
  BY <1>1, <1>2, WhereIs
<1>4. Maps[i].file = Maps[j].file /\ Addr[m] - Maps[i].start = Addr[n] - Maps[j].start
  BY <1>3
<1>5. i = j BY <1>4, PropAssumption
<1>6. Maps[i] \in Mapping BY MapsType
<1>7. Addr[m] \in Nat /\ Addr[n] \in Nat BY PropAssumption
<1>8. Addr[m] = Addr[n] BY <1>4, <1>5, <1>6, <1>7 DEF Mapping
<1> QED BY <1>8, PropAssumption

-----------------------------------------------------------------------------
(* What is written.                                                        *)

LEMMA MaxType == PROP_VALUE_MAX \in Nat /\ PROP_VALUE_MAX >= 1
BY PropAssumption

LEMMA PutType ==
  ASSUME NEW c \in [Cells -> Nat], NEW v \in Seq(Nat)
  PROVE  Put(c, v) \in [Cells -> Nat]
<1> SUFFICES ASSUME NEW i \in Cells
             PROVE  (IF i < Len(v) THEN v[i + 1] ELSE IF i = Len(v) THEN NUL ELSE c[i]) \in Nat
  BY DEF Put
<1>1. i \in Nat BY PropAssumption DEF Cells
<1>2. Len(v) \in Nat OBVIOUS
<1>3. CASE i < Len(v)
  <2>1. i + 1 \in 1..Len(v) BY <1>1, <1>2, <1>3
  <2> QED BY <1>3, <2>1
<1>4. CASE ~(i < Len(v)) BY <1>4 DEF NUL
<1> QED BY <1>3, <1>4

LEMMA PutWritten ==
  ASSUME NEW c, NEW v \in Seq(Nat) PROVE Written(Put(c, v), v)
<1> SUFFICES ASSUME NEW i \in Cells
             PROVE  /\ i < Len(v) => Put(c, v)[i] = v[i + 1]
                    /\ i = Len(v) => Put(c, v)[i] = NUL
  BY DEF Written
<1>1. i \in Nat /\ Len(v) \in Nat BY PropAssumption DEF Cells
<1>2. Put(c, v)[i] = IF i < Len(v) THEN v[i + 1] ELSE IF i = Len(v) THEN NUL ELSE c[i]
  BY DEF Put
<1> QED BY <1>1, <1>2

(* A reader that copies as many cells as the value has characters gets the *)
(* value and its terminator.                                               *)
LEMMA CopyWritten ==
  ASSUME NEW info \in Infos, NEW v \in Values, Written(info.cell, v)
  PROVE  Copy(info, Len(v)) = Append(v, NUL)
<1>1. v \in Seq(Nat) /\ Len(v) \in Nat /\ Len(v) <= PROP_VALUE_MAX BY DEF Values
<1>2. Copy(info, Len(v)) = [i \in 1..(Len(v) + 1) |-> info.cell[i - 1]] BY DEF Copy
<1>3. /\ Append(v, NUL) \in Seq(Nat) /\ Len(Append(v, NUL)) = Len(v) + 1
      /\ \A i \in 1..Len(v) : Append(v, NUL)[i] = v[i]
      /\ Append(v, NUL)[Len(v) + 1] = NUL
  BY <1>1 DEF NUL
<1>4. ASSUME NEW i \in 1..(Len(v) + 1) PROVE info.cell[i - 1] = Append(v, NUL)[i]
  <2>1. i - 1 \in Cells BY <1>1, PropAssumption DEF Cells
  <2>2. CASE i = Len(v) + 1
    <3>1. i - 1 = Len(v) BY <1>1, <2>2
    <3>2. info.cell[i - 1] = NUL BY <2>1, <3>1 DEF Written
    <3> QED BY <1>3, <2>2, <3>2
  <2>3. CASE i # Len(v) + 1
    <3>1. i \in 1..Len(v) /\ i - 1 < Len(v) /\ (i - 1) + 1 = i BY <1>1, <2>3
    <3>2. info.cell[i - 1] = v[(i - 1) + 1] BY <2>1, <3>1 DEF Written
    <3> QED BY <1>3, <3>1, <3>2
  <2> QED BY <2>2, <2>3
<1> DEFINE a == Append(v, NUL)
<1>5. a = [i \in 1..(Len(v) + 1) |-> a[i]]
  <2> HIDE DEF a
  <2>1. a \in Seq(Nat) /\ Len(a) = Len(v) + 1 BY <1>3 DEF a
  <2> QED BY <2>1
<1> QED BY <1>2, <1>4, <1>5

LEMMA CopyType ==
  ASSUME NEW info \in Infos, NEW len \in Cells
  PROVE  /\ Copy(info, len) \in Seq(Nat) /\ Len(Copy(info, len)) = len + 1
         /\ SubSeq(Copy(info, len), 1, len) \in Seq(Nat)
<1>1. len \in Nat BY PropAssumption DEF Cells
<1>2. \A i \in 1..(len + 1) : info.cell[i - 1] \in Nat
  <2> TAKE i \in 1..(len + 1)
  <2>1. i - 1 \in Cells BY PropAssumption DEF Cells
  <2>2. info.cell \in [Cells -> Nat] BY DEF Infos
  <2> QED BY <2>1, <2>2
<1>3. Copy(info, len) \in Seq(Nat) /\ Len(Copy(info, len)) = len + 1
  BY <1>1, <1>2 DEF Copy
<1> QED BY <1>1, <1>3

(* What a server that comes up takes.                                      *)
LEMMA SeenWritten ==
  ASSUME NEW info \in Infos, NEW v \in Values, Written(info.cell, v)
  PROVE  SubSeq(Copy(info, Len(v)), 1, Len(v)) = v
<1>1. v \in Seq(Nat) /\ Len(v) \in Nat BY DEF Values
<1>2. Copy(info, Len(v)) = Append(v, NUL) BY CopyWritten
<1> QED BY <1>1, <1>2 DEF NUL

-----------------------------------------------------------------------------
(* The steps of a setter, field by field.                                  *)

Same(q) == proc'[q] = proc[q]

LEMMA ActiveType ==
  ASSUME NEW r \in {Idle} \union Active
  PROVE  /\ r.pc \in {"idle", "find"} \union Found
         /\ r.pc # "idle" => r \in Active
         /\ r.pc = "idle" => r = Idle
BY DEF Idle, Active, Found

LEMMA LeaveStep ==
  ASSUME Types, NEW p \in Proc, Leave(p)
  PROVE  /\ proc' \in [Proc -> {Idle} \union Active]
         /\ proc'[p].pc = "idle"
         /\ \A q \in Proc \ {p} : Same(q)
<1>1. proc \in [Proc -> {Idle} \union Active] BY DEF Types
<1> QED BY <1>1 DEF Leave, Same, Idle

(* The fields that most steps leave alone.                                 *)
Kept(r, s) == r.cmd = s.cmd /\ r.at = s.at /\ r.pid = s.pid /\ r.gen = s.gen

LEMMA ReplaceStep ==
  ASSUME Types, NEW p \in Proc, NEW r \in Active, proc' = [proc EXCEPT ![p] = r]
  PROVE  /\ proc' \in [Proc -> {Idle} \union Active]
         /\ proc'[p] = r
         /\ \A q \in Proc \ {p} : Same(q)
<1>1. proc \in [Proc -> {Idle} \union Active] BY DEF Types
<1> QED BY <1>1 DEF Same

LEMMA GotoStep ==
  ASSUME Types, NEW p \in Proc, NEW label \in Found, proc[p].pc # "idle", Goto(p, label)
  PROVE  /\ proc' \in [Proc -> {Idle} \union Active]
         /\ proc'[p].pc = label /\ Kept(proc'[p], proc[p])
         /\ proc'[p].serial = proc[p].serial /\ proc'[p].solo = proc[p].solo
         /\ \A q \in Proc \ {p} : Same(q)
<1> DEFINE r == [proc[p] EXCEPT !.pc = label]
<1>1. proc[p] \in Active BY ActiveType DEF Types
<1>2. /\ r \in Active /\ r.pc = label /\ Kept(r, proc[p])
      /\ r.serial = proc[p].serial /\ r.solo = proc[p].solo
  BY <1>1 DEF Active, Kept
<1>3. proc' = [proc EXCEPT ![p] = r] BY DEF Goto
<1> HIDE DEF r
<1> QED BY <1>2, <1>3, ReplaceStep

LEMMA StartStep ==
  ASSUME Types, NEW p \in Proc, NEW cmd \in Command, Start(p, cmd)
  PROVE  /\ proc' \in [Proc -> {Idle} \union Active]
         /\ proc[p].pc = "idle" /\ proc'[p].pc = "find" /\ proc'[p].cmd = cmd
         /\ proc'[p].solo =>
              \A q \in Proc : proc[q].pc # "idle" => proc[q].cmd.name # cmd.name
         /\ \A q \in Proc \ {p} :
              \/ Same(q) /\ (proc[q].pc = "idle" \/ proc[q].cmd.name # cmd.name)
              \/ /\ proc[q].pc # "idle" /\ proc'[q].pc = proc[q].pc
                 /\ Kept(proc'[q], proc[q]) /\ proc'[q].serial = proc[q].serial
                 /\ ~proc'[q].solo
<1> DEFINE met == {q \in Proc : proc[q].pc # "idle" /\ proc[q].cmd.name = cmd.name}
           new == [pc |-> "find", cmd |-> cmd, at |-> <<"", 0>>, pid |-> 0, gen |-> 0,
                   serial |-> mem[Debuggable].serial, solo |-> met = {}]
           F(q) == IF q = p THEN new
                   ELSE IF q \in met THEN [proc[q] EXCEPT !.solo = FALSE] ELSE proc[q]
<1>a. proc[p].pc = "idle" BY Zenon DEF Start
<1>b. proc' = [q \in Proc |-> F(q)] BY Zenon DEF Start
<1>1. proc[p].pc = "idle" /\ proc' = [q \in Proc |-> F(q)] BY Zenon, <1>a, <1>b
<1>2. mem[Debuggable].serial \in Serials BY PropAssumption DEF Types, Infos
<1>3. /\ new \in Active /\ new.pc = "find" /\ new.cmd = cmd
      /\ new.solo = (met = {})
  BY <1>2 DEF Active, Places
<1>4. ASSUME NEW q \in met
      PROVE  /\ [proc[q] EXCEPT !.solo = FALSE] \in Active
             /\ [proc[q] EXCEPT !.solo = FALSE].pc = proc[q].pc
             /\ Kept([proc[q] EXCEPT !.solo = FALSE], proc[q])
             /\ [proc[q] EXCEPT !.solo = FALSE].serial = proc[q].serial
             /\ [proc[q] EXCEPT !.solo = FALSE].solo = FALSE
  <2>1. proc[q] \in Active BY ActiveType DEF Types
  <2> QED BY <2>1 DEF Active, Kept
<1> HIDE DEF new
<1>5. ASSUME NEW q \in Proc PROVE F(q) \in {Idle} \union Active
  BY <1>3, <1>4 DEF Types
<1>6. proc' \in [Proc -> {Idle} \union Active] BY <1>1, <1>5
<1>7. proc'[p] = new BY <1>1
<1>8. ASSUME NEW q \in Proc \ {p}
      PROVE  \/ Same(q) /\ (proc[q].pc = "idle" \/ proc[q].cmd.name # cmd.name)
             \/ /\ proc[q].pc # "idle" /\ proc'[q].pc = proc[q].pc
                /\ Kept(proc'[q], proc[q]) /\ proc'[q].serial = proc[q].serial
                /\ ~proc'[q].solo
  <2>1. CASE q \in met
    <3>1. proc'[q] = [proc[q] EXCEPT !.solo = FALSE] BY <1>1, <2>1
    <3> QED BY <1>4, <2>1, <3>1
  <2>2. CASE q \notin met
    <3>1. proc'[q] = proc[q] BY <1>1, <2>2
    <3> QED BY <2>2, <3>1 DEF Same
  <2> QED BY <2>1, <2>2
<1>9. new.solo => \A q \in Proc : proc[q].pc # "idle" => proc[q].cmd.name # cmd.name
  BY <1>3
<1> QED BY <1>1, <1>3, <1>6, <1>7, <1>8, <1>9

LEMMA FindStep ==
  ASSUME TypeInv, NEW p \in Proc, FindProp(p)
  PROVE  /\ proc[p].pc = "find"
         /\ proc' \in [Proc -> {Idle} \union Active]
         /\ \A q \in Proc \ {p} : Same(q)
         /\ \/ proc'[p].pc = "idle"
            \/ /\ proc'[p].pc = "read" /\ proc[p].cmd.name \in Prop
               /\ proc[p].cmd.value \in Values
               /\ proc'[p].cmd = proc[p].cmd /\ proc'[p].solo = proc[p].solo
               /\ proc'[p].at = Where(proc[p].cmd.name)
<1> DEFINE addr == Find(proc[p].cmd.name)
           value == proc[p].cmd.value
<1>1. proc[p].pc = "find" /\ Types BY DEF FindProp, TypeInv
<1>2. proc[p] \in Active BY <1>1, ActiveType DEF Types
<1>3. CASE Leave(p) BY <1>1, <1>3, LeaveStep
<1>4. ASSUME NEW i \in DOMAIN Maps, Scanned(addr, i), ~TooLong(value),
             proc' = [proc EXCEPT ![p].pc = "read",
                        ![p].at = <<Maps[i].file, addr - Maps[i].start>>]
      PROVE  /\ proc' \in [Proc -> {Idle} \union Active]
             /\ \A q \in Proc \ {p} : Same(q)
             /\ proc'[p].pc = "read" /\ proc[p].cmd.name \in Prop
             /\ proc[p].cmd.value \in Values
             /\ proc'[p].cmd = proc[p].cmd /\ proc'[p].solo = proc[p].solo
             /\ proc'[p].at = Where(proc[p].cmd.name)
  <2> DEFINE at == <<Maps[i].file, addr - Maps[i].start>>
             r == [proc[p] EXCEPT !.pc = "read", !.at = at]
  <2>1. proc[p].cmd.name \in Prop /\ addr = Addr[proc[p].cmd.name]
    BY <1>4, ScanFindsNothing DEF Find
  <2>2. at = Where(proc[p].cmd.name) BY <1>4, <2>1, ScanFindsPlace
  <2>3. proc[p].cmd \in Command BY <1>2 DEF Active
  <2>4. value \in Values
    <3>1. value \in Seq(Nat) BY <2>3, CommandAssumption
    <3>2. Len(value) <= PROP_VALUE_MAX BY <1>4, <3>1, MaxType DEF TooLong
    <3> HIDE DEF value
    <3> QED BY <3>1, <3>2 DEF Values
  <2>5. Where(proc[p].cmd.name) \in Places BY Zenon, <2>1 DEF Places
  <2>6. proc' = [proc EXCEPT ![p] = r] BY <1>4
  <2> HIDE DEF at
  <2>7. r \in Active /\ r.pc = "read" /\ r.cmd = proc[p].cmd /\ r.solo = proc[p].solo
        /\ r.at = at
    BY <1>2, <2>2, <2>5 DEF Active, Found
  <2> HIDE DEF r
  <2> QED BY <1>1, <2>1, <2>2, <2>4, <2>6, <2>7, ReplaceStep
<1> QED BY <1>1, <1>3, <1>4 DEF FindProp

(* A write at the place of one property changes that property only.        *)
LEMMA WriteOne ==
  ASSUME TypeInv, NEW p \in Proc, proc[p].pc \in Found,
         NEW info \in Infos, NEW f, info = f[proc[p].cmd.name],
         mem' = [n \in Prop |-> IF Where(n) = proc[p].at THEN f[n] ELSE mem[n]]
  PROVE  /\ mem' \in [Prop -> Infos]
         /\ mem'[proc[p].cmd.name] = info
         /\ \A n \in Prop \ {proc[p].cmd.name} : mem'[n] = mem[n]
<1> DEFINE m == proc[p].cmd.name
<1>1. m \in Prop /\ proc[p].at = Where(m) BY DEF TypeInv, Located
<1>2. mem \in [Prop -> Infos] BY DEF TypeInv, Types
<1>3. ASSUME NEW n \in Prop, n # m PROVE Where(n) # proc[p].at
  BY <1>1, <1>3, WhereUnique
<1>4. mem'[m] = info BY <1>1
<1>5. ASSUME NEW n \in Prop, n # m PROVE mem'[n] = mem[n] BY <1>3, <1>5
<1>6. ASSUME NEW n \in Prop
      PROVE  (IF Where(n) = proc[p].at THEN f[n] ELSE mem[n]) \in Infos
  <2>1. CASE n = m BY <1>1, <2>1
  <2>2. CASE n # m BY <1>2, <1>3, <2>2
  <2> QED BY <2>1, <2>2
<1> QED BY <1>4, <1>5, <1>6

LEMMA NewSerialType ==
  ASSUME NEW s \in Serials, NEW v \in Values
  PROVE  /\ NewSerial(s, v) \in Serials /\ NewSerial(s, v).len = Len(v)
         /\ NewSerial(s, v).count = s.count /\ NewSerial(s, v).dirty = s.dirty
<1>1. Len(v) \in Cells BY PropAssumption DEF Values, Cells
<1> QED BY <1>1 DEF NewSerial, Serials

LEMMA ReadSerialStep ==
  ASSUME TypeInv, NEW p \in Proc, ReadSerial(p)
  PROVE  LET n == proc[p].cmd.name IN
         /\ proc[p].pc = "read" /\ n \in Prop
         /\ proc' \in [Proc -> {Idle} \union Active]
         /\ \A q \in Proc \ {p} : Same(q)
         /\ proc'[p].pc = "serial" /\ Kept(proc'[p], proc[p])
         /\ proc'[p].solo = proc[p].solo
         /\ proc'[p].serial = NewSerial(mem[n].serial, proc[p].cmd.value)
<1> DEFINE n == proc[p].cmd.name
           s == NewSerial(mem[n].serial, proc[p].cmd.value)
           r == [proc[p] EXCEPT !.pc = "serial", !.serial = s]
<1>1. /\ proc[p].pc = "read" /\ Types
      /\ proc' = [proc EXCEPT ![p] = r]
  BY DEF ReadSerial, TypeInv
<1>2. proc[p] \in Active BY <1>1, ActiveType DEF Types
<1>3. n \in Prop /\ proc[p].cmd.value \in Values BY <1>1 DEF TypeInv, Located, Found
<1>4. mem[n].serial \in Serials BY <1>1, <1>3 DEF Types, Infos
<1>5. s \in Serials BY <1>3, <1>4, NewSerialType
<1> HIDE DEF s
<1>6. r \in Active /\ r.pc = "serial" /\ Kept(r, proc[p]) /\ r.solo = proc[p].solo /\ r.serial = s
  BY <1>2, <1>5 DEF Active, Kept, Found
<1> HIDE DEF r
<1>7. /\ proc' \in [Proc -> {Idle} \union Active]
      /\ proc'[p] = r
      /\ \A q \in Proc \ {p} : Same(q)
  BY <1>1, <1>6, ReplaceStep
<1> QED BY <1>1, <1>3, <1>6, <1>7 DEF s

LEMMA WriteSerialStep ==
  ASSUME TypeInv, NEW p \in Proc, WriteSerial(p)
  PROVE  LET n == proc[p].cmd.name IN
         /\ proc[p].pc = "serial" /\ n \in Prop
         /\ proc' \in [Proc -> {Idle} \union Active]
         /\ \A q \in Proc \ {p} : Same(q)
         /\ proc'[p].pc = "value" /\ Kept(proc'[p], proc[p])
         /\ mem' \in [Prop -> Infos]
         /\ \A m \in Prop \ {n} : mem'[m] = mem[m]
         /\ \/ /\ mem'[n].serial = proc[p].serial /\ mem'[n].cell = mem[n].cell
               /\ proc'[p].solo = proc[p].solo
               /\ hist' = hist
            \/ /\ mem'[n] = mem[n] /\ ~proc'[p].solo
               /\ hist' = [hist EXCEPT !.torn[n] = TRUE]
<1> DEFINE n == proc[p].cmd.name
<1>1. proc[p].pc = "serial" /\ Types /\ "value" \in Found BY DEF WriteSerial, TypeInv, Found
<1>2. proc[p] \in Active BY <1>1, ActiveType DEF Types
<1>3. n \in Prop BY <1>1 DEF TypeInv, Located, Found
<1>4. CASE /\ mem' = [m \in Prop |-> IF Where(m) = proc[p].at
                        THEN [mem[m] EXCEPT !.serial = proc[p].serial] ELSE mem[m]]
           /\ Goto(p, "value")
           /\ UNCHANGED <<left, hist>>
  <2> DEFINE info == [mem[n] EXCEPT !.serial = proc[p].serial]
             f == [m \in Prop |-> [mem[m] EXCEPT !.serial = proc[p].serial]]
  <2>1. mem[n] \in Infos /\ proc[p].serial \in Serials
    BY <1>2, <1>3 DEF TypeInv, Types, Active
  <2>2. info \in Infos /\ info.serial = proc[p].serial /\ info.cell = mem[n].cell
    BY <2>1 DEF Infos
  <2>3. mem' = [m \in Prop |-> IF Where(m) = proc[p].at THEN f[m] ELSE mem[m]]
    BY <1>4
  <2>4. proc[p].pc \in Found /\ info = f[n] BY <1>1, <1>3 DEF Found
  <2> HIDE DEF f, info
  <2>5. /\ mem' \in [Prop -> Infos] /\ mem'[n] = info
        /\ \A m \in Prop \ {n} : mem'[m] = mem[m]
    BY <2>2, <2>3, <2>4, WriteOne
  <2>6. /\ proc' \in [Proc -> {Idle} \union Active]
        /\ proc'[p].pc = "value" /\ Kept(proc'[p], proc[p])
        /\ proc'[p].solo = proc[p].solo
        /\ \A q \in Proc \ {p} : Same(q)
    BY <1>1, <1>4, GotoStep
  <2> QED BY <1>1, <1>3, <1>4, <2>2, <2>5, <2>6
<1>5. CASE /\ hist' = [hist EXCEPT !.torn[proc[p].cmd.name] = TRUE]
           /\ proc' = [proc EXCEPT ![p].pc = "value", ![p].solo = FALSE]
           /\ UNCHANGED mem
  <2> DEFINE r == [proc[p] EXCEPT !.pc = "value", !.solo = FALSE]
  <2>1. proc' = [proc EXCEPT ![p] = r] BY <1>5
  <2>2. r \in Active /\ r.pc = "value" /\ Kept(r, proc[p]) /\ ~r.solo
    BY <1>2 DEF Active, Kept, Found
  <2> HIDE DEF r
  <2>3. /\ proc' \in [Proc -> {Idle} \union Active]
        /\ proc'[p] = r
        /\ \A q \in Proc \ {p} : Same(q)
    BY <1>1, <2>1, <2>2, ReplaceStep
  <2> QED BY <1>1, <1>3, <1>5, <2>2, <2>3 DEF Types
<1> QED BY <1>4, <1>5 DEF WriteSerial

LEMMA WriteValueStep ==
  ASSUME TypeInv, NEW p \in Proc, WriteValue(p)
  PROVE  LET n == proc[p].cmd.name IN
         /\ proc[p].pc = "value" /\ n \in Prop /\ proc[p].cmd.value \in Values
         /\ proc' \in [Proc -> {Idle} \union Active]
         /\ \A q \in Proc \ {p} : Same(q)
         /\ mem' \in [Prop -> Infos]
         /\ \A m \in Prop \ {n} : mem'[m] = mem[m]
         /\ \/ proc'[p].pc = "idle"
            \/ /\ proc'[p].pc = "lookup" /\ Kept(proc'[p], proc[p])
               /\ proc[p].cmd.tool = "setdebuggable"
               /\ proc'[p].solo = proc[p].solo
         /\ \/ /\ mem'[n].serial = mem[n].serial
               /\ Written(mem'[n].cell, proc[p].cmd.value)
               /\ hist' = [hist EXCEPT !.val[n] = proc[p].cmd.value]
               /\ NoteEnd(n, proc[p].cmd.value)
            \/ /\ mem'[n] = mem[n] /\ proc'[p].pc = "idle"
               /\ hist' = [hist EXCEPT !.torn[n] = TRUE]
               /\ reader' = reader
<1> DEFINE n == proc[p].cmd.name
           v == proc[p].cmd.value
<1>1. proc[p].pc = "value" /\ Types /\ "lookup" \in Found BY DEF WriteValue, TypeInv, Found
<1>3. n \in Prop /\ v \in Values BY <1>1 DEF TypeInv, Located, Found
<1>4. CASE /\ mem' = [m \in Prop |-> IF Where(m) = proc[p].at
                        THEN [mem[m] EXCEPT !.cell = Put(@, v)] ELSE mem[m]]
           /\ hist' = [hist EXCEPT !.val[n] = v]
           /\ NoteEnd(n, v)
           /\ AfterSet(p, 0)
  <2> DEFINE info == [mem[n] EXCEPT !.cell = Put(mem[n].cell, v)]
             f == [m \in Prop |-> [mem[m] EXCEPT !.cell = Put(mem[m].cell, v)]]
  <2>1. mem[n] \in Infos /\ v \in Seq(Nat) BY <1>3 DEF TypeInv, Types, Values
  <2>2. Put(mem[n].cell, v) \in [Cells -> Nat] BY <2>1, PutType DEF Infos
  <2>3. info \in Infos /\ info.serial = mem[n].serial /\ info.cell = Put(mem[n].cell, v)
    BY <2>1, <2>2 DEF Infos
  <2>4. Written(info.cell, v) BY <2>1, <2>3, PutWritten
  <2>5. mem' = [m \in Prop |-> IF Where(m) = proc[p].at THEN f[m] ELSE mem[m]]
    BY <1>4
  <2>6. proc[p].pc \in Found /\ info = f[n] BY <1>1, <1>3 DEF Found
  <2> HIDE DEF f, info
  <2>7. /\ mem' \in [Prop -> Infos] /\ mem'[n] = info
        /\ \A m \in Prop \ {n} : mem'[m] = mem[m]
    BY <2>3, <2>5, <2>6, WriteOne
  <2>8. CASE proc[p].cmd.tool = "setdebuggable"
    <3>1. Goto(p, "lookup") BY <1>4, <2>8 DEF AfterSet
    <3>2. /\ proc' \in [Proc -> {Idle} \union Active]
          /\ proc'[p].pc = "lookup" /\ Kept(proc'[p], proc[p])
          /\ proc'[p].solo = proc[p].solo
          /\ \A q \in Proc \ {p} : Same(q)
      BY <1>1, <3>1, GotoStep
    <3> QED BY <1>1, <1>3, <1>4, <2>3, <2>4, <2>7, <2>8, <3>2
  <2>9. CASE proc[p].cmd.tool # "setdebuggable"
    <3>1. Leave(p) BY <1>4, <2>9 DEF AfterSet
    <3> QED BY <1>1, <1>3, <1>4, <2>3, <2>4, <2>7, <3>1, LeaveStep
  <2> QED BY <2>8, <2>9
<1>5. CASE /\ hist' = [hist EXCEPT !.torn[n] = TRUE]
           /\ AfterSet(p, 1)
           /\ UNCHANGED <<mem, reader>>
  <2>1. Leave(p) BY <1>5 DEF AfterSet
  <2> QED BY <1>1, <1>3, <1>5, <2>1, LeaveStep DEF Types
<1> QED BY <1>4, <1>5 DEF WriteValue

LEMMA LookupStep ==
  ASSUME TypeInv, NEW p \in Proc, Lookup(p)
  PROVE  /\ proc[p].pc = "lookup"
         /\ proc' \in [Proc -> {Idle} \union Active]
         /\ \A q \in Proc \ {p} : Same(q)
         /\ \/ proc'[p].pc = "idle"
            \/ /\ proc'[p].pc = "kill" /\ server.pid # 0
               /\ proc'[p].pid = server.pid /\ proc'[p].gen = server.gen
               /\ proc'[p].cmd = proc[p].cmd /\ proc'[p].at = proc[p].at
               /\ proc'[p].solo = proc[p].solo
<1>1. proc[p].pc = "lookup" /\ Types BY Zenon DEF Lookup, TypeInv
<1>2. proc[p] \in Active BY <1>1, ActiveType DEF Types
<1>3. CASE Leave(p) BY <1>1, <1>3, LeaveStep
<1>4. ASSUME NEW pid \in bxxt_get_pid_by_cmdline,
             proc' = [proc EXCEPT ![p].pc = "kill", ![p].pid = pid, ![p].gen = server.gen]
      PROVE  /\ proc' \in [Proc -> {Idle} \union Active]
             /\ \A q \in Proc \ {p} : Same(q)
             /\ proc'[p].pc = "kill" /\ server.pid # 0
             /\ proc'[p].pid = server.pid /\ proc'[p].gen = server.gen
             /\ proc'[p].cmd = proc[p].cmd /\ proc'[p].at = proc[p].at
             /\ proc'[p].solo = proc[p].solo
  <2> DEFINE r == [proc[p] EXCEPT !.pc = "kill", !.pid = pid, !.gen = server.gen]
  <2>1. proc' = [proc EXCEPT ![p] = r] BY <1>4
  <2>2. pid = server.pid /\ server.pid # 0 BY DEF bxxt_get_pid_by_cmdline
  <2>3. pid \in Pid \union {0} /\ server.gen \in Nat BY <1>1, <2>2 DEF Types, Servers
  <2>4. /\ r \in Active /\ r.pc = "kill" /\ r.pid = pid /\ r.gen = server.gen
        /\ r.cmd = proc[p].cmd /\ r.at = proc[p].at /\ r.solo = proc[p].solo
    BY <1>2, <2>3 DEF Active, Found
  <2> HIDE DEF r
  <2> QED BY <1>1, <2>1, <2>2, <2>4, ReplaceStep
<1> QED BY Zenon, <1>1, <1>3, <1>4 DEF Lookup

-----------------------------------------------------------------------------
(* Type correctness.                                                       *)

LEMMA InitTypeInv == Init => TypeInv
<1> SUFFICES ASSUME Init PROVE TypeInv OBVIOUS
<1>1. <<1>> \in Values /\ << >> \in Values
  <2>1. <<1>> \in Seq(Nat) /\ Len(<<1>>) = 1 /\ << >> \in Seq(Nat) /\ Len(<< >>) = 0 OBVIOUS
  <2> QED BY <2>1, MaxType DEF Values
<1>2. Info(<<1>>) \in Infos
  <2> DEFINE c == [i \in Cells |-> IF i = PROP_VALUE_MAX THEN NameChar ELSE NUL]
             d == Put(c, <<1>>)
  <2>1. c \in [Cells -> Nat] BY PropAssumption DEF NUL
  <2>2. <<1>> \in Seq(Nat) /\ Len(<<1>>) = 1 OBVIOUS
  <2> HIDE DEF c
  <2>3. d \in [Cells -> Nat] BY <2>1, <2>2, PutType
  <2> DEFINE s == [len |-> 1, count |-> 0, dirty |-> FALSE]
  <2>4. Info(<<1>>) = [serial |-> s, cell |-> d] BY <2>2 DEF Info, c
  <2>5. 1 \in Cells BY MaxType DEF Cells
  <2>6. s \in Serials BY <2>5 DEF Serials
  <2> HIDE DEF d, s
  <2> QED BY <2>3, <2>4, <2>6 DEF Infos
<1>3. mem \in [Prop -> Infos] BY <1>2 DEF Init
<1>4. proc \in [Proc -> {Idle} \union Active] /\ reader = NoReader BY DEF Init
<1>5. svc = NoSvc /\ svc \in [pc : {"idle", "copy"}, prop : Prop]
  BY PropAssumption DEF Init, NoSvc
<1>6. server \in Servers /\ other \in Pid \union {0}
  <2> DEFINE pid == CHOOSE x \in Pid : TRUE
  <2>1. pid \in Pid BY CommandAssumption
  <2>2. server = Up(pid, 1, <<1>>) /\ other = 0 BY DEF Init
  <2> HIDE DEF pid
  <2> QED BY <2>1, <2>2 DEF Up, Servers
<1>7. hist \in Hists
  <2>1. hist = [val |-> [n \in Prop |-> <<1>>], torn |-> [n \in Prop |-> FALSE], asked |-> NoAsk]
    BY DEF Init
  <2>2. [n \in Prop |-> <<1>>] \in [Prop -> Values] BY <1>1
  <2>3. [n \in Prop |-> FALSE] \in [Prop -> BOOLEAN] OBVIOUS
  <2>4. NoAsk \in [value : Values, gen : Nat] BY <1>1 DEF NoAsk
  <2> QED BY <2>1, <2>2, <2>3, <2>4 DEF Hists
<1>8. Types BY <1>3, <1>4, <1>5, <1>6, <1>7 DEF Types
<1>9. \A p \in Proc : proc[p].pc = "idle" BY DEF Init, Idle
<1>10. Located BY <1>9 DEF Located, Found
<1>11. Services BY <1>5 DEF Services, NoSvc
<1> QED BY <1>8, <1>10, <1>11 DEF TypeInv

(* The history of a property changes at that property only.                *)
LEMMA TornStep ==
  ASSUME hist \in Hists, NEW n \in Prop, NEW b \in BOOLEAN,
         hist' = [hist EXCEPT !.torn[n] = b]
  PROVE  /\ hist' \in Hists /\ hist'.torn[n] = b
         /\ hist'.val = hist.val /\ hist'.asked = hist.asked
         /\ \A m \in Prop \ {n} : hist'.torn[m] = hist.torn[m]
BY DEF Hists

LEMMA ValStep ==
  ASSUME hist \in Hists, NEW n \in Prop, NEW v \in Values,
         hist' = [hist EXCEPT !.val[n] = v]
  PROVE  /\ hist' \in Hists /\ hist'.val[n] = v
         /\ hist'.torn = hist.torn /\ hist'.asked = hist.asked
         /\ \A m \in Prop \ {n} : hist'.val[m] = hist.val[m]
BY DEF Hists

LEMMA AskStep ==
  ASSUME hist \in Hists, NEW a \in [value : Values, gen : Nat],
         hist' = [hist EXCEPT !.asked = a]
  PROVE  /\ hist' \in Hists /\ hist'.asked = a
         /\ hist'.torn = hist.torn /\ hist'.val = hist.val
BY DEF Hists

LEMMA ReadsType ==
  ASSUME reader \in {NoReader} \union Reads
  PROVE  /\ reader.pc \in {"idle", "serial", "copy", "check", "done"}
         /\ reader.pc # "idle" => reader \in Reads
BY DEF NoReader, Reads

LEMMA NoteBeginStep ==
  ASSUME reader \in {NoReader} \union Reads, NEW n \in Prop, NoteBegin(n)
  PROVE  /\ reader' \in {NoReader} \union Reads
         /\ ~IsRead(n) => reader' = reader
         /\ IsRead(n) => /\ reader'.writes = reader.writes + 1 /\ reader'.vals = reader.vals
                         /\ reader'.pc = reader.pc /\ reader'.prop = reader.prop
                         /\ reader'.serial = reader.serial /\ reader'.copy = reader.copy
                         /\ reader'.inside = reader.inside
<1>1. CASE ~IsRead(n) BY <1>1 DEF NoteBegin
<1>2. CASE IsRead(n)
  <2>1. reader \in Reads BY <1>2, ReadsType DEF IsRead
  <2>2. reader' = [reader EXCEPT !.writes = @ + 1] BY <1>2 DEF NoteBegin
  <2> QED BY <1>2, <2>1, <2>2 DEF Reads
<1> QED BY <1>1, <1>2

LEMMA NoteEndStep ==
  ASSUME reader \in {NoReader} \union Reads, NEW n \in Prop, NEW v \in Values, NoteEnd(n, v)
  PROVE  /\ reader' \in {NoReader} \union Reads
         /\ ~IsRead(n) => reader' = reader
         /\ IsRead(n) => /\ reader'.vals = reader.vals \union {v}
                         /\ reader'.pc = reader.pc /\ reader'.prop = reader.prop
                         /\ reader'.serial = reader.serial /\ reader'.copy = reader.copy
                         /\ reader'.inside = reader.inside /\ reader'.writes = reader.writes
<1>1. CASE ~IsRead(n) BY <1>1 DEF NoteEnd
<1>2. CASE IsRead(n)
  <2>1. reader \in Reads BY <1>2, ReadsType DEF IsRead
  <2>2. reader' = [reader EXCEPT !.vals = @ \union {v}] BY <1>2 DEF NoteEnd
  <2> QED BY <1>2, <2>1, <2>2 DEF Reads
<1> QED BY <1>1, <1>2

LEMMA UpdateBeginStep ==
  ASSUME Types, NEW n \in Prop, UpdateBegin(n)
  PROVE  /\ mem' \in [Prop -> Infos]
         /\ \A m \in Prop \ {n} : mem'[m] = mem[m]
         /\ mem'[n].serial.dirty = TRUE /\ mem'[n].serial.len = mem[n].serial.len
         /\ mem'[n].serial.count = mem[n].serial.count /\ mem'[n].cell = mem[n].cell
         /\ svc.pc = "idle" /\ svc' = [pc |-> "copy", prop |-> n]
         /\ svc' \in [pc : {"idle", "copy"}, prop : Prop]
<1> DEFINE s == [mem[n].serial EXCEPT !.dirty = TRUE]
           info == [mem[n] EXCEPT !.serial = s]
<1>1. mem \in [Prop -> Infos] /\ mem[n] \in Infos BY DEF Types
<1>2. mem[n].serial \in Serials BY <1>1 DEF Infos
<1>3. /\ s \in Serials /\ s.dirty = TRUE /\ s.len = mem[n].serial.len
      /\ s.count = mem[n].serial.count
  BY <1>2 DEF Serials
<1>4. mem' = [mem EXCEPT ![n] = info] BY DEF UpdateBegin
<1> HIDE DEF s
<1>5. info \in Infos /\ info.serial = s /\ info.cell = mem[n].cell BY <1>1, <1>3 DEF Infos
<1> HIDE DEF info
<1>6. /\ mem' \in [Prop -> Infos] /\ mem'[n] = info
      /\ \A m \in Prop \ {n} : mem'[m] = mem[m]
  BY <1>1, <1>4, <1>5
<1>7. svc.pc = "idle" /\ svc' = [pc |-> "copy", prop |-> n] BY DEF UpdateBegin
<1> QED BY <1>3, <1>5, <1>6, <1>7

LEMMA NewValueType == NewValue \in Values /\ NewValue \in Seq(Nat) /\ Len(NewValue) \in Cells
<1>1. NewValue \in Seq(Nat) BY CommandAssumption
<1>2. Len(NewValue) <= PROP_VALUE_MAX BY CommandAssumption, MaxType, <1>1
<1> QED BY <1>1, <1>2, MaxType DEF Values, Cells

LEMMA UpdateEndStep ==
  ASSUME Types, UpdateEnd
  PROVE  LET n == svc.prop IN
         /\ svc.pc = "copy" /\ n \in Prop
         /\ mem' \in [Prop -> Infos]
         /\ \A m \in Prop \ {n} : mem'[m] = mem[m]
         /\ Holds(mem'[n], NewValue) /\ mem'[n].serial.count = mem[n].serial.count + 1
         /\ hist' = [hist EXCEPT !.val[n] = NewValue]
         /\ NoteEnd(n, NewValue)
         /\ svc' = NoSvc /\ svc' \in [pc : {"idle", "copy"}, prop : Prop] /\ svc'.pc = "idle"
<1> DEFINE n == svc.prop
           c == Put(mem[n].cell, NewValue)
           s == [len |-> Len(NewValue), count |-> mem[n].serial.count + 1, dirty |-> FALSE]
           info == [mem[n] EXCEPT !.cell = c, !.serial = s]
<1>1. n \in Prop BY DEF Types
<1>2. mem \in [Prop -> Infos] /\ mem[n] \in Infos BY <1>1 DEF Types
<1>3. mem[n].serial \in Serials /\ mem[n].cell \in [Cells -> Nat] BY <1>2 DEF Infos
<1>4. /\ s \in Serials /\ s.dirty = FALSE /\ s.len = Len(NewValue)
      /\ s.count = mem[n].serial.count + 1
  BY <1>3, NewValueType DEF Serials
<1>5. c \in [Cells -> Nat] /\ Written(c, NewValue)
  BY <1>3, NewValueType, PutType, PutWritten
<1>6. mem' = [mem EXCEPT ![n].cell = c, ![n].serial = s] BY DEF UpdateEnd
<1> HIDE DEF s, c
<1>8. mem' = [mem EXCEPT ![n] = info] BY <1>1, <1>2, <1>6
<1>9. info \in Infos /\ info.serial = s /\ info.cell = c BY <1>2, <1>4, <1>5 DEF Infos
<1> HIDE DEF info
<1>10. /\ mem' \in [Prop -> Infos] /\ mem'[n] = info
       /\ \A m \in Prop \ {n} : mem'[m] = mem[m]
  BY <1>1, <1>2, <1>8, <1>9
<1>11. /\ svc.pc = "copy" /\ hist' = [hist EXCEPT !.val[n] = NewValue]
       /\ NoteEnd(n, NewValue) /\ svc' = NoSvc
  BY DEF UpdateEnd
<1>12. svc' \in [pc : {"idle", "copy"}, prop : Prop] /\ svc'.pc = "idle"
  BY <1>11, PropAssumption DEF NoSvc
<1> QED BY <1>1, <1>4, <1>5, <1>9, <1>10, <1>11, <1>12 DEF Holds

LEMMA KillStep ==
  ASSUME TypeInv, NEW p \in Proc, KillServer(p)
  PROVE  /\ proc[p].pc = "kill" /\ proc[p].cmd.name = Debuggable
         /\ proc[p].cmd.value \in Values
         /\ proc' \in [Proc -> {Idle} \union Active] /\ proc'[p].pc = "idle"
         /\ \A q \in Proc \ {p} : Same(q)
         /\ server' \in Servers /\ server'.gen = server.gen /\ server'.seen = server.seen
         /\ server'.pid = IF proc[p].pid = server.pid THEN 0 ELSE server.pid
         /\ other' = (IF proc[p].pid = other THEN 0 ELSE other) /\ other' \in Pid \union {0}
         /\ hist' \in Hists /\ hist'.val = hist.val /\ hist'.torn = hist.torn
         /\ \/ /\ proc[p].pid = server.pid /\ proc[p].solo
               /\ hist'.asked = [value |-> proc[p].cmd.value, gen |-> server.gen]
            \/ hist'.asked = NoAsk
<1> DEFINE v == proc[p].cmd.value
           ask == [value |-> v, gen |-> server.gen]
<1>1. proc[p].pc = "kill" /\ Types /\ Leave(p) BY DEF KillServer, TypeInv
<1>2. proc[p] \in Active BY <1>1, ActiveType DEF Types
<1>3. v \in Values /\ proc[p].cmd.tool = "setdebuggable" /\ proc[p].cmd \in Command
  BY <1>1, <1>2 DEF TypeInv, Located, Found, Active
<1>4. proc[p].cmd.name = Debuggable BY <1>3, CommandAssumption
<1>5. server' = IF proc[p].pid = server.pid THEN [server EXCEPT !.pid = 0] ELSE server
  BY DEF KillServer
<1>6. server \in Servers /\ other \in Pid \union {0} /\ hist \in Hists BY <1>1 DEF Types
<1>7. /\ server' \in Servers /\ server'.gen = server.gen /\ server'.seen = server.seen
      /\ server'.pid = IF proc[p].pid = server.pid THEN 0 ELSE server.pid
  BY <1>5, <1>6 DEF Servers
<1>8. other' = (IF proc[p].pid = other THEN 0 ELSE other) BY DEF KillServer
<1>9. other' \in Pid \union {0} BY <1>6, <1>8
<1>10. ask \in [value : Values, gen : Nat] BY <1>3, <1>6 DEF Servers
<1>11. NoAsk \in [value : Values, gen : Nat]
  <2>1. << >> \in Seq(Nat) /\ Len(<< >>) = 0 OBVIOUS
  <2>2. << >> \in Values BY <2>1, MaxType DEF Values
  <2> QED BY <2>2 DEF NoAsk
<1>12. \/ /\ proc[p].pid = server.pid /\ proc[p].solo
          /\ hist' = [hist EXCEPT !.asked = ask]
       \/ hist' = [hist EXCEPT !.asked = NoAsk]
  BY DEF KillServer
<1> HIDE DEF ask
<1>13. /\ hist' \in Hists /\ hist'.val = hist.val /\ hist'.torn = hist.torn
       /\ \/ proc[p].pid = server.pid /\ proc[p].solo /\ hist'.asked = ask
          \/ hist'.asked = NoAsk
  BY <1>6, <1>10, <1>11, <1>12, AskStep
<1>14. /\ proc' \in [Proc -> {Idle} \union Active] /\ proc'[p].pc = "idle"
       /\ \A q \in Proc \ {p} : Same(q)
  BY <1>1, LeaveStep
<1> QED BY <1>1, <1>3, <1>4, <1>7, <1>8, <1>9, <1>13, <1>14 DEF ask

LEMMA InterruptStep ==
  ASSUME TypeInv, NEW p \in Proc, Interrupt(p)
  PROVE  /\ proc' \in [Proc -> {Idle} \union Active] /\ proc'[p].pc = "idle"
         /\ \A q \in Proc \ {p} : Same(q)
         /\ hist' \in Hists /\ hist'.val = hist.val /\ hist'.asked = hist.asked
         /\ \A n \in Prop : ~hist'.torn[n] =>
              ~hist.torn[n] /\ ~(proc[p].pc = "value" /\ proc[p].cmd.name = n)
         /\ proc[p].pc # "idle"
<1>1. Types /\ Leave(p) /\ hist \in Hists /\ proc[p].pc # "idle" BY DEF Interrupt, TypeInv, Types
<1>2. /\ proc' \in [Proc -> {Idle} \union Active] /\ proc'[p].pc = "idle"
      /\ \A q \in Proc \ {p} : Same(q)
  BY <1>1, LeaveStep
<1>3. CASE proc[p].pc = "value"
  <2> DEFINE n == proc[p].cmd.name
  <2>1. n \in Prop BY <1>3 DEF TypeInv, Located, Found
  <2>2. hist' = [hist EXCEPT !.torn[n] = TRUE] BY <1>3 DEF Interrupt
  <2>3. /\ hist' \in Hists /\ hist'.torn[n] = TRUE
        /\ hist'.val = hist.val /\ hist'.asked = hist.asked
        /\ \A m \in Prop \ {n} : hist'.torn[m] = hist.torn[m]
    BY <1>1, <2>1, <2>2, TornStep
  <2> QED BY <1>1, <1>2, <2>3
<1>4. CASE proc[p].pc # "value"
  <2>1. hist' = hist BY <1>4 DEF Interrupt
  <2> QED BY <1>1, <1>2, <1>4, <2>1
<1> QED BY <1>3, <1>4

(* A command that begins forgets what was asked for.                       *)
LEMMA StartAsk ==
  ASSUME Types, NEW p \in Proc, NEW cmd \in Command, Start(p, cmd)
  PROVE  /\ hist' \in Hists /\ hist'.val = hist.val /\ hist'.torn = hist.torn
         /\ IF cmd.name = Debuggable THEN hist'.asked = NoAsk ELSE hist'.asked = hist.asked
<1> DEFINE a == IF cmd.name = Debuggable THEN NoAsk ELSE hist.asked
<1>1. hist' = [hist EXCEPT !.asked = a] BY Zenon DEF Start
<1>2. hist \in Hists BY DEF Types
<1>3. << >> \in Values
  <2>1. << >> \in Seq(Nat) /\ Len(<< >>) = 0 OBVIOUS
  <2> QED BY <2>1, MaxType DEF Values
<1>4. a \in [value : Values, gen : Nat] BY <1>2, <1>3 DEF Hists, NoAsk
<1> HIDE DEF a
<1>5. /\ hist' \in Hists /\ hist'.asked = a
      /\ hist'.torn = hist.torn /\ hist'.val = hist.val
  BY <1>1, <1>2, <1>4, AskStep
<1> QED BY <1>5 DEF a

LEMMA SettingFinite ==
  ASSUME NEW n
  PROVE  /\ Cardinality(Setting(n)) \in Nat
         /\ Setting(n) # {} => Cardinality(Setting(n)) >= 1
<1>1. Setting(n) \subseteq Proc BY DEF Setting
<1>2. IsFiniteSet(Setting(n)) BY <1>1, FS_Subset, PropAssumption
<1>3. Cardinality(Setting(n)) \in Nat BY <1>2, FS_CardinalityType
<1>4. Cardinality(Setting(n)) = 0 <=> Setting(n) = {} BY <1>2, FS_EmptySet
<1> QED BY <1>3, <1>4

LEMMA ReadBeginStep ==
  ASSUME Types, NEW n \in Prop, ReadBegin(n)
  PROVE  /\ reader' \in Reads
         /\ reader'.pc = "serial" /\ reader'.prop = n /\ reader'.vals = {hist.val[n]}
         /\ reader'.writes = Cardinality(Setting(n))
<1>1. reader' = [pc |-> "serial", prop |-> n, serial |-> mem[n].serial, copy |-> << >>,
                 vals |-> {hist.val[n]}, writes |-> Cardinality(Setting(n)), inside |-> FALSE]
  BY DEF ReadBegin
<1>2. mem[n].serial \in Serials BY DEF Types, Infos
<1>3. {hist.val[n]} \in SUBSET Values BY DEF Types, Hists
<1>4. Cardinality(Setting(n)) \in Nat BY SettingFinite
<1>5. << >> \in Seq(Nat) OBVIOUS
<1> QED BY <1>1, <1>2, <1>3, <1>4, <1>5 DEF Reads

LEMMA ReadingStep ==
  ASSUME Types, Reading
  PROVE  /\ reader' \in {NoReader} \union Reads
         /\ \/ reader'.pc = "idle"
            \/ /\ reader \in Reads /\ reader'.prop = reader.prop /\ reader'.vals = reader.vals
               /\ reader'.writes = reader.writes
               /\ \/ /\ reader'.pc = "copy" /\ ~mem[reader.prop].serial.dirty
                     /\ reader'.serial = mem[reader.prop].serial
                  \/ /\ reader.pc = "copy" /\ reader'.pc = "check"
                     /\ reader'.serial = reader.serial
                     /\ reader'.inside = (Setting(reader.prop) # {})
                     /\ reader'.copy = Copy(mem[reader.prop], reader.serial.len)
                  \/ /\ reader.pc = "check" /\ reader'.serial = reader.serial
                     /\ reader'.copy = reader.copy /\ reader'.inside = reader.inside
                     /\ reader'.pc = IF mem[reader.prop].serial = reader.serial
                                     THEN "done" ELSE "serial"
<1> DEFINE n == reader.prop
<1>1. CASE ReadEnd BY <1>1 DEF ReadEnd, NoReader
<1>2. ASSUME reader.pc # "idle"
      PROVE  /\ reader \in Reads /\ n \in Prop /\ mem[n] \in Infos /\ mem[n].serial \in Serials
             /\ reader.serial \in Serials /\ reader.serial.len \in Cells
  <2>1. reader \in Reads BY <1>2, ReadsType DEF Types
  <2>2. n \in Prop /\ reader.serial \in Serials BY <2>1 DEF Reads
  <2>3. mem[n] \in Infos BY <2>2 DEF Types
  <2> QED BY <2>1, <2>2, <2>3 DEF Infos, Serials
<1>3. CASE ReadNote
  <2>1. /\ reader.pc = "serial" /\ ~mem[n].serial.dirty
        /\ reader' = [reader EXCEPT !.pc = "copy", !.serial = mem[n].serial]
    BY <1>3 DEF ReadNote
  <2>2. reader \in Reads /\ mem[n].serial \in Serials BY <1>2, <2>1
  <2> QED BY <2>1, <2>2 DEF Reads
<1>4. CASE ReadCopy
  <2> DEFINE c == Copy(mem[n], reader.serial.len)
             b == Setting(n) # {}
  <2>1. /\ reader.pc = "copy"
        /\ reader' = [reader EXCEPT !.pc = "check", !.inside = b, !.copy = c]
    BY <1>4 DEF ReadCopy
  <2>2. c \in Seq(Nat) BY <1>2, <2>1, CopyType
  <2>3. b \in BOOLEAN OBVIOUS
  <2> HIDE DEF b, c
  <2>4. /\ reader' \in Reads /\ reader'.prop = reader.prop /\ reader'.vals = reader.vals
        /\ reader'.writes = reader.writes /\ reader'.pc = "check"
        /\ reader'.serial = reader.serial /\ reader'.inside = b /\ reader'.copy = c
    BY <1>2, <2>1, <2>2, <2>3 DEF Reads
  <2> QED BY <1>2, <2>1, <2>4 DEF b, c
<1>5. CASE ReadCheck
  <2>1. /\ reader.pc = "check"
        /\ reader' = [reader EXCEPT !.pc =
             IF mem[reader.prop].serial = reader.serial THEN "done" ELSE "serial"]
    BY <1>5 DEF ReadCheck
  <2> QED BY <1>2, <2>1 DEF Reads
<1> QED BY <1>1, <1>3, <1>4, <1>5 DEF Reading

LEMMA ServerStartStep ==
  ASSUME Types, ServerStart
  PROVE  /\ server' \in Servers /\ server.pid = 0 /\ server'.gen = server.gen + 1
         /\ server'.pid \in Pid \ {other}
         /\ server'.seen = SubSeq(Copy(mem[Debuggable], mem[Debuggable].serial.len), 1,
                                  mem[Debuggable].serial.len)
<1> DEFINE seen == SubSeq(Copy(mem[Debuggable], mem[Debuggable].serial.len), 1,
                          mem[Debuggable].serial.len)
<1>1. PICK pid \in Pid \ {other} : server' = Up(pid, server.gen + 1, seen)
  BY Zenon DEF ServerStart
<1>2. mem[Debuggable] \in Infos BY PropAssumption DEF Types
<1>3. mem[Debuggable].serial.len \in Cells BY <1>2 DEF Infos, Serials
<1>4. seen \in Seq(Nat) BY <1>2, <1>3, CopyType
<1>5. server.gen \in Nat BY DEF Types, Servers
<1>6. server.pid = 0 BY Zenon DEF ServerStart
<1> HIDE DEF seen
<1>7. /\ server' \in Servers /\ server'.gen = server.gen + 1
      /\ server'.pid = pid /\ server'.seen = seen
  BY <1>1, <1>4, <1>5 DEF Up, Servers
<1> QED BY <1>6, <1>7 DEF seen

LEMMA ServerExitStep ==
  ASSUME Types, ServerExit
  PROVE  /\ server' \in Servers /\ server.pid # 0 /\ server'.gen = server.gen
         /\ server'.pid = 0 /\ server'.seen = server.seen
<1>1. server' = [server EXCEPT !.pid = 0] /\ server.pid # 0 BY DEF ServerExit
<1> QED BY <1>1 DEF Types, Servers

(* The invariant about the setters, when one of them has moved.            *)
LEMMA LocatedKept ==
  ASSUME Located, NEW p \in Proc, \A q \in Proc \ {p} : Same(q),
         proc'[p].pc \in Found =>
           /\ proc'[p].cmd.name \in Prop /\ proc'[p].cmd.value \in Values
           /\ proc'[p].at = Where(proc'[p].cmd.name)
           /\ proc'[p].pc \in {"lookup", "kill"} => proc'[p].cmd.tool = "setdebuggable"
  PROVE  Located'
<1> SUFFICES ASSUME NEW q \in Proc, proc'[q].pc \in Found
             PROVE  /\ proc'[q].cmd.name \in Prop /\ proc'[q].cmd.value \in Values
                    /\ proc'[q].at = Where(proc'[q].cmd.name)
                    /\ proc'[q].pc \in {"lookup", "kill"} => proc'[q].cmd.tool = "setdebuggable"
  BY Zenon DEF Located, Where
<1>1. CASE q = p BY <1>1
<1>2. CASE q # p BY <1>2, Zenon DEF Located, Same
<1> QED BY <1>1, <1>2

LEMMA SetterTypeInv ==
  ASSUME TypeInv, NEW p \in Proc, Setter(p) \/ Interrupt(p) \/ \E cmd \in Command : Start(p, cmd)
  PROVE  TypeInv'
<1> DEFINE n == proc[p].cmd.name
           T == [Proc -> {Idle} \union Active]
<1>0. /\ Types /\ Located /\ Services
      /\ mem \in [Prop -> Infos] /\ reader \in {NoReader} \union Reads
      /\ svc \in [pc : {"idle", "copy"}, prop : Prop]
      /\ server \in Servers /\ other \in Pid \union {0} /\ hist \in Hists
  BY DEF TypeInv, Types
<1>1. ASSUME UNCHANGED svc PROVE Services' BY <1>0, <1>1 DEF Services
<1>2. ASSUME NEW cmd \in Command, Start(p, cmd) PROVE TypeInv'
  <2>1. UNCHANGED <<mem, reader, svc, server, other>> BY <1>2, Zenon DEF Start
  <2>2. /\ proc' \in T /\ proc'[p].pc = "find"
        /\ \A q \in Proc \ {p} : \/ Same(q)
                                  \/ /\ proc[q].pc # "idle" /\ proc'[q].pc = proc[q].pc
                                     /\ Kept(proc'[q], proc[q])
    <3>1. proc' \in T /\ proc'[p].pc = "find" BY <1>0, <1>2, StartStep, Zenon
    <3>2. ASSUME NEW q \in Proc \ {p}
          PROVE  \/ Same(q)
                 \/ /\ proc[q].pc # "idle" /\ proc'[q].pc = proc[q].pc
                    /\ Kept(proc'[q], proc[q])
      BY <1>0, <1>2, StartStep
    <3> QED BY <3>1, <3>2
  <2>3. hist' \in Hists BY <1>0, <1>2, StartAsk
  <2>4. Types' BY <1>0, <2>1, <2>2, <2>3 DEF Types
  <2>5. Located'
    <3> SUFFICES ASSUME NEW q \in Proc, proc'[q].pc \in Found
                 PROVE  /\ proc'[q].cmd.name \in Prop /\ proc'[q].cmd.value \in Values
                        /\ proc'[q].at = Where(proc'[q].cmd.name)
                        /\ proc'[q].pc \in {"lookup", "kill"}
                             => proc'[q].cmd.tool = "setdebuggable"
      BY Zenon DEF Located, Where
    <3>1. q # p BY <2>2 DEF Found
    <3>2. proc'[q].pc = proc[q].pc /\ proc'[q].cmd = proc[q].cmd /\ proc'[q].at = proc[q].at
      BY <2>2, <3>1 DEF Same, Kept
    <3> QED BY <1>0, <3>2, Zenon DEF Located
  <2> QED BY <1>1, <2>1, <2>4, <2>5 DEF TypeInv
<1>3. CASE FindProp(p)
  <2>1. UNCHANGED <<mem, reader, svc, server, other, hist>> BY <1>3 DEF FindProp
  <2>2. /\ proc' \in T /\ \A q \in Proc \ {p} : Same(q)
        /\ \/ proc'[p].pc = "idle"
           \/ /\ proc'[p].pc = "read" /\ n \in Prop /\ proc[p].cmd.value \in Values
              /\ proc'[p].cmd = proc[p].cmd /\ proc'[p].at = Where(n)
    BY <1>3, FindStep
  <2>3. Types' BY <1>0, <2>1, <2>2 DEF Types
  <2>4. Located' BY <1>0, <2>2, LocatedKept DEF Found
  <2> QED BY <1>1, <2>1, <2>3, <2>4 DEF TypeInv
<1>4. CASE ReadSerial(p)
  <2>1. /\ UNCHANGED <<mem, svc, server, other>> /\ NoteBegin(n)
        /\ hist' = [hist EXCEPT !.torn[n] = hist.torn[n] \/ Writing(n)]
    BY <1>4 DEF ReadSerial
  <2>2. /\ proc[p].pc = "read" /\ n \in Prop /\ proc' \in T
        /\ \A q \in Proc \ {p} : Same(q)
        /\ proc'[p].pc = "serial" /\ Kept(proc'[p], proc[p])
    BY <1>4, ReadSerialStep
  <2>3. reader' \in {NoReader} \union Reads BY <1>0, <2>1, <2>2, NoteBeginStep
  <2>4. (hist.torn[n] \/ Writing(n)) \in BOOLEAN OBVIOUS
  <2>5. hist' \in Hists BY <1>0, <2>1, <2>2, <2>4, TornStep
  <2>6. Types' BY <1>0, <2>1, <2>2, <2>3, <2>5 DEF Types
  <2>7. n \in Prop /\ proc[p].cmd.value \in Values /\ proc[p].at = Where(n)
    BY <1>0, <2>2 DEF Located, Found
  <2>8. Located' BY <1>0, <2>2, <2>7, LocatedKept DEF Found, Kept
  <2> QED BY <1>1, <2>1, <2>6, <2>8 DEF TypeInv
<1>5. CASE WriteSerial(p)
  <2>1. UNCHANGED <<reader, svc, server, other>> BY <1>5 DEF WriteSerial
  <2>2. /\ proc[p].pc = "serial" /\ n \in Prop /\ proc' \in T
        /\ \A q \in Proc \ {p} : Same(q)
        /\ proc'[p].pc = "value" /\ Kept(proc'[p], proc[p])
        /\ mem' \in [Prop -> Infos]
        /\ hist' = hist \/ hist' = [hist EXCEPT !.torn[n] = TRUE]
    BY <1>5, WriteSerialStep
  <2>5. hist' \in Hists BY <1>0, <2>2, TornStep
  <2>6. Types' BY <1>0, <2>1, <2>2, <2>5 DEF Types
  <2>7. n \in Prop /\ proc[p].cmd.value \in Values /\ proc[p].at = Where(n)
    BY <1>0, <2>2 DEF Located, Found
  <2>8. Located' BY <1>0, <2>2, <2>7, LocatedKept DEF Found, Kept
  <2> QED BY <1>1, <2>1, <2>6, <2>8 DEF TypeInv
<1>6. CASE WriteValue(p)
  <2>1. UNCHANGED <<svc, server, other>> BY <1>6 DEF WriteValue
  <2>2. /\ proc[p].pc = "value" /\ n \in Prop /\ proc' \in T /\ proc[p].cmd.value \in Values
        /\ \A q \in Proc \ {p} : Same(q)
        /\ mem' \in [Prop -> Infos]
        /\ \/ proc'[p].pc = "idle"
           \/ /\ proc'[p].pc = "lookup" /\ Kept(proc'[p], proc[p])
              /\ proc[p].cmd.tool = "setdebuggable"
        /\ \/ /\ hist' = [hist EXCEPT !.val[n] = proc[p].cmd.value]
              /\ NoteEnd(n, proc[p].cmd.value)
           \/ hist' = [hist EXCEPT !.torn[n] = TRUE] /\ reader' = reader
    BY <1>6, WriteValueStep
  <2>3. reader' \in {NoReader} \union Reads BY <1>0, <2>2, NoteEndStep
  <2>5. hist' \in Hists BY <1>0, <2>2, TornStep, ValStep
  <2>6. Types' BY <1>0, <2>1, <2>2, <2>3, <2>5 DEF Types
  <2>7. n \in Prop /\ proc[p].cmd.value \in Values /\ proc[p].at = Where(n)
    BY <1>0, <2>2 DEF Located, Found
  <2>8. Located' BY <1>0, <2>2, <2>7, LocatedKept DEF Found, Kept
  <2> QED BY <1>1, <2>1, <2>6, <2>8 DEF TypeInv
<1>7. CASE Lookup(p)
  <2>1. UNCHANGED <<mem, reader, svc, server, other, hist>> BY <1>7, Zenon DEF Lookup
  <2>2. /\ proc[p].pc = "lookup" /\ proc' \in T
        /\ \A q \in Proc \ {p} : Same(q)
        /\ \/ proc'[p].pc = "idle"
           \/ /\ proc'[p].pc = "kill" /\ proc'[p].cmd = proc[p].cmd /\ proc'[p].at = proc[p].at
    BY <1>7, LookupStep
  <2>6. Types' BY <1>0, <2>1, <2>2 DEF Types
  <2>7. /\ n \in Prop /\ proc[p].cmd.value \in Values /\ proc[p].at = Where(n)
        /\ proc[p].cmd.tool = "setdebuggable"
    BY <1>0, <2>2 DEF Located, Found
  <2>8. Located' BY <1>0, <2>2, <2>7, LocatedKept DEF Found
  <2> QED BY <1>1, <2>1, <2>6, <2>8 DEF TypeInv
<1>8. CASE KillServer(p)
  <2>1. UNCHANGED <<mem, reader, svc>> BY <1>8 DEF KillServer
  <2>2. /\ proc' \in T /\ proc'[p].pc = "idle" /\ \A q \in Proc \ {p} : Same(q)
        /\ server' \in Servers /\ other' \in Pid \union {0} /\ hist' \in Hists
    BY <1>8, KillStep
  <2>3. Types' BY <1>0, <2>1, <2>2 DEF Types
  <2>4. Located' BY <1>0, <2>2, LocatedKept DEF Found
  <2> QED BY <1>1, <2>1, <2>3, <2>4 DEF TypeInv
<1>9. CASE Interrupt(p)
  <2>1. UNCHANGED <<mem, reader, svc, server, other>> BY <1>9 DEF Interrupt
  <2>2. /\ proc' \in T /\ proc'[p].pc = "idle" /\ \A q \in Proc \ {p} : Same(q)
        /\ hist' \in Hists
    BY <1>9, InterruptStep
  <2>3. Types' BY <1>0, <2>1, <2>2 DEF Types
  <2>4. Located' BY <1>0, <2>2, LocatedKept DEF Found
  <2> QED BY <1>1, <2>1, <2>3, <2>4 DEF TypeInv
<1> QED BY <1>2, <1>3, <1>4, <1>5, <1>6, <1>7, <1>8, <1>9 DEF Setter

(* The steps of the system around the setters leave them alone.            *)
LEMMA SystemTypeInv ==
  ASSUME TypeInv,
         \/ (\E n \in Updated : UpdateBegin(n)) \/ UpdateEnd
         \/ (\E n \in Prop : ReadBegin(n)) \/ Reading
         \/ ServerExit \/ ServerStart \/ OtherStart
         \/ UNCHANGED vars
  PROVE  TypeInv'
<1>0. /\ Types /\ Located /\ Services
      /\ mem \in [Prop -> Infos] /\ reader \in {NoReader} \union Reads
      /\ svc \in [pc : {"idle", "copy"}, prop : Prop]
      /\ server \in Servers /\ other \in Pid \union {0} /\ hist \in Hists
  BY DEF TypeInv, Types
<1>1. ASSUME UNCHANGED proc PROVE Located' BY <1>0, <1>1, Zenon DEF Located, Where
<1>2. ASSUME UNCHANGED svc PROVE Services' BY <1>0, <1>2 DEF Services
<1>3. ASSUME NEW n \in Updated, UpdateBegin(n) PROVE TypeInv'
  <2>0. n \in Prop BY PropAssumption
  <2>1. /\ UNCHANGED <<proc, reader, server, other>>
        /\ hist' = [hist EXCEPT !.torn[n] = hist.torn[n] \/ Writing(n)]
    BY <1>3 DEF UpdateBegin
  <2>2. /\ mem' \in [Prop -> Infos] /\ svc' = [pc |-> "copy", prop |-> n]
        /\ svc' \in [pc : {"idle", "copy"}, prop : Prop]
    BY <1>0, <1>3, <2>0, UpdateBeginStep
  <2>3. (hist.torn[n] \/ Writing(n)) \in BOOLEAN OBVIOUS
  <2>4. hist' \in Hists BY <1>0, <2>0, <2>1, <2>3, TornStep
  <2>5. Types' BY <1>0, <2>1, <2>2, <2>4 DEF Types
  <2>6. Services' BY <2>2 DEF Services
  <2> QED BY <1>1, <2>1, <2>5, <2>6 DEF TypeInv
<1>4. CASE UpdateEnd
  <2>1. UNCHANGED <<proc, server, other>> BY <1>4 DEF UpdateEnd
  <2>2. /\ svc.prop \in Prop /\ mem' \in [Prop -> Infos]
        /\ hist' = [hist EXCEPT !.val[svc.prop] = NewValue] /\ NoteEnd(svc.prop, NewValue)
        /\ svc' \in [pc : {"idle", "copy"}, prop : Prop] /\ svc'.pc = "idle"
    BY <1>0, <1>4, UpdateEndStep
  <2>3. hist' \in Hists BY <1>0, <2>2, NewValueType, ValStep
  <2>4. reader' \in {NoReader} \union Reads BY <1>0, <2>2, NewValueType, NoteEndStep
  <2>5. Types' BY <1>0, <2>1, <2>2, <2>3, <2>4 DEF Types
  <2>6. Services' BY <2>2 DEF Services
  <2> QED BY <1>1, <2>1, <2>5, <2>6 DEF TypeInv
<1>5. ASSUME NEW n \in Prop, ReadBegin(n) PROVE TypeInv'
  <2>1. UNCHANGED <<mem, proc, svc, server, other, hist>> BY <1>5 DEF ReadBegin
  <2>2. reader' \in Reads BY <1>0, <1>5, ReadBeginStep
  <2>3. Types' BY <1>0, <2>1, <2>2 DEF Types
  <2> QED BY <1>1, <1>2, <2>1, <2>3 DEF TypeInv
<1>6. CASE Reading
  <2>1. UNCHANGED <<mem, proc, svc, server, other, hist>>
    BY <1>6 DEF Reading, ReadNote, ReadCopy, ReadCheck, ReadEnd
  <2>2. reader' \in {NoReader} \union Reads BY <1>0, <1>6, ReadingStep
  <2>3. Types' BY <1>0, <2>1, <2>2 DEF Types
  <2> QED BY <1>1, <1>2, <2>1, <2>3 DEF TypeInv
<1>7. CASE ServerExit
  <2>1. UNCHANGED <<mem, proc, reader, svc, other, hist>> BY <1>7 DEF ServerExit
  <2>2. server' \in Servers BY <1>0, <1>7, ServerExitStep
  <2>3. Types' BY <1>0, <2>1, <2>2 DEF Types
  <2> QED BY <1>1, <1>2, <2>1, <2>3 DEF TypeInv
<1>8. CASE ServerStart
  <2>1. UNCHANGED <<mem, proc, reader, svc, other, hist>> BY <1>8, Zenon DEF ServerStart
  <2>2. server' \in Servers BY <1>0, <1>8, ServerStartStep
  <2>3. Types' BY <1>0, <2>1, <2>2 DEF Types
  <2> QED BY <1>1, <1>2, <2>1, <2>3 DEF TypeInv
<1>9. CASE OtherStart
  <2>1. UNCHANGED <<mem, proc, reader, svc, server, hist>> /\ other' \in Pid
    BY <1>9 DEF OtherStart
  <2>2. Types' BY <1>0, <2>1 DEF Types
  <2> QED BY <1>1, <1>2, <2>1, <2>2 DEF TypeInv
<1>10. CASE UNCHANGED vars
  <2>1. UNCHANGED <<mem, proc, reader, svc, server, other, hist>> BY <1>10 DEF vars
  <2>2. Types' BY <1>0, <2>1 DEF Types
  <2> QED BY <1>1, <1>2, <2>1, <2>2 DEF TypeInv
<1> QED BY <1>3, <1>4, <1>5, <1>6, <1>7, <1>8, <1>9, <1>10

LEMMA NextTypeInv == TypeInv /\ [Next]_vars => TypeInv'
BY SetterTypeInv, SystemTypeInv DEF Next

(* Every variable has its type, in every reachable state.                  *)
THEOREM TypeCorrect == Spec => []TypeOK
<1>1. TypeInv => TypeOK
  <2> SUFFICES ASSUME TypeInv PROVE TypeOK OBVIOUS
  <2>1. \A n \in Prop : /\ mem[n].serial \in [len : Cells, count : Nat, dirty : BOOLEAN]
                        /\ mem[n].cell \in [Cells -> Nat]
    BY DEF TypeInv, Types, Infos, Serials
  <2>2. \A p \in Proc : proc[p].pc \in
          {"idle", "find", "read", "serial", "value", "lookup", "kill"}
    BY ActiveType DEF TypeInv, Types, Found
  <2>3. reader.pc \in {"idle", "serial", "copy", "check", "done"}
    BY ReadsType DEF TypeInv, Types
  <2>4. /\ svc.pc \in {"idle", "copy"} /\ svc.prop \in Prop
        /\ server.pid \in Pid \union {0} /\ other \in Pid \union {0}
    BY DEF TypeInv, Types, Servers
  <2> QED BY <2>1, <2>2, <2>3, <2>4 DEF TypeOK
<1> QED BY <1>1, InitTypeInv, NextTypeInv, PTL DEF Spec

-----------------------------------------------------------------------------
(* What lies in memory.                                                    *)

LEMMA SettingIs ==
  ASSUME NEW n, NEW q \in Proc
  PROVE  /\ q \in Setting(n) <=> proc[q].pc \in {"serial", "value"} /\ proc[q].cmd.name = n
         /\ q \in Setting(n)' <=> proc'[q].pc \in {"serial", "value"} /\ proc'[q].cmd.name = n
BY DEF Setting

Untouched(n) ==
  /\ mem'[n] = mem[n] /\ (Copying(n)' <=> Copying(n)) /\ hist'.val[n] = hist.val[n]

(* A step that leaves a property alone, and begins no write of it, keeps   *)
(* the invariant; a write that had not touched it may be given up.         *)
LEMMA OrderlyKept ==
  ASSUME NEW n \in Prop, Orderly(n), Untouched(n),
         \A q \in Setting(n)' :
           /\ q \in Setting(n) /\ proc'[q].pc = proc[q].pc /\ proc'[q].cmd = proc[q].cmd
           /\ proc'[q].serial = proc[q].serial,
         \A q \in Setting(n) \ Setting(n)' : proc[q].pc = "serial"
  PROVE  Orderly(n)'
<1>1. Sole(n)' BY DEF Orderly, Sole, Untouched
<1>2. Between(n)'
  <2>1. Copying(n)' <=> mem'[n].serial.dirty BY DEF Orderly, Between, Untouched
  <2>2. (~Copying(n)' /\ \A p \in Setting(n)' : proc'[p].pc = "serial")
          => Holds(mem'[n], hist'.val[n])
    <3> SUFFICES ASSUME ~Copying(n)', \A p \in Setting(n)' : proc'[p].pc = "serial"
                 PROVE  Holds(mem'[n], hist'.val[n])
      OBVIOUS
    <3>1. \A p \in Setting(n) : proc[p].pc = "serial" OBVIOUS
    <3>2. Holds(mem[n], hist.val[n]) BY <3>1 DEF Orderly, Between, Untouched
    <3> QED BY <3>2 DEF Untouched
  <2> QED BY <2>1, <2>2 DEF Between, Holds, Written
<1>3. Underway(n)' BY DEF Orderly, Underway, Untouched, NewSerial
<1> QED BY <1>1, <1>2, <1>3 DEF Orderly

(* The same, when only the setter p has moved.                             *)
LEMMA OrderlyMoved ==
  ASSUME NEW n \in Prop, NEW p \in Proc, \A q \in Proc \ {p} : Same(q), Untouched(n),
         Orderly(n), p \notin Setting(n)', p \in Setting(n) => proc[p].pc = "serial"
  PROVE  Orderly(n)'
<1>1. ASSUME NEW q \in Setting(n)'
      PROVE  /\ q \in Setting(n) /\ proc'[q].pc = proc[q].pc /\ proc'[q].cmd = proc[q].cmd
             /\ proc'[q].serial = proc[q].serial
  <2>1. q \in Proc BY DEF Setting
  <2>2. proc'[q] = proc[q] BY <2>1 DEF Same
  <2> QED BY <2>1, <2>2, SettingIs
<1>2. ASSUME NEW q \in Setting(n) \ Setting(n)' PROVE proc[q].pc = "serial"
  <2>1. q \in Proc BY DEF Setting
  <2>2. CASE q = p BY <2>2
  <2>3. CASE q # p
    <3>1. proc'[q] = proc[q] BY <2>1, <2>3 DEF Same
    <3> QED BY <2>1, <3>1, SettingIs
  <2> QED BY <2>2, <2>3
<1> QED BY <1>1, <1>2, OrderlyKept

LEMMA InitCoherent == Init => CoherentInv
<1> SUFFICES ASSUME Init, NEW n \in Prop PROVE Orderly(n) BY DEF CoherentInv
<1>1. \A p \in Proc : proc[p].pc = "idle" BY DEF Init, Idle
<1>2. Setting(n) = {} BY <1>1 DEF Setting
<1>3. mem[n] = Info(<<1>>) /\ hist.val[n] = <<1>> BY DEF Init
<1>4. mem[n].serial.len = Len(<<1>>) /\ ~mem[n].serial.dirty BY <1>3 DEF Info
<1>5. <<1>> \in Seq(Nat) OBVIOUS
<1>6. Written(mem[n].cell, <<1>>)
  <2> DEFINE c == [i \in Cells |-> IF i = PROP_VALUE_MAX THEN NameChar ELSE NUL]
  <2>1. mem[n].cell = Put(c, <<1>>) BY <1>3 DEF Info
  <2> HIDE DEF c
  <2> QED BY <1>5, <2>1, PutWritten
<1>7. Holds(mem[n], hist.val[n]) BY <1>3, <1>4, <1>6 DEF Holds
<1>8. ~Copying(n) BY DEF Init, NoSvc, Copying
<1> QED BY <1>2, <1>4, <1>7, <1>8 DEF Orderly, Sole, Between, Underway

LEMMA SetterCoherent ==
  ASSUME TypeInv, CoherentInv, NEW p \in Proc,
         Setter(p) \/ Interrupt(p) \/ \E cmd \in Command : Start(p, cmd)
  PROVE  CoherentInv'
<1> DEFINE m == proc[p].cmd.name
<1> SUFFICES ASSUME NEW n \in Prop, ~hist'.torn[n] PROVE Orderly(n)' BY DEF CoherentInv
<1>0. Types /\ hist \in Hists BY DEF TypeInv, Types
<1>1. ASSUME UNCHANGED <<mem, svc>>, hist'.val = hist.val PROVE Untouched(n)
  BY <1>1 DEF Untouched, Copying
<1>2. ASSUME NEW cmd \in Command, Start(p, cmd) PROVE Orderly(n)'
  <2>1. UNCHANGED <<mem, svc>> BY <1>2, Zenon DEF Start
  <2>2. hist'.torn = hist.torn /\ hist'.val = hist.val BY <1>0, <1>2, StartAsk
  <2>3. Orderly(n) /\ Untouched(n) BY <1>1, <2>1, <2>2 DEF CoherentInv
  <2>4. proc[p].pc = "idle" /\ proc'[p].pc = "find" BY <1>0, <1>2, StartStep
  <2>5. ASSUME NEW q \in Proc \ {p}
        PROVE  /\ proc'[q].pc = proc[q].pc
               /\ proc[q].pc # "idle" => proc'[q].cmd = proc[q].cmd
               /\ proc[q].pc # "idle" => proc'[q].serial = proc[q].serial
    BY <1>0, <1>2, StartStep DEF Same, Kept
  <2>6. p \notin Setting(n) /\ p \notin Setting(n)' BY <2>4, SettingIs
  <2>7. ASSUME NEW q \in Setting(n)'
        PROVE  /\ q \in Setting(n) /\ proc'[q].pc = proc[q].pc /\ proc'[q].cmd = proc[q].cmd
               /\ proc'[q].serial = proc[q].serial
    <3>1. q \in Proc \ {p} BY <2>6 DEF Setting
    <3> QED BY <2>5, <3>1, SettingIs
  <2>8. ASSUME NEW q \in Setting(n) \ Setting(n)' PROVE proc[q].pc = "serial"
    <3>1. q \in Proc \ {p} BY <2>6 DEF Setting
    <3> QED BY <2>5, <3>1, SettingIs
  <2> QED BY <2>3, <2>7, <2>8, OrderlyKept
<1>3. CASE FindProp(p)
  <2>1. UNCHANGED <<mem, svc, hist>> BY <1>3 DEF FindProp
  <2>2. /\ proc[p].pc = "find" /\ \A q \in Proc \ {p} : Same(q)
        /\ proc'[p].pc \in {"idle", "read"}
    BY <1>3, FindStep
  <2>3. Orderly(n) /\ Untouched(n) BY <1>1, <2>1 DEF CoherentInv
  <2> QED BY <2>2, <2>3, SettingIs, OrderlyMoved
<1>4. CASE ReadSerial(p)
  <2>1. /\ UNCHANGED <<mem, svc>>
        /\ hist' = [hist EXCEPT !.torn[m] = hist.torn[m] \/ Writing(m)]
    BY <1>4 DEF ReadSerial
  <2>2. /\ proc[p].pc = "read" /\ m \in Prop /\ \A q \in Proc \ {p} : Same(q)
        /\ proc'[p].pc = "serial" /\ proc'[p].cmd = proc[p].cmd
        /\ proc'[p].serial = NewSerial(mem[m].serial, proc[p].cmd.value)
    BY <1>4, ReadSerialStep DEF Kept
  <2>3. (hist.torn[m] \/ Writing(m)) \in BOOLEAN OBVIOUS
  <2>4. /\ hist'.torn[m] = (hist.torn[m] \/ Writing(m)) /\ hist'.val = hist.val
        /\ \A k \in Prop \ {m} : hist'.torn[k] = hist.torn[k]
    BY <1>0, <2>1, <2>2, <2>3, TornStep
  <2>5. Untouched(n) BY <1>1, <2>1, <2>4
  <2>6. CASE n # m
    <3>1. Orderly(n) BY <2>4, <2>6 DEF CoherentInv
    <3>2. p \notin Setting(n)' /\ p \notin Setting(n) BY <2>2, <2>6, SettingIs
    <3> QED BY <2>2, <2>5, <3>1, <3>2, OrderlyMoved
  <2>7. CASE n = m
    <3>1. ~hist.torn[n] /\ Setting(n) = {} /\ ~Copying(n)
      BY <2>4, <2>7 DEF Writing, Copying
    <3>2. Orderly(n) BY <3>1 DEF CoherentInv
    <3>3. Setting(n)' = {p}
      <4>1. p \in Setting(n)' BY <2>2, <2>7, SettingIs
      <4>2. ASSUME NEW q \in Setting(n)', q # p PROVE FALSE
        <5>1. q \in Proc BY DEF Setting
        <5>2. proc'[q] = proc[q] BY <2>2, <4>2, <5>1 DEF Same
        <5> QED BY <3>1, <5>1, <5>2, SettingIs
      <4> QED BY <4>1, <4>2
    <3>4. Holds(mem[n], hist.val[n]) /\ ~mem[n].serial.dirty BY <3>1, <3>2 DEF Orderly, Between
    <3>5. ~Copying(n)' /\ mem'[n] = mem[n] /\ hist'.val[n] = hist.val[n]
      BY <2>5, <3>1 DEF Untouched
    <3>6. Sole(n)' BY <3>3, <3>5 DEF Sole
    <3>7. Between(n)'
      <4>1. Holds(mem'[n], hist'.val[n]) /\ ~mem'[n].serial.dirty BY <3>4, <3>5
      <4> QED BY <3>5, <4>1 DEF Between, Holds, Written
    <3>8. Underway(n)' BY <2>2, <2>7, <3>3, <3>5 DEF Underway, NewSerial
    <3> QED BY <3>6, <3>7, <3>8 DEF Orderly
  <2> QED BY <2>6, <2>7
<1>5. CASE WriteSerial(p)
  <2>1. UNCHANGED svc BY <1>5 DEF WriteSerial
  <2>2. /\ proc[p].pc = "serial" /\ m \in Prop /\ \A q \in Proc \ {p} : Same(q)
        /\ proc'[p].pc = "value" /\ proc'[p].cmd = proc[p].cmd
        /\ \A k \in Prop \ {m} : mem'[k] = mem[k]
        /\ \/ /\ mem'[m].serial = proc[p].serial /\ mem'[m].cell = mem[m].cell
              /\ hist' = hist
           \/ hist' = [hist EXCEPT !.torn[m] = TRUE]
    BY <1>5, WriteSerialStep DEF Kept
  <2>3. /\ hist'.val = hist.val /\ ~hist.torn[n]
        /\ n = m => mem'[m].serial = proc[p].serial /\ mem'[m].cell = mem[m].cell
    <3>1. CASE hist' = hist BY <2>2, <3>1, TornStep, <1>0
    <3>2. CASE hist' = [hist EXCEPT !.torn[m] = TRUE]
      <4>1. /\ hist'.torn[m] = TRUE /\ hist'.val = hist.val
            /\ \A k \in Prop \ {m} : hist'.torn[k] = hist.torn[k]
        BY <1>0, <2>2, <3>2, TornStep
      <4> QED BY <4>1
    <3> QED BY <2>2, <3>1, <3>2
  <2>4. Orderly(n) BY <2>3 DEF CoherentInv
  <2>6. CASE n # m
    <3>1. Untouched(n) BY <2>1, <2>2, <2>3, <2>6 DEF Untouched, Copying
    <3>2. p \notin Setting(n)' /\ p \notin Setting(n) BY <2>2, <2>6, SettingIs
    <3> QED BY <2>2, <2>4, <3>1, <3>2, OrderlyMoved
  <2>7. CASE n = m
    <3>1. p \in Setting(n) BY <2>2, <2>7, SettingIs
    <3>2. Setting(n) = {p} /\ ~Copying(n) BY <2>4, <3>1 DEF Orderly, Sole
    <3>3. Setting(n)' = {p}
      <4>1. p \in Setting(n)' BY <2>2, <2>7, SettingIs
      <4>2. ASSUME NEW q \in Setting(n)', q # p PROVE FALSE
        <5>1. q \in Proc BY DEF Setting
        <5>2. proc'[q] = proc[q] BY <2>2, <4>2, <5>1 DEF Same
        <5> QED BY <3>2, <4>2, <5>1, <5>2, SettingIs
      <4> QED BY <4>1, <4>2
    <3>4. proc[p].serial = NewSerial(mem[n].serial, proc[p].cmd.value) /\ ~mem[n].serial.dirty
      BY <2>2, <2>4, <3>1, <3>2 DEF Orderly, Underway, Between
    <3>5. mem[n].serial \in Serials /\ proc[p].cmd.value \in Values
      BY <1>0, <2>2 DEF TypeInv, Located, Found, Types, Infos
    <3>6. mem'[n].serial.len = Len(proc[p].cmd.value) /\ ~mem'[n].serial.dirty
      BY <2>3, <2>7, <3>4, <3>5, NewSerialType
    <3>7. ~Copying(n)' BY <2>1, <3>2 DEF Copying
    <3>8. Sole(n)' BY <3>3, <3>7 DEF Sole
    <3>9. Between(n)' BY <2>2, <3>3, <3>6, <3>7 DEF Between
    <3>10. Underway(n)' BY <2>2, <3>3, <3>6 DEF Underway
    <3> QED BY <3>8, <3>9, <3>10 DEF Orderly
  <2> QED BY <2>6, <2>7
<1>6. CASE WriteValue(p)
  <2>1. UNCHANGED svc BY <1>6 DEF WriteValue
  <2>2. /\ proc[p].pc = "value" /\ m \in Prop /\ \A q \in Proc \ {p} : Same(q)
        /\ proc'[p].pc \in {"idle", "lookup"} /\ proc[p].cmd.value \in Values
        /\ \A k \in Prop \ {m} : mem'[k] = mem[k]
        /\ \/ /\ mem'[m].serial = mem[m].serial
              /\ Written(mem'[m].cell, proc[p].cmd.value)
              /\ hist' = [hist EXCEPT !.val[m] = proc[p].cmd.value]
           \/ hist' = [hist EXCEPT !.torn[m] = TRUE]
    BY <1>6, WriteValueStep
  <2>3. /\ ~hist.torn[n]
        /\ n # m => hist'.val[n] = hist.val[n]
        /\ n = m => /\ hist'.val[n] = proc[p].cmd.value
                    /\ mem'[m].serial = mem[m].serial
                    /\ Written(mem'[m].cell, proc[p].cmd.value)
    <3>1. CASE hist' = [hist EXCEPT !.val[m] = proc[p].cmd.value]
      <4>1. /\ hist'.val[m] = proc[p].cmd.value /\ hist'.torn = hist.torn
            /\ \A k \in Prop \ {m} : hist'.val[k] = hist.val[k]
        BY <1>0, <2>2, <3>1, ValStep
      <4>2. CASE hist' = [hist EXCEPT !.torn[m] = TRUE]
        <5>1. hist'.torn[m] = TRUE /\ hist'.val = hist.val
              /\ \A k \in Prop \ {m} : hist'.torn[k] = hist.torn[k]
          BY <1>0, <2>2, <4>2, TornStep
        <5> QED BY <4>1, <5>1
      <4> QED BY <2>2, <4>1, <4>2
    <3>2. CASE hist' = [hist EXCEPT !.torn[m] = TRUE]
      <4>1. /\ hist'.torn[m] = TRUE /\ hist'.val = hist.val
            /\ \A k \in Prop \ {m} : hist'.torn[k] = hist.torn[k]
        BY <1>0, <2>2, <3>2, TornStep
      <4> QED BY <4>1
    <3> QED BY <2>2, <3>1, <3>2
  <2>4. Orderly(n) BY <2>3 DEF CoherentInv
  <2>6. CASE n # m
    <3>1. Untouched(n) BY <2>1, <2>2, <2>3, <2>6 DEF Untouched, Copying
    <3>2. p \notin Setting(n)' /\ p \notin Setting(n) BY <2>2, <2>6, SettingIs
    <3> QED BY <2>2, <2>4, <3>1, <3>2, OrderlyMoved
  <2>7. CASE n = m
    <3>1. p \in Setting(n) BY <2>2, <2>7, SettingIs
    <3>2. Setting(n) = {p} /\ ~Copying(n) BY <2>4, <3>1 DEF Orderly, Sole
    <3>3. Setting(n)' = {}
      <4>1. p \notin Setting(n)' BY <2>2, SettingIs
      <4>2. ASSUME NEW q \in Setting(n)' PROVE FALSE
        <5>1. q \in Proc /\ q # p BY <4>1 DEF Setting
        <5>2. proc'[q] = proc[q] BY <2>2, <5>1 DEF Same
        <5> QED BY <3>2, <5>1, <5>2, SettingIs
      <4> QED BY <4>2
    <3>4. mem[n].serial.len = Len(proc[p].cmd.value) /\ ~mem[n].serial.dirty
      BY <2>2, <2>4, <3>1, <3>2 DEF Orderly, Underway, Between
    <3>5. mem'[n].serial = mem[n].serial BY <2>3, <2>7
    <3>6. Holds(mem'[n], hist'.val[n]) /\ ~mem'[n].serial.dirty
      BY <2>3, <2>7, <3>4, <3>5 DEF Holds
    <3>7. ~Copying(n)' BY <2>1, <3>2 DEF Copying
    <3>8. Sole(n)' BY <3>3 DEF Sole
    <3>9. Between(n)' BY <3>6, <3>7 DEF Between, Holds, Written
    <3>10. Underway(n)' BY <3>3 DEF Underway
    <3> QED BY <3>8, <3>9, <3>10 DEF Orderly
  <2> QED BY <2>6, <2>7
<1>7. CASE Lookup(p)
  <2>1. UNCHANGED <<mem, svc, hist>> BY <1>7, Zenon DEF Lookup
  <2>2. /\ proc[p].pc = "lookup" /\ \A q \in Proc \ {p} : Same(q)
        /\ proc'[p].pc \in {"idle", "kill"}
    BY <1>7, LookupStep
  <2>3. Orderly(n) /\ Untouched(n) BY <1>1, <2>1 DEF CoherentInv
  <2> QED BY <2>2, <2>3, SettingIs, OrderlyMoved
<1>8. CASE KillServer(p)
  <2>1. UNCHANGED <<mem, svc>> BY <1>8 DEF KillServer
  <2>2. /\ proc[p].pc = "kill" /\ \A q \in Proc \ {p} : Same(q)
        /\ proc'[p].pc = "idle" /\ hist'.val = hist.val /\ hist'.torn = hist.torn
    BY <1>8, KillStep
  <2>3. Orderly(n) /\ Untouched(n) BY <1>1, <2>1, <2>2 DEF CoherentInv
  <2> QED BY <2>2, <2>3, SettingIs, OrderlyMoved
<1>9. CASE Interrupt(p)
  <2>1. UNCHANGED <<mem, svc>> BY <1>9 DEF Interrupt
  <2>2. /\ \A q \in Proc \ {p} : Same(q)
        /\ proc'[p].pc = "idle" /\ hist'.val = hist.val
        /\ ~hist.torn[n] /\ ~(proc[p].pc = "value" /\ proc[p].cmd.name = n)
    BY <1>9, InterruptStep
  <2>3. Orderly(n) /\ Untouched(n) BY <1>1, <2>1, <2>2 DEF CoherentInv
  <2> QED BY <2>2, <2>3, SettingIs, OrderlyMoved
<1> QED BY <1>2, <1>3, <1>4, <1>5, <1>6, <1>7, <1>8, <1>9 DEF Setter

LEMMA SettingSame == ASSUME UNCHANGED proc, NEW n PROVE Setting(n)' = Setting(n)
BY DEF Setting

LEMMA OrderlyUnmoved ==
  ASSUME NEW n \in Prop, UNCHANGED proc, Orderly(n), Untouched(n) PROVE Orderly(n)'
<1>1. Setting(n)' = Setting(n) BY SettingSame
<1> QED BY <1>1, OrderlyKept

LEMMA SystemCoherent ==
  ASSUME TypeInv, CoherentInv,
         \/ (\E n \in Updated : UpdateBegin(n)) \/ UpdateEnd
         \/ (\E n \in Prop : ReadBegin(n)) \/ Reading
         \/ ServerExit \/ ServerStart \/ OtherStart
         \/ UNCHANGED vars
  PROVE  CoherentInv'
<1> SUFFICES ASSUME NEW n \in Prop, ~hist'.torn[n] PROVE Orderly(n)' BY DEF CoherentInv
<1>0. Types /\ hist \in Hists /\ svc \in [pc : {"idle", "copy"}, prop : Prop]
  BY DEF TypeInv, Types
<1>1. ASSUME NEW m \in Updated, UpdateBegin(m) PROVE Orderly(n)'
  <2>0. m \in Prop BY PropAssumption
  <2>1. /\ UNCHANGED proc
        /\ hist' = [hist EXCEPT !.torn[m] = hist.torn[m] \/ Writing(m)]
    BY <1>1 DEF UpdateBegin
  <2>2. /\ \A k \in Prop \ {m} : mem'[k] = mem[k]
        /\ svc.pc = "idle" /\ svc' = [pc |-> "copy", prop |-> m]
    BY <1>0, <1>1, <2>0, UpdateBeginStep
  <2>3. (hist.torn[m] \/ Writing(m)) \in BOOLEAN OBVIOUS
  <2>4. /\ hist'.torn[m] = (hist.torn[m] \/ Writing(m)) /\ hist'.val = hist.val
        /\ \A k \in Prop \ {m} : hist'.torn[k] = hist.torn[k]
    BY <1>0, <2>0, <2>1, <2>3, TornStep
  <2>5. CASE n # m
    <3>1. ~Copying(n) /\ ~Copying(n)' BY <2>2, <2>5 DEF Copying
    <3>2. Untouched(n) BY <2>2, <2>4, <2>5, <3>1 DEF Untouched
    <3>3. Orderly(n) BY <2>4, <2>5 DEF CoherentInv
    <3> QED BY <2>1, <3>2, <3>3, OrderlyUnmoved
  <2>6. CASE n = m
    <3>1. Setting(n) = {} BY <2>4, <2>6 DEF Writing
    <3>2. Setting(n)' = {} /\ Copying(n)' BY <2>1, <2>2, <2>6, <3>1, SettingSame DEF Copying
    <3>3. mem'[n].serial.dirty BY <1>0, <1>1, <2>0, <2>6, UpdateBeginStep
    <3> QED BY <3>2, <3>3 DEF Orderly, Sole, Between, Underway
  <2> QED BY <2>5, <2>6
<1>2. CASE UpdateEnd
  <2> DEFINE m == svc.prop
  <2>1. UNCHANGED proc BY <1>2 DEF UpdateEnd
  <2>2. /\ svc.pc = "copy" /\ m \in Prop
        /\ \A k \in Prop \ {m} : mem'[k] = mem[k]
        /\ Holds(mem'[m], NewValue)
        /\ hist' = [hist EXCEPT !.val[m] = NewValue] /\ svc'.pc = "idle"
    BY <1>0, <1>2, UpdateEndStep
  <2>3. /\ hist'.val[m] = NewValue /\ hist'.torn = hist.torn
        /\ \A k \in Prop \ {m} : hist'.val[k] = hist.val[k]
    BY <1>0, <2>2, NewValueType, ValStep
  <2>4. Orderly(n) BY <2>3 DEF CoherentInv
  <2>5. CASE n # m
    <3>1. ~Copying(n) /\ ~Copying(n)' BY <2>2, <2>5 DEF Copying
    <3>2. Untouched(n) BY <2>2, <2>3, <2>5, <3>1 DEF Untouched
    <3> QED BY <2>1, <2>4, <3>2, OrderlyUnmoved
  <2>6. CASE n = m
    <3>1. Setting(n) = {} BY <2>2, <2>4, <2>6 DEF Orderly, Sole, Copying
    <3>2. Setting(n)' = {} BY <2>1, <3>1, SettingSame
    <3>3. Holds(mem'[n], hist'.val[n]) /\ ~mem'[n].serial.dirty
      BY <2>2, <2>3, <2>6 DEF Holds
    <3>4. ~Copying(n)' BY <2>2 DEF Copying
    <3>5. Between(n)' BY <3>3, <3>4 DEF Between, Holds, Written
    <3> QED BY <3>2, <3>4, <3>5 DEF Orderly, Sole, Underway
  <2> QED BY <2>5, <2>6
<1>3. CASE UNCHANGED <<mem, proc, svc, hist>>
  <2>1. Untouched(n) BY <1>3 DEF Untouched, Copying
  <2>2. Orderly(n) BY <1>3 DEF CoherentInv
  <2> QED BY <1>3, <2>1, <2>2, OrderlyUnmoved
<1>4. ASSUME NEW m \in Prop, ReadBegin(m) PROVE UNCHANGED <<mem, proc, svc, hist>>
  BY <1>4 DEF ReadBegin
<1>5. CASE Reading
  <2>1. UNCHANGED <<mem, proc, svc, hist>>
    BY <1>5 DEF Reading, ReadNote, ReadCopy, ReadCheck, ReadEnd
  <2> QED BY <1>3, <2>1
<1>6. CASE ServerExit \/ OtherStart \/ UNCHANGED vars
  <2>1. UNCHANGED <<mem, proc, svc, hist>> BY <1>6 DEF ServerExit, OtherStart, vars
  <2> QED BY <1>3, <2>1
<1>7. CASE ServerStart
  <2>1. UNCHANGED <<mem, proc, svc, hist>> BY <1>7, Zenon DEF ServerStart
  <2> QED BY <1>3, <2>1
<1> QED BY <1>1, <1>2, <1>3, <1>4, <1>5, <1>6, <1>7

LEMMA NextCoherent == TypeInv /\ CoherentInv /\ [Next]_vars => CoherentInv'
BY SetterCoherent, SystemCoherent DEF Next

LEMMA HoldsCopy ==
  ASSUME NEW info \in Infos, NEW v \in Values, Holds(info, v)
  PROVE  Copy(info, info.serial.len) = Append(v, NUL)
BY CopyWritten DEF Holds

(* When nobody is writing a property, and no two writers met and none was  *)
(* interrupted, what lies in memory is the value last written.             *)
THEOREM CoherentMemory == Spec => []Coherent
<1>1. TypeInv /\ CoherentInv => Coherent
  <2> SUFFICES ASSUME TypeInv, CoherentInv, NEW n \in Prop, ~Writing(n), ~hist.torn[n]
               PROVE  /\ mem[n].serial.len = Len(hist.val[n]) /\ ~mem[n].serial.dirty
                      /\ Copy(mem[n], mem[n].serial.len) = Append(hist.val[n], NUL)
    BY DEF Coherent
  <2>1. Setting(n) = {} /\ ~Copying(n) /\ Orderly(n) BY DEF Writing, Copying, CoherentInv
  <2>2. Holds(mem[n], hist.val[n]) BY <2>1 DEF Orderly, Between
  <2>3. mem[n] \in Infos /\ hist.val[n] \in Values BY DEF TypeInv, Types, Hists
  <2> QED BY <2>2, <2>3, HoldsCopy DEF Holds
<1> QED BY <1>1, InitTypeInv, NextTypeInv, InitCoherent, NextCoherent, PTL DEF Spec

-----------------------------------------------------------------------------
(* Whom the signal hits.                                                   *)

LEMMA InitKill == Init => KillInv
<1> SUFFICES ASSUME Init PROVE KillInv OBVIOUS
<1>1. \A p \in Proc : proc[p].pc = "idle" BY DEF Init, Idle
<1> QED BY <1>1 DEF Init, KillInv, Target

LEMMA TargetKept ==
  ASSUME KillInv, NEW p \in Proc, \A q \in Proc \ {p} : Same(q), Target(p)',
         UNCHANGED <<server, other>>
  PROVE  KillInv'
<1>1. ASSUME NEW q \in Proc PROVE Target(q)'
  <2>1. CASE q = p BY <2>1
  <2>2. CASE q # p BY <2>2 DEF KillInv, Target, Same
  <2> QED BY <2>1, <2>2
<1> QED BY <1>1 DEF KillInv

LEMMA NextKill == TypeInv /\ KillInv /\ [Next]_vars => KillInv'
<1> SUFFICES ASSUME TypeInv, KillInv, [Next]_vars PROVE KillInv' OBVIOUS
<1>0. Types BY DEF TypeInv
<1>1. ASSUME NEW p \in Proc, NEW cmd \in Command, Start(p, cmd) PROVE KillInv'
  <2>1. UNCHANGED <<server, other>> BY <1>1, Zenon DEF Start
  <2>2. proc'[p].pc = "find" BY <1>0, <1>1, StartStep
  <2>3. ASSUME NEW q \in Proc PROVE Target(q)'
    <3>1. CASE q = p BY <2>2, <3>1 DEF Target
    <3>2. CASE q # p
      <4>1. \/ Same(q)
            \/ proc'[q].pc = proc[q].pc /\ Kept(proc'[q], proc[q])
        BY <1>0, <1>1, <3>2, StartStep
      <4> QED BY <2>1, <4>1 DEF KillInv, Target, Same, Kept
    <3> QED BY <3>1, <3>2
  <2> QED BY <2>1, <2>3 DEF KillInv
<1>2. ASSUME NEW p \in Proc, FindProp(p) \/ ReadSerial(p) \/ WriteSerial(p) \/ WriteValue(p)
      PROVE  KillInv'
  <2>1. UNCHANGED <<server, other>> BY <1>2 DEF FindProp, ReadSerial, WriteSerial, WriteValue
  <2>2. proc'[p].pc # "kill" /\ \A q \in Proc \ {p} : Same(q)
    BY <1>2, FindStep, ReadSerialStep, WriteSerialStep, WriteValueStep
  <2>3. Target(p)' BY <2>2 DEF Target
  <2> QED BY <2>1, <2>2, <2>3, TargetKept
<1>3. ASSUME NEW p \in Proc, Interrupt(p) PROVE KillInv'
  <2>1. UNCHANGED <<server, other>> BY <1>3 DEF Interrupt
  <2>2. proc'[p].pc = "idle" /\ \A q \in Proc \ {p} : Same(q) BY <1>3, InterruptStep
  <2>3. Target(p)' BY <2>2 DEF Target
  <2> QED BY <2>1, <2>2, <2>3, TargetKept
<1>4. ASSUME NEW p \in Proc, Lookup(p) PROVE KillInv'
  <2>1. UNCHANGED <<server, other>> BY <1>4, Zenon DEF Lookup
  <2>2. /\ \A q \in Proc \ {p} : Same(q)
        /\ \/ proc'[p].pc = "idle"
           \/ server.pid # 0 /\ proc'[p].pid = server.pid /\ proc'[p].gen = server.gen
    BY <1>4, LookupStep
  <2>3. server.gen \in Nat BY <1>0 DEF Types, Servers
  <2>4. Target(p)' BY <2>1, <2>2, <2>3 DEF Target
  <2> QED BY <2>1, <2>2, <2>4, TargetKept
<1>5. ASSUME NEW p \in Proc, KillServer(p) PROVE KillInv'
  <2>1. /\ proc'[p].pc = "idle" /\ server'.gen = server.gen
        /\ server'.pid = (IF proc[p].pid = server.pid THEN 0 ELSE server.pid)
        /\ other' = (IF proc[p].pid = other THEN 0 ELSE other)
        /\ \A q \in Proc \ {p} : Same(q)
    BY <1>5, KillStep
  <2>2. ASSUME NEW q \in Proc PROVE Target(q)'
    <3>1. CASE q = p BY <2>1, <3>1 DEF Target
    <3>2. CASE q # p BY <2>1, <3>2 DEF Target, Same, KillInv
    <3> QED BY <3>1, <3>2
  <2> QED BY <2>1, <2>2 DEF KillInv
<1>6. ASSUME UNCHANGED proc,
             \/ /\ server'.gen = server.gen /\ server'.pid \in {server.pid, 0}
                /\ other' # 0 => other' = other \/ other' # server'.pid
             \/ server'.gen = server.gen + 1 /\ server'.pid # other /\ other' = other
      PROVE  KillInv'
  <2>1. ASSUME NEW q \in Proc, proc[q].pc = "kill"
        PROVE  proc[q].gen \in Nat /\ server.gen \in Nat
    <3>1. proc[q] \in Active BY <1>0, <2>1, ActiveType DEF Types
    <3> QED BY <1>0, <3>1 DEF Active, Types, Servers
  <2>2. ASSUME NEW q \in Proc PROVE Target(q)'
    BY <1>6, <2>1 DEF KillInv, Target
  <2> QED BY <1>6, <2>2 DEF KillInv
<1>7. CASE ServerExit
  <2>1. UNCHANGED <<proc, other>> BY <1>7 DEF ServerExit
  <2> QED BY <1>0, <1>6, <1>7, <2>1, ServerExitStep
<1>8. CASE ServerStart
  <2>1. UNCHANGED <<proc, other>> BY <1>8, Zenon DEF ServerStart
  <2> QED BY <1>0, <1>6, <1>8, <2>1, ServerStartStep
<1>9. CASE OtherStart
  <2>1. UNCHANGED <<proc, server>> /\ other' # server.pid BY <1>9 DEF OtherStart
  <2> QED BY <1>6, <2>1
<1>10. CASE UNCHANGED <<proc, server, other>> BY <1>6, <1>10
<1>11. ASSUME NEW n \in Prop, UpdateBegin(n) \/ ReadBegin(n)
       PROVE  UNCHANGED <<proc, server, other>>
  BY <1>11 DEF UpdateBegin, ReadBegin
<1>12. ASSUME UpdateEnd \/ Reading \/ UNCHANGED vars PROVE UNCHANGED <<proc, server, other>>
  BY <1>12 DEF UpdateEnd, Reading, ReadNote, ReadCopy, ReadCheck, ReadEnd, vars
<1>13. Updated \subseteq Prop BY PropAssumption
<1> QED BY <1>1, <1>2, <1>3, <1>4, <1>5, <1>7, <1>8, <1>9, <1>10, <1>11, <1>12, <1>13
        DEF Next, Setter

(* setdebuggable's signal hits another process only if system_server went  *)
(* away between the lookup of its pid and the kill.                        *)
THEOREM SignalHitsTheServer == Spec => KillRace
<1>1. ASSUME TypeInv, KillInv, [Next]_vars, NEW p \in Proc,
             proc[p].pc = "kill", proc'[p].pc = "idle", other # 0, other' = 0
      PROVE  server.pid = 0 \/ server.gen # proc[p].gen
  <2>0. Types BY <1>1 DEF TypeInv
  <2>1. PICK q \in Proc : KillServer(q)
    <3>1. ASSUME ~\E q \in Proc : KillServer(q) PROVE FALSE
      <4>1. ASSUME NEW q \in Proc,
                   \/ FindProp(q) \/ ReadSerial(q) \/ WriteSerial(q) \/ WriteValue(q)
                   \/ Interrupt(q)
            PROVE  other' = other
        BY <4>1 DEF FindProp, ReadSerial, WriteSerial, WriteValue, Interrupt
      <4>2. ASSUME NEW q \in Proc, Lookup(q) PROVE other' = other
        BY <4>2, Zenon DEF Lookup
      <4>3. ASSUME NEW q \in Proc, NEW cmd \in Command, Start(q, cmd) PROVE other' = other
        BY <4>3, Zenon DEF Start
      <4>4. ASSUME NEW n, UpdateBegin(n) \/ ReadBegin(n) PROVE other' = other
        BY <4>4 DEF UpdateBegin, ReadBegin
      <4>5. ASSUME UpdateEnd \/ Reading \/ ServerExit \/ UNCHANGED vars PROVE other' = other
        BY <4>5 DEF UpdateEnd, Reading, ReadNote, ReadCopy, ReadCheck, ReadEnd, ServerExit, vars
      <4>6. ASSUME ServerStart PROVE other' = other BY <4>6, Zenon DEF ServerStart
      <4>7. ~OtherStart BY <1>1 DEF OtherStart
      <4> QED BY <1>1, <3>1, <4>1, <4>2, <4>3, <4>4, <4>5, <4>6, <4>7 DEF Next, Setter
    <3> QED BY <3>1
  <2>2. /\ proc[q].pc = "kill" /\ other' = (IF proc[q].pid = other THEN 0 ELSE other)
        /\ \A k \in Proc \ {q} : Same(k)
    BY <1>1, <2>1, KillStep
  <2>3. q = p BY <1>1, <2>2 DEF Same
  <2>4. proc[p].pid = other BY <1>1, <2>2, <2>3
  <2> QED BY <1>1, <2>4 DEF KillInv, Target
<1>2. TypeInv /\ KillInv /\ [Next]_vars =>
        [\A p \in Proc :
           (proc[p].pc = "kill" /\ proc'[p].pc = "idle" /\ other # 0 /\ other' = 0)
             => server.pid = 0 \/ server.gen # proc[p].gen]_vars
  BY <1>1
<1> QED BY <1>2, InitTypeInv, NextTypeInv, InitKill, NextKill, PTL DEF Spec, KillRace

-----------------------------------------------------------------------------
(* What a restarted system_server sees.                                    *)

LEMMA InitReboot == Init => RebootInv
<1> SUFFICES ASSUME Init PROVE RebootInv OBVIOUS
<1>1. \A p \in Proc : proc[p].pc = "idle" BY DEF Init, Idle
<1>2. hist.asked = NoAsk BY DEF Init
<1> QED BY <1>1, <1>2 DEF RebootInv, Alone, Effect, Done, Busy, Asked

(* A setter that goes on keeps its command, and never becomes alone.       *)
GoesOn(p) ==
  /\ \A q \in Proc \ {p} : Same(q)
  /\ proc[p].pc # "idle"
  /\ proc'[p].pc # "idle" => proc'[p].cmd = proc[p].cmd /\ (proc'[p].solo => proc[p].solo)

LEMMA AloneMoved ==
  ASSUME Alone, NEW p \in Proc, GoesOn(p) PROVE Alone'
<1> SUFFICES ASSUME NEW q \in Proc, NEW r \in Proc, proc'[q].pc # "idle", proc'[r].pc # "idle",
                    proc'[q].cmd.name = proc'[r].cmd.name, proc'[q].solo
             PROVE  q = r
  BY DEF Alone
<1>1. proc[q].pc # "idle" /\ proc[q].cmd = proc'[q].cmd /\ proc[q].solo
  BY DEF GoesOn, Same
<1>2. proc[r].pc # "idle" /\ proc[r].cmd = proc'[r].cmd BY DEF GoesOn, Same
<1> QED BY <1>1, <1>2 DEF Alone

(* Only a setter of ro.debuggable writes it: one that is alone is not      *)
(* disturbed by the others.                                                *)
LEMMA EffectMoved ==
  ASSUME Alone, Effect, NEW p \in Proc, GoesOn(p), Done(p)',
         mem'[Debuggable] = mem[Debuggable] \/ Busy(p)
  PROVE  Effect'
<1> SUFFICES ASSUME NEW q \in Proc PROVE Done(q)' BY DEF Effect
<1>1. CASE q = p BY <1>1
<1>2. CASE q # p
  <2> SUFFICES ASSUME Busy(q)', proc'[q].solo
               PROVE  /\ proc'[q].pc = "serial" => proc'[q].serial.len = Len(proc'[q].cmd.value)
                      /\ proc'[q].pc = "value"
                           => mem'[Debuggable].serial.len = Len(proc'[q].cmd.value)
                      /\ proc'[q].pc \in {"lookup", "kill"}
                           => Has(mem'[Debuggable], proc'[q].cmd.value)
    BY DEF Done, Has, Written
  <2>1. proc'[q] = proc[q] BY <1>2 DEF GoesOn, Same
  <2>2. Busy(q) /\ proc[q].solo BY <2>1 DEF Busy
  <2>3. ~Busy(p) BY <1>2, <2>2 DEF Busy, Alone
  <2>4. mem'[Debuggable] = mem[Debuggable] BY <2>3
  <2> QED BY <2>1, <2>2, <2>4 DEF Effect, Done
<1> QED BY <1>1, <1>2

LEMMA AskedMoved ==
  ASSUME Asked, NEW p \in Proc, GoesOn(p), UNCHANGED server, hist'.asked = hist.asked,
         mem'[Debuggable] = mem[Debuggable] \/ Busy(p)
  PROVE  Asked'
<1> SUFFICES ASSUME hist'.asked # NoAsk
             PROVE  /\ \A q \in Proc : ~Busy(q)'
                    /\ Has(mem'[Debuggable], hist'.asked.value)
                    /\ server'.gen >= hist'.asked.gen
                    /\ server'.pid # 0 =>
                         server'.gen > hist'.asked.gen /\ server'.seen = hist'.asked.value
  BY DEF Asked, NoAsk, Has, Written
<1>1. /\ \A q \in Proc : ~Busy(q)
      /\ Has(mem[Debuggable], hist.asked.value) /\ server.gen >= hist.asked.gen
      /\ server.pid # 0 => server.gen > hist.asked.gen /\ server.seen = hist.asked.value
  BY DEF Asked
<1>2. mem'[Debuggable] = mem[Debuggable] BY <1>1
<1>3. Has(mem'[Debuggable], hist'.asked.value) BY <1>1, <1>2
<1>4. ASSUME NEW q \in Proc PROVE ~Busy(q)'
  BY <1>1 DEF Busy, GoesOn, Same
<1> QED BY <1>1, <1>3, <1>4

LEMMA RebootMoved ==
  ASSUME RebootInv, NEW p \in Proc, GoesOn(p), Done(p)', UNCHANGED server,
         hist'.asked = hist.asked, mem'[Debuggable] = mem[Debuggable] \/ Busy(p)
  PROVE  RebootInv'
<1>1. Alone' BY AloneMoved DEF RebootInv
<1>2. Effect' BY EffectMoved DEF RebootInv
<1>3. Asked' BY AskedMoved DEF RebootInv
<1> QED BY <1>1, <1>2, <1>3 DEF RebootInv

LEMMA StartReboot ==
  ASSUME TypeInv, RebootInv, NEW p \in Proc, NEW cmd \in Command, Start(p, cmd)
  PROVE  RebootInv'
<1>0. Types /\ Alone /\ Effect /\ Asked BY DEF TypeInv, RebootInv
<1>1. UNCHANGED <<mem, server>> BY Zenon DEF Start
<1>2. /\ proc[p].pc = "idle" /\ proc'[p].pc = "find" /\ proc'[p].cmd = cmd
      /\ proc'[p].solo => \A q \in Proc : proc[q].pc # "idle" => proc[q].cmd.name # cmd.name
  BY <1>0, StartStep
<1>3. ASSUME NEW q \in Proc \ {p}
      PROVE  \/ Same(q) /\ (proc[q].pc = "idle" \/ proc[q].cmd.name # cmd.name)
             \/ proc[q].pc # "idle" /\ proc'[q].cmd = proc[q].cmd /\ ~proc'[q].solo
  BY <1>0, StartStep DEF Kept
<1>4. IF cmd.name = Debuggable THEN hist'.asked = NoAsk ELSE hist'.asked = hist.asked
  BY <1>0, StartAsk
<1>5. Alone'
  <2> SUFFICES ASSUME NEW q \in Proc, NEW r \in Proc, proc'[q].pc # "idle", proc'[r].pc # "idle",
                      proc'[q].cmd.name = proc'[r].cmd.name, proc'[q].solo
               PROVE  q = r
    BY DEF Alone
  <2>1. CASE q = p /\ r # p
    <3>1. proc[r].pc # "idle" /\ proc[r].cmd = proc'[r].cmd BY <1>3, <2>1 DEF Same
    <3> QED BY <1>2, <2>1, <3>1
  <2>2. CASE q # p
    <3>1. /\ proc'[q] = proc[q] /\ proc[q].pc # "idle" /\ proc[q].cmd.name # cmd.name
          /\ proc[q].solo
      BY <1>3, <2>2 DEF Same
    <3>2. r # p BY <1>2, <3>1
    <3>3. proc[r].pc # "idle" /\ proc[r].cmd = proc'[r].cmd BY <1>3, <3>2 DEF Same
    <3> QED BY <1>0, <3>1, <3>3 DEF Alone
  <2> QED BY <2>1, <2>2
<1>6. Effect'
  <2> SUFFICES ASSUME NEW q \in Proc PROVE Done(q)' BY DEF Effect
  <2>1. CASE q = p BY <1>2, <2>1 DEF Done
  <2>2. CASE q # p
    <3>1. Same(q) \/ ~proc'[q].solo BY <1>3, <2>2
    <3> QED BY <1>0, <1>1, <3>1 DEF Effect, Done, Busy, Same, Has, Written
  <2> QED BY <2>1, <2>2
<1>7. Asked'
  <2>1. CASE cmd.name = Debuggable BY <1>4, <2>1 DEF Asked
  <2>2. CASE cmd.name # Debuggable
    <3>1. hist'.asked = hist.asked BY <1>4, <2>2
    <3>2. ASSUME NEW q \in Proc, ~Busy(q) PROVE ~Busy(q)'
      BY <1>2, <1>3, <2>2, <3>2 DEF Busy, Same
    <3> QED BY <1>0, <1>1, <3>1, <3>2 DEF Asked, Has, Written
  <2> QED BY <2>1, <2>2
<1> QED BY <1>5, <1>6, <1>7 DEF RebootInv

LEMMA SetterReboot ==
  ASSUME TypeInv, RebootInv, NEW p \in Proc, Setter(p) \/ Interrupt(p)
  PROVE  RebootInv'
<1> DEFINE m == proc[p].cmd.name
           v == proc[p].cmd.value
<1>0. Types /\ hist \in Hists /\ Debuggable \in Prop BY PropAssumption DEF TypeInv, Types
<1>1. ASSUME proc'[p].pc \in {"idle", "find", "read"} PROVE Done(p)' BY <1>1 DEF Done, Busy
<1>2. CASE FindProp(p)
  <2>1. UNCHANGED <<mem, server, hist>> BY <1>2 DEF FindProp
  <2>2. GoesOn(p) /\ proc'[p].pc \in {"idle", "read"} BY <1>2, FindStep DEF GoesOn
  <2> QED BY <1>1, <2>1, <2>2, RebootMoved
<1>3. CASE ReadSerial(p)
  <2>1. /\ UNCHANGED <<mem, server>>
        /\ hist' = [hist EXCEPT !.torn[m] = hist.torn[m] \/ Writing(m)]
    BY <1>3 DEF ReadSerial
  <2>2. /\ GoesOn(p) /\ m \in Prop /\ proc'[p].pc = "serial" /\ proc'[p].cmd = proc[p].cmd
        /\ proc'[p].serial = NewSerial(mem[m].serial, v) /\ proc[p].pc = "read"
    BY <1>3, ReadSerialStep DEF GoesOn, Kept
  <2>3. (hist.torn[m] \/ Writing(m)) \in BOOLEAN OBVIOUS
  <2>4. hist'.asked = hist.asked BY <1>0, <2>1, <2>2, <2>3, TornStep
  <2>5. mem[m].serial \in Serials /\ v \in Values
    BY <1>0, <2>2 DEF TypeInv, Located, Found, Types, Infos
  <2>6. proc'[p].serial.len = Len(proc'[p].cmd.value) BY <2>2, <2>5, NewSerialType
  <2>7. Done(p)' BY <2>2, <2>6 DEF Done
  <2> QED BY <2>1, <2>2, <2>4, <2>7, RebootMoved
<1>4. CASE WriteSerial(p)
  <2>1. UNCHANGED server BY <1>4 DEF WriteSerial
  <2>2. /\ proc[p].pc = "serial" /\ m \in Prop /\ proc'[p].pc = "value"
        /\ \A q \in Proc \ {p} : Same(q)
        /\ proc'[p].cmd = proc[p].cmd /\ \A k \in Prop \ {m} : mem'[k] = mem[k]
    BY <1>4, WriteSerialStep DEF Kept
  <2>3. \/ /\ mem'[m].serial = proc[p].serial /\ hist' = hist
           /\ proc'[p].solo = proc[p].solo
        \/ ~proc'[p].solo /\ hist' = [hist EXCEPT !.torn[m] = TRUE]
    BY <1>4, WriteSerialStep
  <2>4. GoesOn(p) BY <2>2, <2>3 DEF GoesOn
  <2>5. hist'.asked = hist.asked BY <1>0, <2>2, <2>3, TornStep
  <2>6. mem'[Debuggable] = mem[Debuggable] \/ Busy(p) BY <1>0, <2>2 DEF Busy
  <2>7. Done(p)'
    <3> SUFFICES ASSUME Busy(p)', proc'[p].solo
                 PROVE  mem'[Debuggable].serial.len = Len(proc'[p].cmd.value)
      BY <2>2 DEF Done
    <3>1. m = Debuggable /\ Busy(p) BY <2>2 DEF Busy
    <3>2. mem'[m].serial = proc[p].serial /\ proc[p].solo BY <2>3
    <3>3. proc[p].serial.len = Len(v) BY <2>2, <3>1, <3>2 DEF RebootInv, Effect, Done
    <3> QED BY <2>2, <3>1, <3>2, <3>3
  <2> QED BY <2>1, <2>4, <2>5, <2>6, <2>7, RebootMoved
<1>5. CASE WriteValue(p)
  <2>1. UNCHANGED server BY <1>5 DEF WriteValue
  <2>2. /\ proc[p].pc = "value" /\ m \in Prop /\ v \in Values
        /\ \A q \in Proc \ {p} : Same(q)
        /\ \A k \in Prop \ {m} : mem'[k] = mem[k]
        /\ \/ proc'[p].pc = "idle"
           \/ /\ proc'[p].pc = "lookup" /\ proc'[p].cmd = proc[p].cmd
              /\ proc'[p].solo = proc[p].solo
    BY <1>5, WriteValueStep DEF Kept
  <2>3. \/ /\ mem'[m].serial = mem[m].serial /\ Written(mem'[m].cell, v)
           /\ hist' = [hist EXCEPT !.val[m] = v]
        \/ proc'[p].pc = "idle" /\ hist' = [hist EXCEPT !.torn[m] = TRUE]
    BY <1>5, WriteValueStep
  <2>4. GoesOn(p) BY <2>2 DEF GoesOn
  <2>5. hist'.asked = hist.asked BY <1>0, <2>2, <2>3, TornStep, ValStep
  <2>6. mem'[Debuggable] = mem[Debuggable] \/ Busy(p) BY <1>0, <2>2 DEF Busy
  <2>7. Done(p)'
    <3> SUFFICES ASSUME Busy(p)', proc'[p].solo, proc'[p].pc # "idle"
                 PROVE  Has(mem'[Debuggable], proc'[p].cmd.value)
      BY <2>2 DEF Done, Busy, Has, Written
    <3>1. m = Debuggable /\ Busy(p) /\ proc[p].solo BY <2>2 DEF Busy
    <3>2. mem'[m].serial = mem[m].serial /\ Written(mem'[m].cell, v) BY <2>3
    <3>3. mem[m].serial.len = Len(v) BY <2>2, <3>1, <3>2 DEF RebootInv, Effect, Done
    <3>4. Has(mem'[m], v) BY <3>2, <3>3 DEF Has
    <3> QED BY <2>2, <3>1, <3>4
  <2> QED BY <2>1, <2>4, <2>5, <2>6, <2>7, RebootMoved
<1>6. CASE Lookup(p)
  <2>1. UNCHANGED <<mem, server, hist>> BY <1>6, Zenon DEF Lookup
  <2>2. /\ proc[p].pc = "lookup" /\ \A q \in Proc \ {p} : Same(q)
        /\ \/ proc'[p].pc = "idle"
           \/ /\ proc'[p].pc = "kill" /\ proc'[p].cmd = proc[p].cmd
              /\ proc'[p].solo = proc[p].solo
    BY <1>6, LookupStep
  <2>3. GoesOn(p) BY <2>2 DEF GoesOn
  <2>4. Done(p)'
    <3> SUFFICES ASSUME Busy(p)', proc'[p].solo, proc'[p].pc # "idle"
                 PROVE  Has(mem'[Debuggable], proc'[p].cmd.value)
      BY <2>2 DEF Done, Busy, Has, Written
    <3>1. Busy(p) /\ proc[p].solo BY <2>2 DEF Busy
    <3>2. Has(mem[Debuggable], v) BY <2>2, <3>1 DEF RebootInv, Effect, Done
    <3> QED BY <2>1, <2>2, <3>2
  <2> QED BY <2>1, <2>3, <2>4, RebootMoved
<1>7. CASE KillServer(p)
  <2>1. UNCHANGED mem BY <1>7 DEF KillServer
  <2>2. /\ proc[p].pc = "kill" /\ m = Debuggable
        /\ proc'[p].pc = "idle" /\ server'.gen = server.gen
        /\ server'.pid = (IF proc[p].pid = server.pid THEN 0 ELSE server.pid)
        /\ \A q \in Proc \ {p} : Same(q)
    BY <1>7, KillStep
  <2>3. \/ /\ proc[p].pid = server.pid /\ proc[p].solo
           /\ hist'.asked = [value |-> v, gen |-> server.gen]
        \/ hist'.asked = NoAsk
    BY <1>7, KillStep
  <2>4. GoesOn(p) /\ Done(p)' BY <1>1, <2>2 DEF GoesOn
  <2>5. Alone' /\ Effect' BY <2>1, <2>4, AloneMoved, EffectMoved DEF RebootInv
  <2>6. CASE hist'.asked = NoAsk BY <2>5, <2>6 DEF RebootInv, Asked
  <2>7. CASE /\ proc[p].pid = server.pid /\ proc[p].solo
             /\ hist'.asked = [value |-> v, gen |-> server.gen]
    <3>1. Busy(p) BY <2>2 DEF Busy
    <3>2. Has(mem[Debuggable], v) BY <2>2, <2>7, <3>1 DEF RebootInv, Effect, Done
    <3>3. Has(mem'[Debuggable], hist'.asked.value) BY <2>1, <2>7, <3>2
    <3>4. ASSUME NEW q \in Proc PROVE ~Busy(q)'
      <4>1. CASE q = p BY <2>2, <4>1 DEF Busy
      <4>2. CASE q # p BY <2>2, <2>7, <3>1, <4>2 DEF Busy, Same, RebootInv, Alone
      <4> QED BY <4>1, <4>2
    <3>5. hist'.asked.gen = server.gen /\ server'.pid = 0 BY <2>2, <2>7
    <3>6. server.gen \in Nat BY <1>0 DEF Types, Servers
    <3>7. Asked' BY <2>2, <3>3, <3>4, <3>5, <3>6 DEF Asked, Has, Written
    <3> QED BY <2>5, <3>7 DEF RebootInv
  <2> QED BY <2>3, <2>6, <2>7
<1>8. CASE Interrupt(p)
  <2>1. UNCHANGED <<mem, server>> BY <1>8 DEF Interrupt
  <2>2. GoesOn(p) /\ proc'[p].pc = "idle" /\ hist'.asked = hist.asked
    BY <1>8, InterruptStep DEF GoesOn
  <2> QED BY <1>1, <2>1, <2>2, RebootMoved
<1> QED BY <1>2, <1>3, <1>4, <1>5, <1>6, <1>7, <1>8 DEF Setter

LEMMA SystemReboot ==
  ASSUME TypeInv, RebootInv,
         \/ (\E n \in Updated : UpdateBegin(n)) \/ UpdateEnd
         \/ (\E n \in Prop : ReadBegin(n)) \/ Reading
         \/ ServerExit \/ ServerStart \/ OtherStart
         \/ UNCHANGED vars
  PROVE  RebootInv'
<1>0. Types /\ hist \in Hists /\ Debuggable \in Prop BY PropAssumption DEF TypeInv, Types
<1>1. ASSUME UNCHANGED proc, mem'[Debuggable] = mem[Debuggable], hist'.asked = hist.asked,
             \/ UNCHANGED server
             \/ server'.pid = 0 /\ server'.gen = server.gen
             \/ /\ server'.gen = server.gen + 1
                /\ server'.seen = SubSeq(Copy(mem[Debuggable], mem[Debuggable].serial.len), 1,
                                         mem[Debuggable].serial.len)
      PROVE  RebootInv'
  <2>1. Alone' BY <1>1 DEF RebootInv, Alone
  <2>2. Effect'
    <3> SUFFICES ASSUME NEW p \in Proc PROVE Done(p)' BY DEF Effect
    <3>1. Done(p) BY DEF RebootInv, Effect
    <3> QED BY <1>1, <3>1 DEF Done, Busy, Has, Written
  <2>3. Asked'
    <3> SUFFICES ASSUME hist'.asked # NoAsk
                 PROVE  /\ \A q \in Proc : ~Busy(q)'
                        /\ Has(mem'[Debuggable], hist'.asked.value)
                        /\ server'.gen >= hist'.asked.gen
                        /\ server'.pid # 0 =>
                             server'.gen > hist'.asked.gen /\ server'.seen = hist'.asked.value
      BY DEF Asked, NoAsk, Has, Written
    <3> DEFINE v == hist.asked.value
    <3>1. /\ \A q \in Proc : ~Busy(q)
          /\ Has(mem[Debuggable], v) /\ server.gen >= hist.asked.gen
          /\ server.pid # 0 => server.gen > hist.asked.gen /\ server.seen = v
      BY <1>1 DEF RebootInv, Asked
    <3>2. mem[Debuggable] \in Infos /\ v \in Values BY <1>0 DEF Types, Hists
    <3>3. SubSeq(Copy(mem[Debuggable], mem[Debuggable].serial.len), 1,
                 mem[Debuggable].serial.len) = v
      BY <3>1, <3>2, SeenWritten DEF Has
    <3>4. server.gen \in Nat /\ hist.asked.gen \in Nat BY <1>0 DEF Types, Servers, Hists
    <3>5. \A q \in Proc : ~Busy(q)' BY <1>1, <3>1 DEF Busy
    <3>6. Has(mem'[Debuggable], hist'.asked.value) BY <1>1, <3>1
    <3>7. \/ UNCHANGED server
          \/ server'.pid = 0 /\ server'.gen = server.gen
          \/ server'.gen = server.gen + 1 /\ server'.seen = v
      BY <1>1, <3>3
    <3>8. hist'.asked.gen = hist.asked.gen /\ hist'.asked.value = v BY <1>1
    <3>9. server'.gen >= hist.asked.gen BY <3>1, <3>4, <3>7
    <3>10. server'.pid # 0 => server'.gen > hist.asked.gen /\ server'.seen = v
      BY <3>1, <3>4, <3>7
    <3> QED BY <3>5, <3>6, <3>8, <3>9, <3>10
  <2> QED BY <2>1, <2>2, <2>3 DEF RebootInv
<1>2. ASSUME NEW n \in Updated, UpdateBegin(n) PROVE RebootInv'
  <2>0. n \in Prop /\ n # Debuggable BY PropAssumption
  <2>1. /\ UNCHANGED <<proc, server>>
        /\ hist' = [hist EXCEPT !.torn[n] = hist.torn[n] \/ Writing(n)]
    BY <1>2 DEF UpdateBegin
  <2>2. (hist.torn[n] \/ Writing(n)) \in BOOLEAN OBVIOUS
  <2>3. hist'.asked = hist.asked BY <1>0, <2>0, <2>1, <2>2, TornStep
  <2>4. mem'[Debuggable] = mem[Debuggable] BY <1>0, <1>2, <2>0, UpdateBeginStep
  <2> QED BY <1>1, <2>1, <2>3, <2>4
<1>3. CASE UpdateEnd
  <2>1. UNCHANGED <<proc, server>> BY <1>3 DEF UpdateEnd
  <2>2. /\ svc.pc = "copy" /\ svc.prop \in Prop
        /\ \A m \in Prop \ {svc.prop} : mem'[m] = mem[m]
        /\ hist' = [hist EXCEPT !.val[svc.prop] = NewValue]
    BY <1>0, <1>3, UpdateEndStep
  <2>3. svc.prop # Debuggable BY <2>2, PropAssumption DEF TypeInv, Services
  <2>4. hist'.asked = hist.asked BY <1>0, <2>2, NewValueType, ValStep
  <2> QED BY <1>0, <1>1, <2>1, <2>2, <2>3, <2>4
<1>4. ASSUME NEW n \in Prop, ReadBegin(n) PROVE RebootInv'
  <2>1. UNCHANGED <<mem, proc, server, hist>> BY <1>4 DEF ReadBegin
  <2> QED BY <1>1, <2>1
<1>5. CASE Reading \/ OtherStart \/ UNCHANGED vars
  <2>1. UNCHANGED <<mem, proc, server, hist>>
    BY <1>5 DEF Reading, ReadNote, ReadCopy, ReadCheck, ReadEnd, OtherStart, vars
  <2> QED BY <1>1, <2>1
<1>6. CASE ServerExit
  <2>1. UNCHANGED <<mem, proc, hist>> BY <1>6 DEF ServerExit
  <2> QED BY <1>0, <1>1, <1>6, <2>1, ServerExitStep
<1>7. CASE ServerStart
  <2>1. UNCHANGED <<mem, proc, hist>> BY <1>7, Zenon DEF ServerStart
  <2> QED BY <1>0, <1>1, <1>7, <2>1, ServerStartStep
<1> QED BY <1>2, <1>3, <1>4, <1>5, <1>6, <1>7

LEMMA NextReboot == TypeInv /\ RebootInv /\ [Next]_vars => RebootInv'
BY StartReboot, SetterReboot, SystemReboot DEF Next

(* setdebuggable sets the property before it kills system_server: unless   *)
(* another command set it too, the server that comes up has the value that *)
(* was asked for.                                                          *)
THEOREM HotRebootWorks == Spec => []HotRebootSees
<1>1. RebootInv => HotRebootSees BY DEF RebootInv, Asked, HotRebootSees
<1> QED BY <1>1, InitTypeInv, NextTypeInv, InitReboot, NextReboot, PTL DEF Spec

-----------------------------------------------------------------------------
(* What a reader gets.                                                     *)

(* What a step of somebody else may change of a reader.                    *)
ReadLater ==
  /\ reader \in Reads /\ reader' \in Reads
  /\ reader'.pc = reader.pc /\ reader'.prop = reader.prop /\ reader'.serial = reader.serial
  /\ reader'.copy = reader.copy /\ reader'.inside = reader.inside
  /\ reader.vals \subseteq reader'.vals /\ reader'.writes >= reader.writes

(* What such a step may do to the serial: nothing, and then only a setter  *)
(* the reader counts can come in; the service begins, or ends; a setter's  *)
(* first write.                                                            *)
SerialStep(n) ==
  \/ /\ mem'[n].serial = mem[n].serial
     /\ (Setting(n) = {} /\ reader.writes = 1) => Setting(n)' = {} \/ reader'.writes >= 2
  \/ mem'[n].serial.dirty /\ mem'[n].serial.count = mem[n].serial.count
  \/ mem[n].serial.dirty /\ mem'[n].serial.count = mem[n].serial.count + 1
  \/ /\ ~mem[n].serial.dirty /\ Setting(n) # {}
     /\ mem'[n].serial.count = mem[n].serial.count

LEMMA ReadKept ==
  ASSUME NEW n \in Prop, mem[n] \in Infos, mem'[n] \in Infos, ReadOk(n), ReadLater,
         SerialStep(n), hist'.val[n] \in reader'.vals, Setting(n)' # {} => reader'.writes >= 1
  PROVE  ReadOk(n)'
<1> DEFINE s == mem[n].serial
           s1 == mem'[n].serial
           r == reader.serial
<1>1. s \in Serials /\ s1 \in Serials BY DEF Infos
<1>2. s.count \in Nat /\ s1.count \in Nat /\ s1.count >= s.count
  BY <1>1 DEF Serials, SerialStep
<1>3. /\ r \in Serials /\ r.count \in Nat /\ reader'.serial = r
      /\ reader.writes \in Nat /\ reader'.writes \in Nat /\ reader'.writes >= reader.writes
      /\ reader'.pc = reader.pc /\ reader'.copy = reader.copy
      /\ reader'.inside = reader.inside /\ reader.vals \subseteq reader'.vals
  BY DEF ReadLater, Reads, Serials
<1>4. Noted(n)' BY <1>2, <1>3 DEF ReadOk, Noted
<1>5. Changed(n)'
  <2> SUFFICES ASSUME reader.pc = "copy"
               PROVE  r = s1 \/ r.count < s1.count \/ s1.dirty \/ reader'.writes >= 1
    BY <1>3 DEF Changed
  <2>1. r = s \/ r.count < s.count \/ s.dirty \/ reader.writes >= 1 BY DEF ReadOk, Changed
  <2>2. r.count <= s.count BY DEF ReadOk, Noted
  <2>3. CASE r.count < s.count \/ reader.writes >= 1 BY <1>2, <1>3, <2>3
  <2>4. CASE r = s \/ s.dirty
    <3>1. s1 = s \/ s1.dirty \/ s1.count = s.count + 1 \/ Setting(n) # {} BY DEF SerialStep
    <3>2. Setting(n) # {} => reader.writes >= 1 BY DEF ReadOk
    <3> QED BY <1>2, <1>3, <2>2, <2>4, <3>1, <3>2
  <2> QED BY <2>1, <2>3, <2>4
<1>6. Copied(n)'
  <2> SUFFICES ASSUME reader.pc \in {"check", "done"}, reader'.writes <= 1, ~reader.inside
               PROVE  \/ reader.copy \in {Append(v, NUL) : v \in reader'.vals}
                      \/ reader.pc = "check" /\ Stale(n)'
    BY <1>3 DEF Copied
  <2>1. reader.writes <= 1 BY <1>3
  <2>2. \/ reader.copy \in {Append(v, NUL) : v \in reader.vals}
        \/ reader.pc = "check" /\ Stale(n)
    BY <2>1 DEF ReadOk, Copied
  <2>3. CASE reader.copy \in {Append(v, NUL) : v \in reader.vals} BY <1>3, <2>3
  <2>4. CASE reader.pc = "check" /\ Stale(n)
    <3>0. r.count <= s.count BY <2>4 DEF ReadOk, Noted
    <3>1. CASE r.count < s.count BY <1>2, <1>3, <2>4, <3>1 DEF Stale
    <3>2. CASE s.dirty
      <4>1. s1.dirty \/ s1.count = s.count + 1 BY <3>2 DEF SerialStep
      <4> QED BY <1>2, <1>3, <2>4, <3>0, <4>1 DEF Stale
    <3>3. CASE r.len # s.len /\ reader.writes = 1 /\ Setting(n) = {}
      <4>1. \/ s1 = s /\ (Setting(n)' = {} \/ reader'.writes >= 2)
            \/ s1.dirty \/ s1.count = s.count + 1
        BY <3>3 DEF SerialStep
      <4>2. reader'.writes = 1 BY <1>3, <3>3
      <4> QED BY <1>2, <1>3, <2>4, <3>0, <3>3, <4>1, <4>2 DEF Stale
    <3> QED BY <2>4, <3>1, <3>2, <3>3 DEF Stale
  <2> QED BY <2>2, <2>3, <2>4
<1> QED BY <1>4, <1>5, <1>6 DEF ReadOk

(* The steps of the reader itself.                                         *)
LEMMA ReadingReads ==
  ASSUME TypeInv, CoherentInv, ReaderInv, Reading PROVE ReaderInv'
<1> SUFFICES ASSUME NEW n \in Prop, IsRead(n)', ~hist'.torn[n] PROVE ReadOk(n)'
  BY DEF ReaderInv
<1>0. Types BY DEF TypeInv
<1>1. UNCHANGED <<mem, proc, svc, hist>>
  BY DEF Reading, ReadNote, ReadCopy, ReadCheck, ReadEnd
<1>2. /\ reader \in Reads /\ reader'.prop = reader.prop /\ reader'.vals = reader.vals
      /\ reader'.writes = reader.writes
  BY <1>0, ReadingStep DEF IsRead
<1>3. reader.prop = n /\ reader.pc # "idle" /\ ~hist.torn[n]
  BY <1>1, <1>2 DEF IsRead, Reads
<1>4. ReadOk(n) /\ Orderly(n) BY <1>3 DEF ReaderInv, IsRead, CoherentInv
<1>5. Setting(n)' = Setting(n) BY <1>1, SettingSame
<1>6. /\ hist'.val[n] \in reader'.vals
      /\ Setting(n)' # {} => reader'.writes >= 1
  BY <1>1, <1>2, <1>4, <1>5 DEF ReadOk
<1>7. mem[n] \in Infos /\ mem[n].serial \in Serials /\ mem[n].serial.count \in Nat
  BY <1>0 DEF Types, Infos, Serials
<1>8. CASE /\ reader'.pc = "copy" /\ ~mem[n].serial.dirty
           /\ reader'.serial = mem[n].serial
  <2>1. Noted(n)' BY <1>1, <1>7, <1>8 DEF Noted
  <2>2. Changed(n)' BY <1>1, <1>8 DEF Changed
  <2>3. Copied(n)' BY <1>8 DEF Copied
  <2> QED BY <1>6, <2>1, <2>2, <2>3 DEF ReadOk
<1>9. CASE /\ reader.pc = "copy" /\ reader'.pc = "check" /\ reader'.serial = reader.serial
           /\ reader'.inside = (Setting(n) # {})
           /\ reader'.copy = Copy(mem[n], reader.serial.len)
  <2>1. Noted(n)' BY <1>1, <1>4, <1>9 DEF Noted, ReadOk
  <2>2. Changed(n)' BY <1>9 DEF Changed
  <2>3. Copied(n)'
    <3> SUFFICES ASSUME reader'.writes <= 1, ~reader'.inside
                 PROVE  \/ reader'.copy \in {Append(v, NUL) : v \in reader'.vals}
                        \/ reader'.pc = "check" /\ Stale(n)'
      BY DEF Copied
    <3>1. Setting(n) = {} BY <1>9
    <3>2. CASE mem[n].serial.dirty BY <1>1, <1>9, <3>2 DEF Stale
    <3>3. CASE ~Copying(n) /\ ~mem[n].serial.dirty
      <4>1. Holds(mem[n], hist.val[n]) BY <1>4, <3>1, <3>3 DEF Orderly, Between
      <4>2. hist.val[n] \in Values BY <1>0 DEF Types, Hists
      <4>3. Copy(mem[n], mem[n].serial.len) = Append(hist.val[n], NUL)
        BY <1>7, <4>1, <4>2, HoldsCopy
      <4>4. CASE reader.serial.len = mem[n].serial.len
        <5>1. reader'.copy = Append(hist.val[n], NUL) BY <1>9, <4>3, <4>4
        <5>2. hist.val[n] \in reader'.vals BY <1>1, <1>6
        <5> QED BY <5>1, <5>2
      <4>5. CASE reader.serial.len # mem[n].serial.len
        <5>1. reader.serial.count < mem[n].serial.count \/ reader.writes >= 1
          BY <1>4, <1>9, <3>3, <4>5 DEF ReadOk, Changed
        <5>2. reader.writes \in Nat BY <1>2 DEF Reads
        <5>3. reader.serial.count < mem[n].serial.count \/ reader'.writes = 1
          BY <1>2, <5>1, <5>2
        <5> QED BY <1>1, <1>5, <1>9, <3>1, <4>5, <5>3 DEF Stale
      <4> QED BY <4>4, <4>5
    <3> QED BY <1>4, <3>2, <3>3 DEF Orderly, Between
  <2> QED BY <1>6, <2>1, <2>2, <2>3 DEF ReadOk
<1>10. CASE /\ reader.pc = "check" /\ reader'.serial = reader.serial
            /\ reader'.copy = reader.copy /\ reader'.inside = reader.inside
            /\ reader'.pc = IF mem[n].serial = reader.serial THEN "done" ELSE "serial"
  <2>1. Noted(n)' BY <1>10 DEF Noted
  <2>2. Changed(n)' BY <1>10 DEF Changed
  <2>3. Copied(n)'
    <3> SUFFICES ASSUME reader'.pc = "done", reader'.writes <= 1, ~reader'.inside
                 PROVE  reader'.copy \in {Append(v, NUL) : v \in reader'.vals}
      BY <1>10 DEF Copied
    <3>1. mem[n].serial = reader.serial BY <1>10
    <3>2. ~Stale(n)
      <4>1. ~reader.serial.dirty BY <1>4, <1>10 DEF ReadOk, Noted
      <4> QED BY <1>7, <3>1, <4>1 DEF Stale
    <3>3. reader.copy \in {Append(v, NUL) : v \in reader.vals}
      BY <1>2, <1>4, <1>10, <3>2 DEF ReadOk, Copied
    <3> QED BY <1>2, <1>10, <3>3
  <2> QED BY <1>6, <2>1, <2>2, <2>3 DEF ReadOk
<1> QED BY <1>0, <1>3, <1>8, <1>9, <1>10, ReadingStep DEF IsRead

(* A step that leaves the reader, the property and its writers alone; one  *)
(* of them may end.                                                        *)
LEMMA ReadUntouched ==
  ASSUME TypeInv, ReaderInv, NEW n \in Prop, IsRead(n)', ~hist.torn[n], UNCHANGED reader,
         mem'[n] = mem[n], hist'.val[n] = hist.val[n], Setting(n)' \subseteq Setting(n)
  PROVE  ReadOk(n)'
<1>1. IsRead(n) BY DEF IsRead
<1>2. ReadOk(n) BY <1>1 DEF ReaderInv
<1>3. reader \in Reads /\ mem[n] \in Infos BY <1>1, ReadsType DEF TypeInv, Types, IsRead
<1>4. reader.writes \in Nat BY <1>3 DEF Reads
<1>5. ReadLater BY <1>3, <1>4 DEF ReadLater
<1>6. SerialStep(n) BY DEF SerialStep
<1>7. hist'.val[n] \in reader'.vals BY <1>2 DEF ReadOk
<1>8. Setting(n)' # {} => reader'.writes >= 1 BY <1>2 DEF ReadOk
<1> QED BY <1>2, <1>3, <1>5, <1>6, <1>7, <1>8, ReadKept

LEMMA SettingMoved ==
  ASSUME NEW n, NEW p \in Proc, \A q \in Proc \ {p} : Same(q), p \notin Setting(n)'
  PROVE  Setting(n)' \subseteq Setting(n)
<1> SUFFICES ASSUME NEW q \in Setting(n)' PROVE q \in Setting(n) OBVIOUS
<1>1. q \in Proc \ {p} BY DEF Setting
<1>2. proc'[q] = proc[q] BY <1>1 DEF Same
<1> QED BY <1>1, <1>2, SettingIs

LEMMA SetterReads ==
  ASSUME TypeInv, CoherentInv, ReaderInv, NEW p \in Proc,
         Setter(p) \/ Interrupt(p) \/ \E cmd \in Command : Start(p, cmd)
  PROVE  ReaderInv'
<1> DEFINE m == proc[p].cmd.name
           v == proc[p].cmd.value
<1> SUFFICES ASSUME NEW n \in Prop, IsRead(n)', ~hist'.torn[n] PROVE ReadOk(n)'
  BY DEF ReaderInv
<1>0. /\ Types /\ hist \in Hists /\ reader \in {NoReader} \union Reads
      /\ mem[n] \in Infos
  BY DEF TypeInv, Types
<1>1. ASSUME NEW cmd \in Command, Start(p, cmd) PROVE ReadOk(n)'
  <2>1. UNCHANGED <<mem, reader>> BY <1>1, Zenon DEF Start
  <2>2. hist'.torn = hist.torn /\ hist'.val = hist.val BY <1>0, <1>1, StartAsk
  <2>3. Setting(n)' \subseteq Setting(n)
    <3> SUFFICES ASSUME NEW q \in Setting(n)' PROVE q \in Setting(n) OBVIOUS
    <3>1. q \in Proc /\ proc'[q].pc \in {"serial", "value"} /\ proc'[q].cmd.name = n
      BY DEF Setting
    <3>2. q # p BY <1>0, <1>1, <3>1, StartStep
    <3>3. proc'[q].pc = proc[q].pc /\ (proc[q].pc # "idle" => proc'[q].cmd = proc[q].cmd)
      BY <1>0, <1>1, <3>1, <3>2, StartStep DEF Same, Kept
    <3> QED BY <3>1, <3>3, SettingIs
  <2> QED BY <2>1, <2>2, <2>3, ReadUntouched
<1>2. CASE FindProp(p)
  <2>1. UNCHANGED <<mem, reader, hist>> BY <1>2 DEF FindProp
  <2>2. \A q \in Proc \ {p} : Same(q) BY <1>2, FindStep
  <2>3. p \notin Setting(n)' BY <1>2, FindStep, SettingIs
  <2> QED BY <2>1, <2>2, <2>3, SettingMoved, ReadUntouched
<1>3. CASE ReadSerial(p)
  <2>1. /\ UNCHANGED mem /\ NoteBegin(m)
        /\ hist' = [hist EXCEPT !.torn[m] = hist.torn[m] \/ Writing(m)]
    BY <1>3 DEF ReadSerial
  <2>2. /\ m \in Prop /\ \A q \in Proc \ {p} : Same(q)
    BY <1>3, ReadSerialStep
  <2>3. proc'[p].cmd = proc[p].cmd BY <1>3, ReadSerialStep DEF Kept
  <2>4. (hist.torn[m] \/ Writing(m)) \in BOOLEAN OBVIOUS
  <2>5. /\ hist'.torn[m] = (hist.torn[m] \/ Writing(m)) /\ hist'.val = hist.val
        /\ \A k \in Prop \ {m} : hist'.torn[k] = hist.torn[k]
    BY <1>0, <2>1, <2>2, <2>4, TornStep
  <2>6. ~hist.torn[n] BY <2>5
  <2>7. CASE ~IsRead(m)
    <3>1. UNCHANGED reader BY <1>0, <2>1, <2>2, <2>7, NoteBeginStep
    <3>2. n # m BY <2>7, <3>1 DEF IsRead
    <3>3. p \notin Setting(n)' BY <2>3, <3>2, SettingIs
    <3> QED BY <2>1, <2>2, <2>5, <2>6, <3>1, <3>3, SettingMoved, ReadUntouched
  <2>8. CASE IsRead(m)
    <3>1. /\ reader' \in {NoReader} \union Reads
          /\ reader'.writes = reader.writes + 1 /\ reader'.vals = reader.vals
          /\ reader'.pc = reader.pc /\ reader'.prop = reader.prop
          /\ reader'.serial = reader.serial /\ reader'.copy = reader.copy
          /\ reader'.inside = reader.inside
      BY <1>0, <2>1, <2>2, <2>8, NoteBeginStep
    <3>2. n = m /\ IsRead(n) BY <2>8, <3>1 DEF IsRead
    <3>3. ReadOk(n) BY <2>6, <3>2 DEF ReaderInv
    <3>4. reader \in Reads BY <1>0, <2>8, ReadsType DEF IsRead
    <3>5. reader' \in Reads BY <2>8, <3>1 DEF IsRead, NoReader, Reads
    <3>6. reader.writes \in Nat BY <3>4 DEF Reads
    <3>7. ReadLater BY <3>1, <3>4, <3>5, <3>6 DEF ReadLater
    <3>8. SerialStep(n) BY <2>1, <3>1, <3>6 DEF SerialStep
    <3>9. hist'.val[n] \in reader'.vals BY <2>5, <3>1, <3>3 DEF ReadOk
    <3>10. reader'.writes >= 1 BY <3>1, <3>6
    <3> QED BY <1>0, <2>1, <3>3, <3>7, <3>8, <3>9, <3>10, ReadKept
  <2> QED BY <2>7, <2>8
<1>4. CASE WriteSerial(p)
  <2>1. UNCHANGED reader BY <1>4 DEF WriteSerial
  <2>2. /\ proc[p].pc = "serial" /\ m \in Prop /\ \A q \in Proc \ {p} : Same(q)
        /\ proc'[p].pc = "value" /\ proc'[p].cmd = proc[p].cmd
        /\ mem' \in [Prop -> Infos] /\ \A k \in Prop \ {m} : mem'[k] = mem[k]
    BY <1>4, WriteSerialStep DEF Kept
  <2>3. \/ mem'[m].serial = proc[p].serial /\ hist' = hist
        \/ hist' = [hist EXCEPT !.torn[m] = TRUE]
    BY <1>4, WriteSerialStep
  <2>4. /\ hist'.val = hist.val /\ ~hist.torn[n]
        /\ n = m => mem'[m].serial = proc[p].serial
    <3>1. CASE mem'[m].serial = proc[p].serial /\ hist' = hist BY <3>1
    <3>2. CASE hist' = [hist EXCEPT !.torn[m] = TRUE]
      <4>1. /\ hist'.torn[m] = TRUE /\ hist'.val = hist.val
            /\ \A k \in Prop \ {m} : hist'.torn[k] = hist.torn[k]
        BY <1>0, <2>2, <3>2, TornStep
      <4> QED BY <4>1
    <3> QED BY <2>3, <3>1, <3>2
  <2>5. CASE n # m
    <3>1. p \notin Setting(n)' BY <2>2, <2>5, SettingIs
    <3> QED BY <2>1, <2>2, <2>4, <2>5, <3>1, SettingMoved, ReadUntouched
  <2>6. CASE n = m
    <3>1. IsRead(n) BY <2>1 DEF IsRead
    <3>2. ReadOk(n) /\ Orderly(n) BY <2>4, <3>1 DEF ReaderInv, CoherentInv
    <3>3. p \in Setting(n) BY <2>2, <2>6, SettingIs
    <3>4. ~mem[n].serial.dirty /\ proc[p].serial = NewSerial(mem[n].serial, v)
      BY <2>2, <3>2, <3>3 DEF Orderly, Sole, Between, Underway
    <3>5. mem[n].serial \in Serials /\ v \in Values
      BY <1>0, <2>2 DEF TypeInv, Located, Found, Infos
    <3>6. mem'[n].serial.count = mem[n].serial.count BY <2>4, <2>6, <3>4, <3>5, NewSerialType
    <3>7. SerialStep(n) BY <3>3, <3>4, <3>6 DEF SerialStep
    <3>8. reader \in Reads BY <1>0, <3>1, ReadsType DEF IsRead
    <3>9. reader.writes \in Nat BY <3>8 DEF Reads
    <3>10. ReadLater BY <2>1, <3>8, <3>9 DEF ReadLater
    <3>11. hist'.val[n] \in reader'.vals /\ reader'.writes >= 1
      BY <2>1, <2>4, <3>2, <3>3 DEF ReadOk
    <3> QED BY <1>0, <2>2, <3>2, <3>7, <3>10, <3>11, ReadKept
  <2> QED BY <2>5, <2>6
<1>5. CASE WriteValue(p)
  <2>2. /\ proc[p].pc = "value" /\ m \in Prop /\ \A q \in Proc \ {p} : Same(q)
        /\ proc'[p].pc \in {"idle", "lookup"} /\ v \in Values
        /\ mem' \in [Prop -> Infos] /\ \A k \in Prop \ {m} : mem'[k] = mem[k]
    BY <1>5, WriteValueStep
  <2>3. \/ /\ mem'[m].serial = mem[m].serial /\ NoteEnd(m, v)
           /\ hist' = [hist EXCEPT !.val[m] = v]
        \/ reader' = reader /\ hist' = [hist EXCEPT !.torn[m] = TRUE]
    BY <1>5, WriteValueStep
  <2>4. Setting(n)' \subseteq Setting(n)
    <3>1. p \notin Setting(n)' BY <2>2, SettingIs
    <3> QED BY <2>2, <3>1, SettingMoved
  <2>5. CASE reader' = reader /\ hist' = [hist EXCEPT !.torn[m] = TRUE]
    <3>1. /\ hist'.torn[m] = TRUE /\ hist'.val = hist.val
          /\ \A k \in Prop \ {m} : hist'.torn[k] = hist.torn[k]
      BY <1>0, <2>2, <2>5, TornStep
    <3>2. n # m /\ ~hist.torn[n] BY <3>1
    <3> QED BY <2>2, <2>4, <2>5, <3>1, <3>2, ReadUntouched
  <2>6. CASE /\ mem'[m].serial = mem[m].serial /\ NoteEnd(m, v)
             /\ hist' = [hist EXCEPT !.val[m] = v]
    <3>1. /\ hist'.val[m] = v /\ hist'.torn = hist.torn
          /\ \A k \in Prop \ {m} : hist'.val[k] = hist.val[k]
      BY <1>0, <2>2, <2>6, ValStep
    <3>2. CASE ~IsRead(m)
      <4>1. UNCHANGED reader BY <1>0, <2>2, <2>6, <3>2, NoteEndStep
      <4>2. n # m BY <3>2, <4>1 DEF IsRead
      <4> QED BY <2>2, <2>4, <3>1, <4>1, <4>2, ReadUntouched
    <3>3. CASE IsRead(m)
      <4>1. /\ reader' \in {NoReader} \union Reads
            /\ reader'.vals = reader.vals \union {v}
            /\ reader'.pc = reader.pc /\ reader'.prop = reader.prop
            /\ reader'.serial = reader.serial /\ reader'.copy = reader.copy
            /\ reader'.inside = reader.inside /\ reader'.writes = reader.writes
        BY <1>0, <2>2, <2>6, <3>3, NoteEndStep
      <4>2. n = m /\ IsRead(n) BY <3>3, <4>1 DEF IsRead
      <4>3. ReadOk(n) BY <3>1, <4>2 DEF ReaderInv
      <4>4. reader \in Reads BY <1>0, <3>3, ReadsType DEF IsRead
      <4>5. reader' \in Reads BY <3>3, <4>1 DEF IsRead, NoReader, Reads
      <4>6. reader.writes \in Nat BY <4>4 DEF Reads
      <4>7. ReadLater BY <4>1, <4>4, <4>5, <4>6 DEF ReadLater
      <4>8. SerialStep(n) BY <2>4, <2>6, <4>2 DEF SerialStep
      <4>9. hist'.val[n] \in reader'.vals BY <3>1, <4>1, <4>2
      <4>10. Setting(n)' # {} => reader'.writes >= 1 BY <2>4, <4>1, <4>3 DEF ReadOk
      <4> QED BY <1>0, <2>2, <4>3, <4>7, <4>8, <4>9, <4>10, ReadKept
    <3> QED BY <3>2, <3>3
  <2> QED BY <2>3, <2>5, <2>6
<1>6. CASE Lookup(p)
  <2>1. UNCHANGED <<mem, reader, hist>> BY <1>6, Zenon DEF Lookup
  <2>2. \A q \in Proc \ {p} : Same(q) BY <1>6, LookupStep
  <2>3. p \notin Setting(n)' BY <1>6, LookupStep, SettingIs
  <2> QED BY <2>1, <2>2, <2>3, SettingMoved, ReadUntouched
<1>7. CASE KillServer(p)
  <2>1. UNCHANGED <<mem, reader>> BY <1>7 DEF KillServer
  <2>2. \A q \in Proc \ {p} : Same(q) BY <1>7, KillStep
  <2>3. hist'.val = hist.val /\ hist'.torn = hist.torn BY <1>7, KillStep
  <2>4. p \notin Setting(n)' BY <1>7, KillStep, SettingIs
  <2> QED BY <2>1, <2>2, <2>3, <2>4, SettingMoved, ReadUntouched
<1>8. CASE Interrupt(p)
  <2>1. UNCHANGED <<mem, reader>> BY <1>8 DEF Interrupt
  <2>2. \A q \in Proc \ {p} : Same(q) BY <1>8, InterruptStep
  <2>3. hist'.val = hist.val /\ ~hist.torn[n] BY <1>8, InterruptStep
  <2>4. p \notin Setting(n)' BY <1>8, InterruptStep, SettingIs
  <2> QED BY <2>1, <2>2, <2>3, <2>4, SettingMoved, ReadUntouched
<1> QED BY <1>1, <1>2, <1>3, <1>4, <1>5, <1>6, <1>7, <1>8 DEF Setter

LEMMA SystemReads ==
  ASSUME TypeInv, CoherentInv, ReaderInv,
         \/ (\E n \in Updated : UpdateBegin(n)) \/ UpdateEnd
         \/ (\E n \in Prop : ReadBegin(n))
         \/ ServerExit \/ ServerStart \/ OtherStart
         \/ UNCHANGED vars
  PROVE  ReaderInv'
<1> SUFFICES ASSUME NEW n \in Prop, IsRead(n)', ~hist'.torn[n] PROVE ReadOk(n)'
  BY DEF ReaderInv
<1>0. /\ Types /\ hist \in Hists /\ reader \in {NoReader} \union Reads
      /\ mem[n] \in Infos
  BY DEF TypeInv, Types
<1>1. ASSUME NEW m \in Updated, UpdateBegin(m) PROVE ReadOk(n)'
  <2>0. m \in Prop BY PropAssumption
  <2>1. /\ UNCHANGED <<proc, reader>>
        /\ hist' = [hist EXCEPT !.torn[m] = hist.torn[m] \/ Writing(m)]
    BY <1>1 DEF UpdateBegin
  <2>2. (hist.torn[m] \/ Writing(m)) \in BOOLEAN OBVIOUS
  <2>3. /\ hist'.torn[m] = (hist.torn[m] \/ Writing(m)) /\ hist'.val = hist.val
        /\ \A k \in Prop \ {m} : hist'.torn[k] = hist.torn[k]
    BY <1>0, <2>0, <2>1, <2>2, TornStep
  <2>4. ~hist.torn[n] /\ Setting(n)' = Setting(n) BY <2>1, <2>3, SettingSame
  <2>5. /\ mem' \in [Prop -> Infos] /\ \A k \in Prop \ {m} : mem'[k] = mem[k]
        /\ mem'[m].serial.dirty /\ mem'[m].serial.count = mem[m].serial.count
    BY <1>0, <1>1, <2>0, UpdateBeginStep
  <2>6. CASE n # m BY <2>1, <2>3, <2>4, <2>5, <2>6, ReadUntouched
  <2>7. CASE n = m
    <3>1. IsRead(n) BY <2>1 DEF IsRead
    <3>2. ReadOk(n) BY <2>4, <3>1 DEF ReaderInv
    <3>3. SerialStep(n) BY <2>5, <2>7 DEF SerialStep
    <3>4. reader \in Reads BY <1>0, <3>1, ReadsType DEF IsRead
    <3>5. reader.writes \in Nat BY <3>4 DEF Reads
    <3>6. ReadLater BY <2>1, <3>4, <3>5 DEF ReadLater
    <3>7. hist'.val[n] \in reader'.vals BY <2>1, <2>3, <3>2 DEF ReadOk
    <3>8. Setting(n)' # {} => reader'.writes >= 1 BY <2>1, <2>4, <3>2 DEF ReadOk
    <3> QED BY <1>0, <2>5, <3>2, <3>3, <3>6, <3>7, <3>8, ReadKept
  <2> QED BY <2>6, <2>7
<1>2. CASE UpdateEnd
  <2> DEFINE m == svc.prop
  <2>1. UNCHANGED proc BY <1>2 DEF UpdateEnd
  <2>2. /\ svc.pc = "copy" /\ m \in Prop /\ mem' \in [Prop -> Infos]
        /\ \A k \in Prop \ {m} : mem'[k] = mem[k]
        /\ mem'[m].serial.count = mem[m].serial.count + 1
        /\ hist' = [hist EXCEPT !.val[m] = NewValue] /\ NoteEnd(m, NewValue)
    BY <1>0, <1>2, UpdateEndStep
  <2>3. /\ hist'.val[m] = NewValue /\ hist'.torn = hist.torn
        /\ \A k \in Prop \ {m} : hist'.val[k] = hist.val[k]
    BY <1>0, <2>2, NewValueType, ValStep
  <2>4. Setting(n)' = Setting(n) BY <2>1, SettingSame
  <2>5. CASE ~IsRead(m)
    <3>1. UNCHANGED reader BY <1>0, <2>2, <2>5, NewValueType, NoteEndStep
    <3>2. n # m BY <2>5, <3>1 DEF IsRead
    <3> QED BY <2>2, <2>3, <2>4, <3>1, <3>2, ReadUntouched
  <2>6. CASE IsRead(m)
    <3>1. /\ reader' \in {NoReader} \union Reads
          /\ reader'.vals = reader.vals \union {NewValue}
          /\ reader'.pc = reader.pc /\ reader'.prop = reader.prop
          /\ reader'.serial = reader.serial /\ reader'.copy = reader.copy
          /\ reader'.inside = reader.inside /\ reader'.writes = reader.writes
      BY <1>0, <2>2, <2>6, NewValueType, NoteEndStep
    <3>2. n = m /\ IsRead(n) BY <2>6, <3>1 DEF IsRead
    <3>3. ReadOk(n) /\ Orderly(n) BY <2>3, <3>2 DEF ReaderInv, CoherentInv
    <3>4. reader \in Reads BY <1>0, <2>6, ReadsType DEF IsRead
    <3>5. reader' \in Reads BY <2>6, <3>1 DEF IsRead, NoReader, Reads
    <3>6. reader.writes \in Nat BY <3>4 DEF Reads
    <3>7. ReadLater BY <3>1, <3>4, <3>5, <3>6 DEF ReadLater
    <3>8. mem[n].serial.dirty BY <2>2, <3>2, <3>3 DEF Orderly, Between, Copying
    <3>9. SerialStep(n) BY <2>2, <3>2, <3>8 DEF SerialStep
    <3>10. hist'.val[n] \in reader'.vals BY <2>3, <3>1, <3>2
    <3>11. Setting(n)' # {} => reader'.writes >= 1 BY <2>4, <3>1, <3>3 DEF ReadOk
    <3> QED BY <1>0, <2>2, <3>3, <3>7, <3>9, <3>10, <3>11, ReadKept
  <2> QED BY <2>5, <2>6
<1>3. ASSUME NEW m \in Prop, ReadBegin(m) PROVE ReadOk(n)'
  <2>1. UNCHANGED <<mem, proc, hist>> BY <1>3 DEF ReadBegin
  <2>2. /\ reader' \in Reads /\ reader'.pc = "serial" /\ reader'.prop = m
        /\ reader'.vals = {hist.val[m]} /\ reader'.writes = Cardinality(Setting(m))
    BY <1>0, <1>3, ReadBeginStep
  <2>3. n = m BY <2>2 DEF IsRead
  <2>4. Setting(n)' = Setting(n) BY <2>1, SettingSame
  <2>5. Setting(n)' # {} => reader'.writes >= 1 BY <2>2, <2>3, <2>4, SettingFinite
  <2>6. hist'.val[n] \in reader'.vals BY <2>1, <2>2, <2>3
  <2> QED BY <2>2, <2>5, <2>6 DEF ReadOk, Noted, Changed, Copied
<1>4. CASE UNCHANGED <<mem, proc, reader, hist>>
  <2>1. Setting(n)' = Setting(n) BY <1>4, SettingSame
  <2> QED BY <1>4, <2>1, ReadUntouched
<1>5. CASE ServerExit \/ OtherStart \/ UNCHANGED vars
  <2>1. UNCHANGED <<mem, proc, reader, hist>> BY <1>5 DEF ServerExit, OtherStart, vars
  <2> QED BY <1>4, <2>1
<1>6. CASE ServerStart
  <2>1. UNCHANGED <<mem, proc, reader, hist>> BY <1>6, Zenon DEF ServerStart
  <2> QED BY <1>4, <2>1
<1> QED BY <1>1, <1>2, <1>3, <1>5, <1>6

LEMMA InitReads == Init => ReaderInv
BY DEF Init, NoReader, ReaderInv, IsRead

LEMMA NextReads == TypeInv /\ CoherentInv /\ ReaderInv /\ [Next]_vars => ReaderInv'
BY SetterReads, SystemReads, ReadingReads DEF Next

(* A reader that met at most one setter, and did not copy between its two  *)
(* writes, returns a value the property had while it was reading.          *)
THEOREM ReaderGetsAValue == Spec => []ReadsOldOrNew
<1>1. TypeInv /\ ReaderInv => ReadsOldOrNew
  <2> SUFFICES ASSUME TypeInv, ReaderInv, reader.pc = "done", ~hist.torn[reader.prop],
                      reader.writes <= 1, ~reader.inside
               PROVE  reader.copy \in {Append(v, NUL) : v \in reader.vals}
    BY DEF ReadsOldOrNew
  <2>1. reader \in Reads BY ReadsType DEF TypeInv, Types
  <2>2. reader.prop \in Prop /\ IsRead(reader.prop) BY <2>1 DEF Reads, IsRead
  <2>3. ReadOk(reader.prop) BY <2>2 DEF ReaderInv
  <2> QED BY <2>3 DEF ReadOk, Copied
<1> QED BY <1>1, InitTypeInv, NextTypeInv, InitCoherent, NextCoherent, InitReads, NextReads,
           PTL DEF Spec

=============================================================================
