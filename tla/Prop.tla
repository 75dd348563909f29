---------------------------------- MODULE Prop ----------------------------------
(***************************************************************************)
(* `bxxt setprop' and `bxxt setdebuggable': a system property is           *)
(* overwritten in the memory that every process of the device shares.      *)
(*                                                                         *)
(* The setters are prop.c.  The readers, the property service and          *)
(* system_server are the Android system around it: they follow the C       *)
(* library's protocol for prop_info, of which the setter leaves out the    *)
(* dirty bit and the counter.                                              *)
(***************************************************************************)
EXTENDS Integers, Sequences, FiniteSets

CONSTANTS
  Proc,             (* processes that run bxxt                             *)
  Prop,             (* the names of the properties                         *)
  Debuggable,       (* "ro.debuggable"                                     *)
  Updated,          (* the properties the service itself updates           *)
  PROP_VALUE_MAX,
  NameChar,         (* the first character of a name                       *)
  Maps,             (* /proc/self/maps, in order                           *)
  Addr,             (* the address of each property's prop_info            *)
  Command,          (* the command lines that may be given                 *)
  NewValue,         (* what the service writes                             *)
  Pid,
  Budgets           (* bounds: how many commands, reads, updates, exits of *)
                    (* the server, other processes and failures there are  *)

(* A prop_info follows the header of its area: it never starts a mapping.  *)
Inside(a, m) == m.start < a /\ a < m.end

ASSUME PropAssumption ==
  /\ PROP_VALUE_MAX \in Nat \ {0} /\ NameChar \in Nat \ {0}
  /\ Maps \in Seq([start : Nat \ {0}, end : Nat, file : STRING])
  /\ \A i, j \in DOMAIN Maps : i < j => Maps[i].end <= Maps[j].start
  /\ \A i, j \in DOMAIN Maps : i # j => Maps[i].file # Maps[j].file
  /\ \A i \in DOMAIN Maps : Maps[i].start < Maps[i].end
  /\ Addr \in [Prop -> Nat]
  /\ \A n \in Prop : \E i \in DOMAIN Maps : Inside(Addr[n], Maps[i])
  /\ \A m, n \in Prop : Addr[m] = Addr[n] => m = n
  /\ Debuggable \in Prop /\ Updated \subseteq Prop \ {Debuggable}
  /\ IsFiniteSet(Proc)

(* A command's value is a C string, setdebuggable's name is fixed, and the *)
(* service refuses a value that does not leave room for the terminator.    *)
ASSUME CommandAssumption ==
  /\ \A c \in Command : /\ c.value \in Seq(Nat \ {0})
                        /\ c.tool = "setdebuggable" => c.name = Debuggable
  /\ NewValue \in Seq(Nat \ {0}) /\ Len(NewValue) < PROP_VALUE_MAX
  /\ Pid \subseteq Nat \ {0} /\ Pid # {}

VARIABLES
  mem,      (* the prop_info of each property                              *)
  proc,     (* the setters                                                 *)
  reader,   (* a process that reads a property                             *)
  svc,      (* the property service                                        *)
  server,   (* system_server                                               *)
  other,    (* the pid of some other process, or 0                         *)
  left,     (* what is left of the bounds                                  *)
  hist      (* history variable: only the properties read it               *)

vars == <<mem, proc, reader, svc, server, other, left, hist>>

-----------------------------------------------------------------------------
(* struct _prinfo: serial (length, counter and dirty bit), value, and the  *)
(* name that follows: cell PROP_VALUE_MAX is its first character.          *)

NUL == 0
Cells == 0..PROP_VALUE_MAX

(* Writing a string and its terminator from cell 0 on.                     *)
Put(cell, value) ==
  [i \in Cells |-> IF i < Len(value) THEN value[i + 1]
                   ELSE IF i = Len(value) THEN NUL ELSE cell[i]]

Info(value) ==
  [serial |-> [len |-> Len(value), count |-> 0, dirty |-> FALSE],
   cell |-> Put([i \in Cells |-> IF i = PROP_VALUE_MAX THEN NameChar ELSE NUL], value)]

(* The bytes a reader copies: length and terminator.                       *)
Copy(info, len) == [i \in 1..(len + 1) |-> info.cell[i - 1]]

(* Where a property really is: the file of its area, and the offset.       *)
Where(n) ==
  LET m == CHOOSE m \in {Maps[i] : i \in DOMAIN Maps} : Inside(Addr[n], m)
  IN  <<m.file, Addr[n] - m.start>>

(* Mutant: the end of the mapping is not looked at.                        *)
Mut_bxxt_scan_maps_by_offset_callback(addr, m) == addr >= m.start

(* bxxt_scan_maps_by_offset_callback; the end is taken as inclusive.       *)
bxxt_scan_maps_by_offset_callback(addr, m) == addr >= m.start /\ addr <= m.end

(* bxxt_scan_maps_by_callback: the first mapping that matches.             *)
Scanned(addr, i) ==
  /\ i \in DOMAIN Maps
  /\ bxxt_scan_maps_by_offset_callback(addr, Maps[i])
  /\ \A j \in 1..(i - 1) : ~bxxt_scan_maps_by_offset_callback(addr, Maps[j])

(* __system_property_find: NULL, address 0, for a name that does not exist. *)
Find(name) == IF name \in Prop THEN Addr[name] ELSE 0

(* Mutant: the length stays what it was.                                   *)
Mut_NewSerial(old, value) == old

(* Mutant: the dirty bit is set and nobody clears it.                      *)
MutDirty_NewSerial(old, value) == [old EXCEPT !.len = Len(value), !.dirty = TRUE]

(* The serial that bxxt_prop_set writes: the new length in the head, the   *)
(* other 24 bits, counter and dirty bit, as they were read.                *)
NewSerial(old, value) == [old EXCEPT !.len = Len(value)]

-----------------------------------------------------------------------------

Idle == [pc |-> "idle"]
NoReader == [pc |-> "idle"]
NoSvc == [pc |-> "idle", prop |-> Debuggable]
Up(pid, gen, seen) == [pid |-> pid, gen |-> gen, seen |-> seen]

(* val: the value of the last write that ended.  torn: two writes of the   *)
(* property overlapped, one was interrupted, or its serial was not         *)
(* written.  asked: the value of the last setdebuggable that ended with    *)
(* the death of system_server, and no later command for the property.      *)
NoAsk == [value |-> << >>, gen |-> 0]

Init ==
  /\ mem = [n \in Prop |-> Info(<<1>>)]
  /\ proc = [p \in Proc |-> Idle]
  /\ reader = NoReader /\ svc = NoSvc
  /\ server = Up(CHOOSE pid \in Pid : TRUE, 1, <<1>>)
  /\ other = 0
  /\ left \in Budgets
  /\ hist = [val |-> [n \in Prop |-> <<1>>], torn |-> [n \in Prop |-> FALSE], asked |-> NoAsk]

Use(what) == left[what] > 0 /\ left' = [left EXCEPT ![what] = @ - 1]

(* The writes of a property that have begun and not ended.                 *)
Setting(n) ==
  {p \in Proc : proc[p].pc \in {"serial", "value"} /\ proc[p].cmd.name = n}
Writing(n) == Setting(n) # {} \/ (svc.pc = "copy" /\ svc.prop = n)

(* A setter begins to write a property, or a write ends, while it is read. *)
IsRead(n) == reader.pc # "idle" /\ reader.prop = n

NoteBegin(n) ==
  reader' = IF IsRead(n) THEN [reader EXCEPT !.writes = @ + 1] ELSE reader

NoteEnd(n, value) ==
  reader' = IF IsRead(n) THEN [reader EXCEPT !.vals = @ \union {value}] ELSE reader

Goto(p, label) == proc' = [proc EXCEPT ![p].pc = label]
Leave(p) == proc' = [proc EXCEPT ![p] = Idle]

(* setprop_main and setdebuggable_main.  gen, solo (no other command for   *)
(* the property ran meanwhile, and the serial was written): for the        *)
(* properties only.                                                        *)
Start(p, cmd) ==
  /\ proc[p].pc = "idle" /\ Use("runs")
  /\ LET met == {q \in Proc : proc[q].pc # "idle" /\ proc[q].cmd.name = cmd.name} IN
       proc' = [q \in Proc |->
         IF q = p THEN [pc |-> "find", cmd |-> cmd, at |-> <<"", 0>>, pid |-> 0, gen |-> 0,
                        serial |-> mem[Debuggable].serial, solo |-> met = {}]
         ELSE IF q \in met THEN [proc[q] EXCEPT !.solo = FALSE] ELSE proc[q]]
  /\ hist' = [hist EXCEPT !.asked = IF cmd.name = Debuggable THEN NoAsk ELSE @]
  /\ UNCHANGED <<mem, reader, svc, server, other>>

(* Mutant: no check.                                                       *)
Mut_TooLong(value) == FALSE

TooLong(value) == Len(value) > PROP_VALUE_MAX

(* bxxt_prop_set up to the open: the place of the property, its length.    *)
FindProp(p) ==
  /\ proc[p].pc = "find"
  /\ LET addr == Find(proc[p].cmd.name)
         tooLong == TooLong(proc[p].cmd.value)
     IN  \/ /\ ~\E i \in DOMAIN Maps : Scanned(addr, i)
            /\ Leave(p) /\ UNCHANGED left
         \/ \E i \in DOMAIN Maps :
              /\ Scanned(addr, i)
              /\ \/ tooLong /\ Leave(p) /\ UNCHANGED left
                 \/ ~tooLong /\ Use("faults") /\ Leave(p)
                 \/ /\ ~tooLong /\ UNCHANGED left
                    /\ proc' = [proc EXCEPT ![p].pc = "read",
                                  ![p].at = <<Maps[i].file, addr - Maps[i].start>>]
  /\ UNCHANGED <<mem, reader, svc, server, other, hist>>

(* p->serial is read ...                                                   *)
ReadSerial(p) ==
  /\ proc[p].pc = "read"
  /\ LET n == proc[p].cmd.name IN
       /\ proc' = [proc EXCEPT ![p].pc = "serial",
                     ![p].serial = NewSerial(mem[n].serial, proc[p].cmd.value)]
       /\ hist' = [hist EXCEPT !.torn[n] = @ \/ Writing(n)]
       /\ NoteBegin(n)
  /\ UNCHANGED <<mem, svc, server, other, left>>

(* ... and written.  The result of this write is overwritten by the next.  *)
WriteSerial(p) ==
  /\ proc[p].pc = "serial"
  /\ \/ /\ mem' = [n \in Prop |-> IF Where(n) = proc[p].at
                                  THEN [mem[n] EXCEPT !.serial = proc[p].serial] ELSE mem[n]]
        /\ Goto(p, "value")
        /\ UNCHANGED <<left, hist>>
     \/ /\ Use("faults")
        /\ hist' = [hist EXCEPT !.torn[proc[p].cmd.name] = TRUE]
        /\ proc' = [proc EXCEPT ![p].pc = "value", ![p].solo = FALSE]
        /\ UNCHANGED mem
  /\ UNCHANGED <<reader, svc, server, other>>

(* Mutant: whether the value was written does not matter.                  *)
Mut_AfterSet(p, r) ==
  IF proc[p].cmd.tool = "setdebuggable" THEN Goto(p, "lookup") ELSE Leave(p)

(* bxxt_do_setdebuggable goes on when bxxt_prop_set returned 0.            *)
AfterSet(p, r) ==
  IF r = 0 /\ proc[p].cmd.tool = "setdebuggable" THEN Goto(p, "lookup") ELSE Leave(p)

WriteValue(p) ==
  /\ proc[p].pc = "value"
  /\ LET n == proc[p].cmd.name IN
       \/ /\ mem' = [m \in Prop |->
                       IF Where(m) = proc[p].at
                       THEN [mem[m] EXCEPT !.cell = Put(@, proc[p].cmd.value)] ELSE mem[m]]
          /\ hist' = [hist EXCEPT !.val[n] = proc[p].cmd.value]
          /\ NoteEnd(n, proc[p].cmd.value)
          /\ AfterSet(p, 0)
          /\ UNCHANGED left
       \/ /\ Use("faults")
          /\ hist' = [hist EXCEPT !.torn[n] = TRUE]
          /\ AfterSet(p, 1)
          /\ UNCHANGED <<mem, reader>>
  /\ UNCHANGED <<svc, server, other>>

(* Mutant: a process whose command line only begins like that matches too. *)
Mut_bxxt_get_pid_by_cmdline == {server.pid, other} \ {0}

(* bxxt_get_pid_by_cmdline("system_server"): the pid, if it runs.          *)
bxxt_get_pid_by_cmdline == {server.pid} \ {0}

Lookup(p) ==
  /\ proc[p].pc = "lookup"
  /\ \/ bxxt_get_pid_by_cmdline = {} /\ Leave(p)
     \/ \E pid \in bxxt_get_pid_by_cmdline :
          proc' = [proc EXCEPT ![p].pc = "kill", ![p].pid = pid, ![p].gen = server.gen]
  /\ UNCHANGED <<mem, reader, svc, server, other, left, hist>>

(* kill(pid, SIGTERM): whichever process has that pid now.                 *)
KillServer(p) ==
  /\ proc[p].pc = "kill"
  /\ LET hit == proc[p].pid = server.pid
     IN  /\ server' = IF hit THEN [server EXCEPT !.pid = 0] ELSE server
         /\ other' = IF proc[p].pid = other THEN 0 ELSE other
         /\ hist' = [hist EXCEPT !.asked =
              IF hit /\ proc[p].solo THEN [value |-> proc[p].cmd.value, gen |-> server.gen] ELSE NoAsk]
  /\ Leave(p)
  /\ UNCHANGED <<mem, reader, svc, left>>

(* The command is interrupted.                                             *)
Interrupt(p) ==
  /\ proc[p].pc # "idle" /\ Use("faults")
  /\ Leave(p)
  /\ hist' = IF proc[p].pc = "value"
             THEN [hist EXCEPT !.torn[proc[p].cmd.name] = TRUE] ELSE hist
  /\ UNCHANGED <<mem, reader, svc, server, other>>

-----------------------------------------------------------------------------
(* The system around it.                                                   *)

(* __system_property_update: dirty, the value, then length and counter.    *)
UpdateBegin(n) ==
  /\ svc.pc = "idle" /\ Use("updates")
  /\ svc' = [pc |-> "copy", prop |-> n]
  /\ mem' = [mem EXCEPT ![n].serial.dirty = TRUE]
  /\ hist' = [hist EXCEPT !.torn[n] = @ \/ Writing(n)]
  /\ UNCHANGED <<proc, reader, server, other>>

UpdateEnd ==
  /\ svc.pc = "copy"
  /\ LET n == svc.prop IN
       /\ mem' = [mem EXCEPT ![n].cell = Put(@, NewValue),
                    ![n].serial = [len |-> Len(NewValue), count |-> @.count + 1, dirty |-> FALSE]]
       /\ hist' = [hist EXCEPT !.val[n] = NewValue]
       /\ NoteEnd(n, NewValue)
  /\ svc' = NoSvc
  /\ UNCHANGED <<proc, server, other, left>>

(* __system_property_read: wait while the property is dirty, note the      *)
(* serial, copy, and start again if the serial changed.  vals: the values  *)
(* the property had since the read began; writes: setters met; inside: one *)
(* was writing while the bytes were copied.                                *)
ReadBegin(n) ==
  /\ reader.pc = "idle" /\ Use("reads")
  /\ reader' = [pc |-> "serial", prop |-> n, serial |-> mem[n].serial, copy |-> << >>,
                vals |-> {hist.val[n]}, writes |-> Cardinality(Setting(n)), inside |-> FALSE]
  /\ UNCHANGED <<mem, proc, svc, server, other, hist>>

ReadNote ==
  /\ reader.pc = "serial" /\ ~mem[reader.prop].serial.dirty
  /\ reader' = [reader EXCEPT !.pc = "copy", !.serial = mem[reader.prop].serial]
  /\ UNCHANGED <<mem, proc, svc, server, other, left, hist>>

ReadCopy ==
  /\ reader.pc = "copy"
  /\ reader' = [reader EXCEPT !.pc = "check", !.inside = Setting(reader.prop) # {},
                              !.copy = Copy(mem[reader.prop], reader.serial.len)]
  /\ UNCHANGED <<mem, proc, svc, server, other, left, hist>>

ReadCheck ==
  /\ reader.pc = "check"
  /\ reader' = [reader EXCEPT !.pc =
       IF mem[reader.prop].serial = reader.serial THEN "done" ELSE "serial"]
  /\ UNCHANGED <<mem, proc, svc, server, other, left, hist>>

ReadEnd ==
  /\ reader.pc = "done"
  /\ reader' = NoReader
  /\ UNCHANGED <<mem, proc, svc, server, other, left, hist>>

(* system_server exits by itself; it is started again, under a free pid,   *)
(* and takes the value ro.debuggable has then; other processes come and go. *)
ServerExit ==
  /\ server.pid # 0 /\ Use("exits")
  /\ server' = [server EXCEPT !.pid = 0]
  /\ UNCHANGED <<mem, proc, reader, svc, other, hist>>

ServerStart ==
  /\ server.pid = 0
  /\ \E pid \in Pid \ {other} :
       server' = Up(pid, server.gen + 1,
                    SubSeq(Copy(mem[Debuggable], mem[Debuggable].serial.len), 1,
                           mem[Debuggable].serial.len))
  /\ UNCHANGED <<mem, proc, reader, svc, other, left, hist>>

OtherStart ==
  /\ other = 0 /\ Use("others")
  /\ \E pid \in Pid \ {server.pid} : other' = pid
  /\ UNCHANGED <<mem, proc, reader, svc, server, hist>>

Setter(p) ==
  \/ FindProp(p) \/ ReadSerial(p) \/ WriteSerial(p) \/ WriteValue(p)
  \/ Lookup(p) \/ KillServer(p)

Reading == ReadNote \/ ReadCopy \/ ReadCheck \/ ReadEnd

Next ==
  \/ \E p \in Proc : Setter(p) \/ Interrupt(p) \/ \E cmd \in Command : Start(p, cmd)
  \/ (\E n \in Updated : UpdateBegin(n)) \/ UpdateEnd
  \/ (\E n \in Prop : ReadBegin(n)) \/ Reading
  \/ ServerExit \/ ServerStart \/ OtherStart

Spec == Init /\ [][Next]_vars

(* Processes that are not killed keep running; init restarts the server.   *)
FairSpec ==
  /\ Spec
  /\ \A p \in Proc : WF_vars(Setter(p))
  /\ WF_vars(Reading) /\ WF_vars(UpdateEnd) /\ WF_vars(ServerStart)

-----------------------------------------------------------------------------
(* Properties.                                                             *)

(* Every variable has its type; a length never exceeds what the value      *)
(* field and the first character behind it can hold.                       *)
TypeOK ==
  /\ \A n \in Prop : /\ mem[n].serial \in [len : Cells, count : Nat, dirty : BOOLEAN]
                     /\ mem[n].cell \in [Cells -> Nat]
  /\ \A p \in Proc : proc[p].pc \in
       {"idle", "find", "read", "serial", "value", "lookup", "kill"}
  /\ reader.pc \in {"idle", "serial", "copy", "check", "done"}
  /\ svc.pc \in {"idle", "copy"} /\ svc.prop \in Prop
  /\ server.pid \in Pid \union {0} /\ other \in Pid \union {0}

(* When nobody is writing a property, and no two writers met and none was  *)
(* interrupted, what lies in memory is the value last written: the length  *)
(* in the serial, the characters, the terminator, and no dirty bit.  No    *)
(* setter ever touches another property than its own.                      *)
Coherent ==
  \A n \in Prop : (~Writing(n) /\ ~hist.torn[n]) =>
    /\ mem[n].serial.len = Len(hist.val[n]) /\ ~mem[n].serial.dirty
    /\ Copy(mem[n], mem[n].serial.len) = Append(hist.val[n], NUL)

(* A reader that met at most one setter, and did not copy between its two  *)
(* writes, returns a value the property had while it was reading, although *)
(* the setter neither marks the property dirty nor counts.                 *)
ReadsOldOrNew ==
  (/\ reader.pc = "done" /\ ~hist.torn[reader.prop]
   /\ reader.writes <= 1 /\ ~reader.inside)
  => reader.copy \in {Append(v, NUL) : v \in reader.vals}

(* setdebuggable sets the property before it kills system_server: unless   *)
(* another command set it too, the server that comes up has the value that *)
(* was asked for.                                                          *)
HotRebootSees ==
  (hist.asked # NoAsk /\ server.pid # 0)
    => server.gen > hist.asked.gen /\ server.seen = hist.asked.value

(* The signal hits another process only if system_server went away between *)
(* the lookup and the kill.                                                *)
KillRace ==
  [][\A p \in Proc :
       (proc[p].pc = "kill" /\ proc'[p].pc = "idle" /\ other # 0 /\ other' = 0)
         => server.pid = 0 \/ server.gen # proc[p].gen]_vars

(* A reader ends, unless two writers met: no setter leaves a property      *)
(* dirty, or changes its serial for ever.                                  *)
ReadEnds ==
  \A n \in Prop :
    (reader.pc # "idle" /\ reader.prop = n) ~> (reader.pc = "idle" \/ hist.torn[n])

-----------------------------------------------------------------------------
(* What the code says of itself and does not do.                           *)

(* prop.c refuses a value that is "too long" for prop.h's value field: a   *)
(* value that is accepted leaves the name behind it alone.                 *)
NameIntact == \A n \in Prop : mem[n].cell[PROP_VALUE_MAX] = NameChar

=============================================================================
